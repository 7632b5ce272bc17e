--------------------------- MODULE PublishProofs ---------------------------
(***************************************************************************)
(* Proofs about the publishers of module LazySession, from what module     *)
(* LazySessionProofs shows: what each publisher is still to send and to    *)
(* report, against the tables.  Nothing is sent twice, held queues are     *)
(* quiet, the limit on what is out is kept, and every claim has an owner,  *)
(* for every value of the constants, when waits are long enough and nobody *)
(* clicks before the queued calls of the last run have been taken.         *)
(***************************************************************************)
EXTENDS LazySessionProofs

-----------------------------------------------------------------------------
(* What is to be sent and to be reported. *)

\* A publisher that has not come to its end.
Live(s, p) == s.pubs[p].run \in {"connecting", "sending", "trying", "sent"}
\* The publisher of the run, until it is told to quit.
Busy(s) == \E p \in PubSlots : p = s.ctl.pub /\ Running(s.pubs[p]) /\ ~s.pubs[p].quit

AtWork == {"queueReady", "published", "failed", "pubFinished"}
PubKinds == AtWork \cup {"pubThreadFinished"}
HasCall(s, kinds) == \E i \in DOMAIN s.events : s.events[i].kind \in kinds

\* Publishers and their calls, at all times: the controller refers to a publisher
\* until it has come to its end, and what a thread says last is true.
Referred(s) ==
  /\ \A p \in PubSlots : Live(s, p) => s.ctl.pub = p
  /\ \A i \in DOMAIN s.events :
       s.events[i].kind \in {"pubFinished", "pubThreadFinished"} => ~Live(s, s.events[i].of)
  /\ \A p \in PubSlots : Live(s, p) => IsInjective(s.pubs[p].todo)

\* In a run: one publisher at a time, whose calls come after the end of the one
\* before it and before its own.
InTurn(s, i) ==
  LET e == s.events[i]
  IN  /\ e.kind = "pubFinished" =>
           /\ e.of = s.ctl.pub /\ s.pubs[e.of].run = "done"
           /\ \A j \in DOMAIN s.events : j > i => s.events[j].kind \notin PubKinds
      /\ e.kind = "pubThreadFinished" =>
           /\ s.pubs[e.of].run = "exited"
           /\ s.ctl.pub \in {e.of, NoSlot} \/ Busy(s)
           /\ \A j \in DOMAIN s.events : j < i => s.events[j].kind \notin PubKinds
Wired(s) ==
  /\ \A p \in PubSlots : Running(s.pubs[p]) => p = s.ctl.pub
  /\ \A p \in PubSlots : Live(s, p) => ~s.pubs[p].stop /\ ~s.pubs[p].quit
  /\ Busy(s) => ~s.ctl.pubDone
  /\ HasCall(s, AtWork) => Busy(s)
  /\ \A i \in DOMAIN s.events : InTurn(s, i)

\* The requests given to a publisher and not yet reported and taken note of.
Told(s) ==
  {s.events[i].of : i \in {j \in DOMAIN s.events : s.events[j].kind \in {"published", "failed"}}}
Todo(s) == UNION {Range(s.pubs[p].todo) : p \in {r \in PubSlots : Live(s, r)}}
Handed(s) == Told(s) \cup Todo(s)
\* Of these, the one being reported, and those not yet sent.
InHand(s) == {Head(s.pubs[p].todo) : p \in {r \in PubSlots : s.pubs[r].run = "sent"}}
Left(thread) ==
  {thread.todo[k] : k \in {j \in DOMAIN thread.todo : j > 1 \/ thread.run # "sent"}}
Unsent(s) == UNION {Left(s.pubs[p]) : p \in {r \in PubSlots : Live(s, r)}}

OutRows(d) == RowsIn(d, {"CLAIMED", "SENT", "RUNNING"})
\* What the publisher will report as sent although its claim was undone.
Back(s) == Handed(s) \cap RowsIn(s.db, {"PENDING"})

\* The tables against what was handed out; B is what the broker has.
Accounted(s, B) ==
  /\ \A t \in Rows(s.db) : t.gen <= s.db.gen
  /\ \A t \in Handed(s) \cup B : t \in Rows(s.db) \/ t.gen < s.db.gen
  /\ Back(s) # {} => ~s.ctl.active /\ \A p \in PubSlots : ~Live(s, p)
  /\ Cardinality(OutRows(s.db) \cup Back(s)) <= Fallback
  /\ OwnSources => \A t \in OutRows(s.db) \cup (Handed(s) \cap Rows(s.db)) : ~s.db.held[t.queue]
  /\ \A q \in s.ctl.open : ~s.db.held[q]
  /\ \A t \in B : t \in RowsIn(s.db, {"PENDING", "CLAIMED"}) => t \in Told(s) \cup InHand(s)
  /\ \A t \in B : t \notin Unsent(s)

\* Outside of a stop.
Settled(s) ==
  /\ s.ctl.active => Wired(s)
  /\ "connectFailure" \notin Allowed =>
       /\ Claims(s.db) \subseteq Handed(s)
       /\ ~s.ctl.active => Claims(s.db) = {}

\* No publisher is left, nor a call of one.
NoneLeft(s) ==
  /\ \A p \in PubSlots : ~Running(s.pubs[p])
  /\ ~HasCall(s, PubKinds)

\* Waits are long enough, and there are two slots for publishers: the last one and
\* the one that is started beside it while its thread ends.
Orderly == /\ Allowed \cap {"waitTimeout", "hurry"} = {}
           /\ \E p, r \in PubSlots : p # r /\ PubSlots = {p, r}
\* The process never ends.
Once == Allowed \cap {"crash", "exit"} = {}
AtBroker == IF Once THEN BagToSet(mq) ELSE {}

Halts == [at : {"none", "scans", "messaging", "down"},
          then : {"none", "pause", "decline", "reset", "exit"}]

PublishFits ==
  /\ SessionFits /\ halt \in Halts
  /\ Referred(Situation) /\ Accounted(Situation, AtBroker)
  /\ halt.at \in {"none", "scans"} => Settled(Situation)
  /\ halt.at = "down" => NoneLeft(Situation)
  /\ Once => halt.at # "down" /\ halt.then # "exit" /\ \A t \in BagToSet(mq) : mq[t] = 1

-----------------------------------------------------------------------------
(* Slots that leave publishers and queued calls alone. *)

\* What is handed out is told by the threads and the calls.
LEMMA SameHanded ==
  ASSUME NEW s, NEW t, t.pubs = s.pubs, t.events = s.events
  PROVE  /\ Told(t) = Told(s) /\ Todo(t) = Todo(s) /\ Handed(t) = Handed(s)
         /\ InHand(t) = InHand(s) /\ Unsent(t) = Unsent(s)
         /\ \A p : Live(t, p) <=> Live(s, p)
<1>1. \A p : Live(t, p) <=> Live(s, p)
  BY DEF Live
<1>2. Told(t) = Told(s) /\ InHand(t) = InHand(s)
  BY DEF Told, InHand
<1>3. Todo(t) = Todo(s) /\ Unsent(t) = Unsent(s)
  BY <1>1 DEF Todo, Unsent
<1> QED
  BY <1>1, <1>2, <1>3 DEF Handed

\* Rows settle, or are new, or go with their queue; nothing is claimed or released.
Gentle(d, e) ==
  /\ d.gen <= e.gen
  /\ \A t \in Rows(e) : t \in Rows(d) \/ (e.tasks[t] = "PENDING" /\ t.gen = e.gen)
  /\ \A t \in Rows(d) : t \in Rows(e) \/ d.gen < e.gen
  /\ \A t \in Rows(d) \cap Rows(e) :
       \/ e.tasks[t] = d.tasks[t] \/ e.tasks[t] \in Terminal
       \/ d.tasks[t] = "SENT" /\ e.tasks[t] = "RUNNING"
  /\ \A q \in Queues : e.held[q] => d.held[q]

Keeps(s, t) ==
  /\ t.pubs = s.pubs /\ t.events = s.events
  /\ t.ctl.pub = s.ctl.pub \/ (t.ctl.pub = NoSlot /\ ~PubRunning(s))
  /\ t.ctl.pubDone = s.ctl.pubDone \/ ~Busy(s)
  /\ t.ctl.active => s.ctl.active
  /\ s.ctl.active => t.ctl.active \/ ~Busy(s)
  /\ Gentle(s.db, t.db)
  /\ \A q \in t.ctl.open : q \in s.ctl.open \/ ~t.db.held[q]

\* A publisher of the run is one that is running.
LEMMA BusyRunning == ASSUME NEW s, Busy(s) PROVE PubRunning(s)
BY ControllerAssumption DEF Busy, PubRunning, NoSlot

LEMMA LiveRuns == ASSUME NEW s, NEW p, Live(s, p) PROVE Running(s.pubs[p])
BY DEF Live, Running

LEMMA KeepsReferred ==
  ASSUME NEW s, NEW t, Referred(s), Keeps(s, t) PROVE Referred(t)
<1>1. \A p : Live(t, p) <=> Live(s, p)
  BY SameHanded DEF Keeps
<1>2. ASSUME NEW p \in PubSlots, Live(t, p) PROVE t.ctl.pub = p
  <2>1. s.ctl.pub = p /\ PubRunning(s)
    BY <1>1, <1>2, LiveRuns, ControllerAssumption DEF Referred, PubRunning, NoSlot
  <2> QED
    BY <2>1 DEF Keeps
<1> QED
  BY <1>1, <1>2 DEF Referred, Keeps

\* In a run without a publisher nothing is handed out.
LEMMA NothingHanded ==
  ASSUME NEW s, Wired(s), ~Busy(s)
  PROVE  /\ Handed(s) = {} /\ ~HasCall(s, AtWork)
         /\ \A p \in PubSlots : ~Live(s, p)
<1>1. ~HasCall(s, AtWork)
  BY DEF Wired
<1>2. Told(s) = {}
  BY <1>1 DEF Told, HasCall, AtWork
<1>3. ASSUME NEW p \in PubSlots, Live(s, p) PROVE FALSE
  BY <1>3, LiveRuns DEF Wired, Busy
<1> QED
  BY <1>1, <1>2, <1>3 DEF Handed, Todo

\* What is handed out are requests.
LEMMA HandedTyped ==
  ASSUME NEW s, Typed(s) PROVE Handed(s) \subseteq Requests
<1>1. ASSUME NEW i \in DOMAIN s.events, s.events[i].kind \in {"published", "failed"}
      PROVE  s.events[i].of \in Requests
  <2>1. s.events[i] \in Calls
    BY DEF Typed
  <2> QED
    BY <1>1, <2>1 DEF Calls
<1>2. ASSUME NEW p \in PubSlots PROVE Range(s.pubs[p].todo) \subseteq Requests
  <2>1. s.pubs[p].todo \in Seq(Requests)
    BY DEF Typed, PubThreads, ThreadRecords
  <2> QED
    BY <2>1 DEF Range
<1> QED
  BY <1>1, <1>2 DEF Handed, Told, Todo

\* The rows that are out or will come back out.
LEMMA GentleRows ==
  ASSUME NEW s, NEW t, NEW B \in SUBSET Requests,
         Typed(s), Typed(t), Accounted(s, B), Keeps(s, t)
  PROVE  /\ OutRows(t.db) \subseteq OutRows(s.db)
         /\ Claims(t.db) \subseteq Claims(s.db)
         /\ Back(t) \subseteq Back(s)
         /\ Handed(t) \cap Rows(t.db) \subseteq Rows(s.db)
         /\ \A r \in Handed(s) \cup B : r \in Rows(t.db) \/ r.gen < t.db.gen
         /\ \A r \in Handed(s) \cup B : r \in RowsIn(t.db, {"PENDING", "CLAIMED"}) =>
              r \in RowsIn(s.db, {"PENDING", "CLAIMED"})
<1> DEFINE d == s.db
           e == t.db
<1>1. /\ Gentle(d, e) /\ Handed(t) = Handed(s)
  BY SameHanded DEF Keeps
<1>2. /\ d.gen \in Nat /\ e.gen \in Nat
      /\ \A r \in Rows(d) : r.gen \in Nat /\ d.tasks[r] \in Statuses
      /\ \A r \in Rows(e) : r.gen \in Nat /\ e.tasks[r] \in Statuses
  BY DEF Typed, Sound, TypedTables, HasColumns, Requests
<1>3. \A r \in Handed(s) \cup B : r \in Rows(d) \/ r.gen < d.gen
  BY DEF Accounted
<1>4. \A r \in Handed(s) \cup B : r \in Rows(e) => r \in Rows(d)
  BY <1>1, <1>2, <1>3 DEF Gentle
<1>5. \A r \in Handed(s) \cup B : r \in Rows(e) \/ r.gen < e.gen
  <2> SUFFICES ASSUME NEW r \in Handed(s) \cup B, r \notin Rows(e) PROVE r.gen < e.gen
    OBVIOUS
  <2>1. CASE r \in Rows(d)
    <3>1. d.gen < e.gen /\ r.gen <= d.gen /\ r.gen \in Nat
      BY <1>1, <1>2, <2>1 DEF Gentle, Accounted
    <3> QED
      BY <1>2, <3>1
  <2>2. CASE r \notin Rows(d)
    <3>1. r.gen < d.gen /\ d.gen <= e.gen
      BY <1>1, <1>3, <2>2 DEF Gentle
    <3>2. r.gen \in Nat
      BY HandedTyped DEF Requests
    <3> QED
      BY <1>2, <3>1, <3>2
  <2> QED
    BY <2>1, <2>2
<1>6. Handed(t) \cap Rows(e) \subseteq Rows(d)
  BY <1>1, <1>4
<1>7. \A r \in Rows(e) :
        /\ e.tasks[r] \in {"CLAIMED", "SENT", "RUNNING"} =>
             r \in Rows(d) /\ d.tasks[r] \in {"CLAIMED", "SENT", "RUNNING"}
        /\ e.tasks[r] = "CLAIMED" => r \in Rows(d) /\ d.tasks[r] = "CLAIMED"
        /\ e.tasks[r] = "PENDING" /\ r \in Rows(d) => d.tasks[r] = "PENDING"
  BY <1>1, <1>2 DEF Gentle, Terminal
<1> HIDE DEF d, e
<1>8. OutRows(e) \subseteq OutRows(d) /\ Claims(e) \subseteq Claims(d)
  BY <1>7 DEF OutRows, Claims, RowsIn
<1>9. Handed(t) \cap RowsIn(e, {"PENDING"}) \subseteq Handed(s) \cap RowsIn(d, {"PENDING"})
  BY <1>1, <1>6, <1>7 DEF RowsIn
<1>10. \A r \in Handed(s) \cup B : r \in RowsIn(e, {"PENDING", "CLAIMED"}) =>
          r \in RowsIn(d, {"PENDING", "CLAIMED"})
  BY <1>4, <1>7 DEF RowsIn
<1> QED
  BY <1>5, <1>6, <1>8, <1>9, <1>10 DEF d, e, Back

\* The rows that count against the limit are finite.
LEMMA CountedFinite ==
  ASSUME NEW s, Typed(s)
  PROVE  /\ IsFiniteSet(OutRows(s.db) \cup Back(s))
         /\ Cardinality(OutRows(s.db) \cup Back(s)) \in Nat
<1>1. OutRows(s.db) \cup Back(s) \subseteq Rows(s.db) /\ IsFiniteSet(Rows(s.db))
  BY DEF Typed, Sound, TypedTables, OutRows, Back, RowsIn
<1> QED
  BY <1>1, FS_Subset, FS_CardinalityType

\* Fewer rows are within the limit if more are.
LEMMA FewerCounted ==
  ASSUME NEW s, NEW t, Typed(s), Typed(t),
         OutRows(t.db) \cup Back(t) \subseteq OutRows(s.db) \cup Back(s),
         Cardinality(OutRows(s.db) \cup Back(s)) <= Fallback
  PROVE  Cardinality(OutRows(t.db) \cup Back(t)) <= Fallback
<1>1. Cardinality(OutRows(t.db) \cup Back(t)) <= Cardinality(OutRows(s.db) \cup Back(s))
  BY CountedFinite, FS_Subset
<1> QED
  BY <1>1, CountedFinite, ControllerAssumption

LEMMA KeepsAccounted ==
  ASSUME NEW s, NEW t, NEW B \in SUBSET Requests,
         Typed(s), Typed(t), Accounted(s, B), Keeps(s, t)
  PROVE  Accounted(t, B)
<1>1. /\ OutRows(t.db) \subseteq OutRows(s.db)
      /\ Back(t) \subseteq Back(s)
      /\ Handed(t) \cap Rows(t.db) \subseteq Rows(s.db)
      /\ \A r \in Handed(s) \cup B : r \in Rows(t.db) \/ r.gen < t.db.gen
      /\ \A r \in Handed(s) \cup B : r \in RowsIn(t.db, {"PENDING", "CLAIMED"}) =>
              r \in RowsIn(s.db, {"PENDING", "CLAIMED"})
  BY GentleRows
<1>2. /\ Told(t) = Told(s) /\ Handed(t) = Handed(s) /\ InHand(t) = InHand(s)
      /\ Unsent(t) = Unsent(s) /\ \A p : Live(t, p) <=> Live(s, p)
  BY SameHanded DEF Keeps
<1>3. \A r \in Rows(t.db) : r.gen <= t.db.gen
  <2>1. \A r \in Rows(t.db) : r \in Rows(s.db) \/ r.gen = t.db.gen
    BY DEF Keeps, Gentle
  <2>2. s.db.gen <= t.db.gen /\ s.db.gen \in Nat /\ t.db.gen \in Nat
        /\ \A r \in Rows(t.db) : r.gen \in Nat
    BY DEF Keeps, Gentle, Typed, Sound, TypedTables, HasColumns, Requests
  <2> QED
    BY <2>1, <2>2 DEF Accounted
<1>4. Back(t) # {} => ~t.ctl.active /\ \A p \in PubSlots : ~Live(t, p)
  BY <1>1, <1>2 DEF Accounted, Keeps
<1>5. Cardinality(OutRows(t.db) \cup Back(t)) <= Fallback
  <2>1. OutRows(t.db) \cup Back(t) \subseteq OutRows(s.db) \cup Back(s)
    BY <1>1
  <2> QED
    BY <2>1, FewerCounted DEF Accounted
<1>6. \A r \in OutRows(t.db) \cup (Handed(t) \cap Rows(t.db)) :
        /\ r \in OutRows(s.db) \cup (Handed(s) \cap Rows(s.db))
        /\ t.db.held[r.queue] => s.db.held[r.queue]
  <2>1. OutRows(t.db) \subseteq Rows(t.db) /\ \A r \in Rows(t.db) : r.queue \in Queues
    BY DEF OutRows, RowsIn, Typed, Sound, TypedTables, Requests
  <2> QED
    BY <1>1, <1>2, <2>1 DEF Keeps, Gentle
<1>7. \A q \in t.ctl.open : ~t.db.held[q]
  <2>1. t.ctl.open \subseteq Queues
    BY DEF Typed, Attributes
  <2> QED
    BY <2>1 DEF Keeps, Gentle, Accounted
<1>8. \A r \in B : /\ r \in RowsIn(t.db, {"PENDING", "CLAIMED"}) => r \in Told(t) \cup InHand(t)
                   /\ r \notin Unsent(t)
  BY <1>1, <1>2 DEF Accounted
<1>9. OwnSources => \A r \in OutRows(t.db) \cup (Handed(t) \cap Rows(t.db)) : ~t.db.held[r.queue]
  BY <1>6 DEF Accounted
<1> QED
  BY <1>1, <1>2, <1>3, <1>4, <1>5, <1>7, <1>8, <1>9 DEF Accounted

LEMMA KeepsSettled ==
  ASSUME NEW s, NEW t, NEW B \in SUBSET Requests,
         Typed(s), Typed(t), Accounted(s, B), Settled(s), Keeps(s, t)
  PROVE  Settled(t)
<1>1. t.pubs = s.pubs /\ t.events = s.events /\ \A p : Live(t, p) <=> Live(s, p)
  BY SameHanded DEF Keeps
<1>2. Busy(s) => t.ctl.pub = s.ctl.pub
  BY BusyRunning DEF Keeps
<1>3. ASSUME t.ctl.active PROVE Wired(t)
  <2>1. Wired(s)
    BY <1>3 DEF Settled, Keeps
  <2>2. Busy(t) <=> Busy(s)
    BY <1>1, <1>2, ControllerAssumption DEF Busy, Keeps, NoSlot
  <2>3. \A p \in PubSlots : Running(t.pubs[p]) => p = t.ctl.pub
    <3> SUFFICES ASSUME NEW p \in PubSlots, Running(t.pubs[p]) PROVE p = t.ctl.pub
      OBVIOUS
    <3>1. p = s.ctl.pub /\ PubRunning(s)
      BY <1>1, <2>1, ControllerAssumption DEF Wired, PubRunning, NoSlot
    <3> QED
      BY <3>1 DEF Keeps
  <2>4. \A p \in PubSlots : Live(t, p) => ~t.pubs[p].stop /\ ~t.pubs[p].quit
    BY <1>1, <2>1 DEF Wired
  <2>5. Busy(t) => ~t.ctl.pubDone
    BY <2>1, <2>2 DEF Wired, Keeps
  <2>6. HasCall(t, AtWork) => Busy(t)
    BY <1>1, <2>1, <2>2 DEF Wired, HasCall
  <2>7. ASSUME NEW i \in DOMAIN t.events PROVE InTurn(t, i)
    <3>1. InTurn(s, i)
      BY <1>1, <2>1, <2>7 DEF Wired
    <3>2. t.events[i].kind = "pubFinished" => Busy(s)
      BY <1>1, <2>1, <2>7 DEF Wired, HasCall, AtWork
    <3>3. s.ctl.pub = t.ctl.pub \/ t.ctl.pub = NoSlot
      BY DEF Keeps
    <3> QED
      BY <1>1, <1>2, <2>2, <3>1, <3>2, <3>3 DEF InTurn
  <2> QED
    BY <2>3, <2>4, <2>5, <2>6, <2>7 DEF Wired
<1>4. ASSUME "connectFailure" \notin Allowed
      PROVE  Claims(t.db) \subseteq Handed(t) /\ (~t.ctl.active => Claims(t.db) = {})
  <2>1. Claims(t.db) \subseteq Claims(s.db) /\ Handed(t) = Handed(s)
    BY GentleRows, SameHanded DEF Keeps
  <2>2. Claims(s.db) \subseteq Handed(s) /\ (~s.ctl.active => Claims(s.db) = {})
    BY <1>4 DEF Settled
  <2>3. ASSUME s.ctl.active, ~t.ctl.active PROVE Handed(s) = {}
    BY <2>3, NothingHanded DEF Keeps, Settled
  <2> QED
    BY <2>1, <2>2, <2>3
<1> QED
  BY <1>3, <1>4 DEF Settled

-----------------------------------------------------------------------------
(* The routines that the slots are made of. *)

\* What a situation keeps to while the event loop runs.
Tidy(s, B) == /\ Fit(s) /\ B \subseteq Requests
              /\ Referred(s) /\ Accounted(s, B) /\ Settled(s)

LEMMA KeepsTidy ==
  ASSUME NEW s, NEW t, NEW B, Tidy(s, B), Fit(t), Keeps(s, t) PROVE Tidy(t, B)
<1>1. Typed(s) /\ Typed(t) /\ B \in SUBSET Requests
  BY DEF Tidy, Fit
<1>2. Referred(t) /\ Accounted(t, B)
  BY <1>1, KeepsReferred, KeepsAccounted DEF Tidy
<1>3. Settled(t)
  BY <1>1, KeepsSettled DEF Tidy
<1> QED
  BY <1>1, <1>2, <1>3 DEF Tidy

\* Tables with the same rows.
LEMMA SameGentle ==
  ASSUME NEW d, Sound(d), NEW e, e.tasks = d.tasks, e.gen = d.gen,
         \A q \in Queues : e.held[q] => d.held[q]
  PROVE  Gentle(d, e)
<1>1. d.gen \in Nat
  BY DEF Sound, TypedTables, HasColumns
<1> QED
  BY <1>1 DEF Gentle, Rows

\* Changes that leave tables, publishers and calls alone.
LEMMA SidesKeep ==
  ASSUME NEW s, Typed(s), NEW t, t.db = s.db, t.pubs = s.pubs, t.events = s.events,
         t.ctl.active = s.ctl.active,
         t.ctl.pub = s.ctl.pub \/ (t.ctl.pub = NoSlot /\ ~PubRunning(s)),
         t.ctl.pubDone = s.ctl.pubDone \/ ~Busy(s),
         \A q \in t.ctl.open : q \in s.ctl.open \/ ~s.db.held[q]
  PROVE  Keeps(s, t)
<1>1. Gentle(s.db, t.db)
  BY SameGentle DEF Typed
<1> QED
  BY <1>1 DEF Keeps

\* The same, for a calm slot.
LEMMA SidesTidy ==
  ASSUME NEW s, NEW t, NEW B, Tidy(s, B), Calm(s, t),
         t.db = s.db, t.pubs = s.pubs, t.events = s.events,
         t.ctl.pub = s.ctl.pub \/ (t.ctl.pub = NoSlot /\ ~PubRunning(s)),
         t.ctl.pubDone = s.ctl.pubDone \/ ~Busy(s),
         \A q \in t.ctl.open : q \in s.ctl.open \/ ~s.db.held[q]
  PROVE  Tidy(t, B)
<1>1. Fit(t)
  BY CalmFit DEF Tidy
<1>2. Keeps(s, t)
  BY SidesKeep DEF Tidy, Fit, Calm
<1> QED
  BY <1>1, <1>2, KeepsTidy

\* Changes of the tables alone.
LEMMA TablesTidy ==
  ASSUME NEW s, NEW d, NEW B, Tidy(s, B), Gentle(s.db, d),
         Calm(s, [s EXCEPT !.db = d])
  PROVE  Tidy([s EXCEPT !.db = d], B)
<1> DEFINE t == [s EXCEPT !.db = d]
<1>1. Fit(t)
  BY CalmFit DEF Tidy
<1>2. /\ t.db = d /\ t.ctl = s.ctl /\ t.pubs = s.pubs /\ t.events = s.events
  BY DEF Tidy, Fit, Typed, Parts
<1> HIDE DEF t
<1>3. Keeps(s, t)
  BY <1>2 DEF Keeps
<1>4. Tidy(t, B)
  BY <1>1, <1>3, KeepsTidy
<1> QED
  BY <1>4 DEF t

\* A look at the publisher.
LEMMA PubCheckedTidy ==
  ASSUME NEW s, NEW B, Tidy(s, B) PROVE Tidy(PubChecked(s), B)
<1> DEFINE c == [s.ctl EXCEPT !.pub = NoSlot]
           t == [s EXCEPT !.ctl = c]
<1>1. PubChecked(s) = s \/ (PubChecked(s) = t /\ ~PubRunning(s))
  BY DEF PubChecked
<1>2. Calm(s, PubChecked(s))
  BY PubCheckedCalm DEF Tidy
<1>3. c.pub = NoSlot /\ c.pubDone = s.ctl.pubDone /\ c.open = s.ctl.open
  BY DEF Tidy, Fit, Typed, Attributes
<1> HIDE DEF c
<1>4. /\ t.ctl = c /\ t.db = s.db /\ t.pubs = s.pubs /\ t.events = s.events
  BY DEF Tidy, Fit, Typed, Parts
<1> HIDE DEF t
<1>5. CASE PubChecked(s) = s
  BY <1>5
<1>6. CASE PubChecked(s) = t /\ ~PubRunning(s)
  <2>1. Calm(s, t)
    BY <1>2, <1>6
  <2>2. Tidy(t, B)
    BY <1>3, <1>4, <1>6, <2>1, SidesTidy
  <2> QED
    BY <1>6, <2>2
<1> QED
  BY <1>1, <1>5, <1>6

\* A look at the poller.
LEMMA PollCheckedTidy ==
  ASSUME NEW s, NEW B, Tidy(s, B) PROVE Tidy(PollChecked(s), B)
<1> DEFINE c == [s.ctl EXCEPT !.poll = NoSlot]
           t == [s EXCEPT !.ctl = c]
<1>1. PollChecked(s) = s \/ PollChecked(s) = t
  BY DEF PollChecked
<1>2. Calm(s, PollChecked(s))
  BY PollCheckedCalm DEF Tidy, Fit
<1>3. c.pub = s.ctl.pub /\ c.pubDone = s.ctl.pubDone /\ c.open = s.ctl.open
  BY DEF Tidy, Fit, Typed, Attributes
<1> HIDE DEF c
<1>4. /\ t.ctl = c /\ t.db = s.db /\ t.pubs = s.pubs /\ t.events = s.events
  BY DEF Tidy, Fit, Typed, Parts
<1> HIDE DEF t
<1> QED
  BY <1>1, <1>2, <1>3, <1>4, SidesTidy

\* A new poll thread, or one where there is none.
LEMMA StartPollerTidy ==
  ASSUME NEW s, NEW B, Tidy(s, B) PROVE Tidy(StartPoller(s), B)
<1> DEFINE w == Lowest(FreePolls(s))
           c == [s.ctl EXCEPT !.poll = w]
           ps == [s.polls EXCEPT ![w] = [NoThread EXCEPT !.run = "connecting"]]
           t == StartPoller(s)
<1>1. t = [s EXCEPT !.ctl = c, !.polls = ps]
  BY DEF StartPoller
<1>2. Calm(s, t)
  BY StartPollerCalm DEF Tidy, Fit
<1> HIDE DEF w, ps
<1>3. c.pub = s.ctl.pub /\ c.pubDone = s.ctl.pubDone /\ c.open = s.ctl.open
  BY DEF Tidy, Fit, Typed, Attributes
<1> HIDE DEF c, t
<1>4. /\ t.ctl = c /\ t.db = s.db /\ t.pubs = s.pubs /\ t.events = s.events
  BY <1>1 DEF Tidy, Fit, Typed, Parts
<1>5. Tidy(t, B)
  BY <1>2, <1>3, <1>4, SidesTidy
<1> QED
  BY <1>5 DEF t

LEMMA EnsurePollerTidy ==
  ASSUME NEW s, NEW B, Tidy(s, B) PROVE Tidy(EnsurePoller(s), B)
BY StartPollerTidy DEF EnsurePoller

\* The request to stop polling.
LEMMA StopPollingTidy ==
  ASSUME NEW s, NEW B, Tidy(s, B) PROVE Tidy(StopPolling(s), B)
<1> DEFINE ps == [s.polls EXCEPT ![s.ctl.poll].stop = TRUE]
           t == [s EXCEPT !.polls = ps]
<1>1. StopPolling(s) = s \/ StopPolling(s) = t
  BY DEF StopPolling
<1>2. Calm(s, StopPolling(s))
  BY StopPollingCalm DEF Tidy, Fit
<1> HIDE DEF ps
<1>3. /\ t.ctl = s.ctl /\ t.db = s.db /\ t.pubs = s.pubs /\ t.events = s.events
  BY DEF Tidy, Fit, Typed, Parts
<1> HIDE DEF t
<1> QED
  BY <1>1, <1>2, <1>3, SidesTidy

\* A scan that begins.
LEMMA StartScanTidy ==
  ASSUME NEW s, NEW B, Tidy(s, B), NEW q \in Queues PROVE Tidy(StartScan(s, q), B)
<1> DEFINE k == Lowest(FreeScans(s))
           c == [s.ctl EXCEPT !.scanning[q] = k]
           ss == [s.scans EXCEPT ![k] = [NoScan EXCEPT !.run = "scanning", !.queue = q,
                                            !.todo = Ascending(ImagesIn(q))]]
           t == StartScan(s, q)
<1>1. t = [s EXCEPT !.ctl = c, !.scans = ss]
  BY DEF StartScan
<1>2. Calm(s, t)
  BY StartScanCalm DEF Tidy, Fit
<1> HIDE DEF k, ss
<1>3. c.pub = s.ctl.pub /\ c.pubDone = s.ctl.pubDone /\ c.open = s.ctl.open
  BY DEF Tidy, Fit, Typed, Attributes
<1> HIDE DEF c, t
<1>4. /\ t.ctl = c /\ t.db = s.db /\ t.pubs = s.pubs /\ t.events = s.events
  BY <1>1 DEF Tidy, Fit, Typed, Parts
<1>5. Tidy(t, B)
  BY <1>2, <1>3, <1>4, SidesTidy
<1> QED
  BY <1>5 DEF t

\* The publisher and what is known of it stay as they are.
SamePub(s, t) == t.pubs = s.pubs /\ t.ctl.pub = s.ctl.pub

LEMMA SamePubRuns ==
  ASSUME NEW s, NEW t, SamePub(s, t) PROVE PubRunning(t) <=> PubRunning(s)
BY DEF SamePub, PubRunning

\* Opening the next queues, of those that are not held.
LEMMA OpenNextTidy ==
  ASSUME NEW s, NEW B, Tidy(s, B), NEW count \in Int
  PROVE  Tidy(OpenNext(s, count), B) /\ SamePub(s, OpenNext(s, count))
<1> DEFINE C == {q \in Queues \ s.ctl.opened : s.db.total[q] > 0 /\ ~FolderDone(s.db, q)}
           D == {q \in Queues : s.db.scan[q] \in {"SCANNING", "SCANNED"} /\ ~s.db.held[q]}
           A == ActiveCandidates(s.db)
           next == Only(A, C)
           picked == {next[k] : k \in 1..Min({count, Len(next)})}
           c == [s.ctl EXCEPT !.opened = @ \cup picked, !.open = @ \cup picked]
           t == [s EXCEPT !.ctl = c]
<1>1. D \in SUBSET Queues /\ A = Only(s.db.order, D) /\ \A q \in D : ~s.db.held[q]
  BY DEF ActiveCandidates
<1>2. OpenNext(s, count) = t
  BY DEF OpenNext
<1> HIDE DEF C, D, A
<1>3. A \in Seq(D)
  BY <1>1, OrderPart DEF Tidy, Fit, Typed
<1>4. next \in Seq(D \cap C)
  BY <1>3, OnlyFacts
<1> HIDE DEF next
<1>5. picked \subseteq D
  <2>1. Len(next) \in Nat /\ \A k \in 1..Len(next) : next[k] \in D
    BY <1>4
  <2>2. Min({count, Len(next)}) <= Len(next) /\ Min({count, Len(next)}) \in Int
    BY <2>1, OfTwo
  <2> QED
    BY <2>1, <2>2
<1> HIDE DEF picked
<1>6. c.open = s.ctl.open \cup picked /\ c.pub = s.ctl.pub /\ c.pubDone = s.ctl.pubDone
  BY DEF Tidy, Fit, Typed, Attributes
<1>7. Calm(s, t)
  BY <1>2, OpenNextCalm DEF Tidy, Fit
<1> HIDE DEF c
<1>8. /\ t.ctl = c /\ t.db = s.db /\ t.pubs = s.pubs /\ t.events = s.events
  BY DEF Tidy, Fit, Typed, Parts
<1> HIDE DEF t
<1>9. \A q \in t.ctl.open : q \in s.ctl.open \/ ~s.db.held[q]
  BY <1>1, <1>5, <1>6, <1>8
<1>10. Tidy(t, B)
  BY <1>6, <1>7, <1>8, <1>9, SidesTidy
<1> QED
  BY <1>2, <1>6, <1>8, <1>10 DEF SamePub

\* Queues that are done leave and others are opened.
LEMMA RefreshTidy ==
  ASSUME NEW s, NEW B, Tidy(s, B) PROVE Tidy(Refresh(s), B) /\ SamePub(s, Refresh(s))
<1> DEFINE over == {q \in s.ctl.open :
                      \/ s.db.scan[q] \in {"EMPTY", "ERROR"}
                      \/ s.db.scan[q] = "SCANNED" /\ FolderDone(s.db, q)}
           c == [s.ctl EXCEPT !.open = @ \ over]
           left == [s EXCEPT !.ctl = c]
           count == Min({Cardinality(over), OpenSlots(left)})
<1>1. s.ctl.open \in SUBSET Queues /\ over \in SUBSET s.ctl.open
  BY DEF Tidy, Fit, Typed, Attributes
<1>2. Refresh(s) = OpenNext(left, count)
  BY DEF Refresh
<1> HIDE DEF over
<1>3. /\ Attributes(c) /\ c.active = s.ctl.active /\ c.pub = s.ctl.pub
      /\ c.pubDone = s.ctl.pubDone /\ c.open \subseteq s.ctl.open
  BY <1>1 DEF Tidy, Fit, Typed, Attributes
<1> HIDE DEF c
<1>4. Calm(s, left)
  BY <1>3, CtlCalm DEF Tidy, Fit
<1>5. /\ left.ctl = c /\ left.db = s.db /\ left.pubs = s.pubs /\ left.events = s.events
  BY DEF Tidy, Fit, Typed, Parts
<1> HIDE DEF left
<1>6. Tidy(left, B)
  BY <1>3, <1>4, <1>5, SidesTidy
<1>7. Cardinality(over) \in Int
  <2>1. over \in SUBSET Queues /\ IsFiniteSet(Queues)
    BY <1>1, TablesAssumption
  <2> QED
    BY <2>1, FS_Subset, FS_CardinalityType
<1>8. count \in Int
  BY <1>6, <1>7, OpenSlotsInt, OfTwo DEF Tidy, Fit
<1> HIDE DEF count
<1>9. Tidy(OpenNext(left, count), B) /\ SamePub(left, OpenNext(left, count))
  BY <1>6, <1>8, OpenNextTidy
<1> QED
  BY <1>2, <1>3, <1>5, <1>9 DEF SamePub

\* One more queue is opened.
LEMMA ExpandTidy ==
  ASSUME NEW s, NEW B, Tidy(s, B) PROVE Tidy(Expand(s), B) /\ SamePub(s, Expand(s))
<1>1. Expand(s) \in {s, OpenNext(s, 1)}
  BY DEF Expand
<1>2. Tidy(OpenNext(s, 1), B) /\ SamePub(s, OpenNext(s, 1))
  BY OpenNextTidy
<1> QED
  BY <1>1, <1>2 DEF SamePub

\* A change of a scan state.
LEMMA SetScanTidy ==
  ASSUME NEW s, NEW B, Tidy(s, B), NEW q, NEW state \in ScanStates \ {"NONE"}
  PROVE  Tidy([s EXCEPT !.db = SetScan(s.db, q, state)], B)
<1> DEFINE d == SetScan(s.db, q, state)
<1>1. d.tasks = s.db.tasks /\ d.gen = s.db.gen /\ d.held = s.db.held
  BY DEF Tidy, Fit, Typed, Sound, TypedTables, HasColumns, SetScan
<1>2. Gentle(s.db, d)
  BY <1>1, SameGentle DEF Tidy, Fit, Typed
<1>3. Calm(s, [s EXCEPT !.db = d])
  BY ScanStateCalm DEF Tidy, Fit
<1> HIDE DEF d
<1>4. Tidy([s EXCEPT !.db = d], B)
  BY <1>2, <1>3, TablesTidy
<1> QED
  BY <1>4 DEF d

\* New rows are in PENDING and of the current generation.
LEMMA NewRowsGentle ==
  ASSUME NEW d, Sound(d), NEW q, NEW S, NEW e,
         e.tasks = WithRows(d, NewRows(d, q, S)), e.gen = d.gen, e.held = d.held
  PROVE  Gentle(d, e)
<1> DEFINE N == NewRows(d, q, S)
<1>1. d.gen \in Nat
  BY DEF Sound, TypedTables, HasColumns
<1>2. \A t \in N : t.gen = d.gen
  BY DEF NewRows
<1>3. N \cap Rows(d) = {}
  <2> SUFFICES ASSUME NEW t \in N, t \in Rows(d) PROVE FALSE
    OBVIOUS
  <2>1. t.queue = q /\ t.image \in Missing(d, q, S)
    BY DEF NewRows
  <2> QED
    BY <2>1 DEF Missing, RowsOf
<1> HIDE DEF N
<1>4. /\ Rows(e) = Rows(d) \cup N
      /\ \A t \in Rows(e) : e.tasks[t] = IF t \in N THEN "PENDING" ELSE d.tasks[t]
  BY DEF Rows, WithRows, N
<1> QED
  BY <1>1, <1>2, <1>3, <1>4 DEF Gentle

\* The rows copied from another queue are new.
LEMMA PopulateGentle ==
  ASSUME NEW d, Sound(d), NEW q \in Queues PROVE Gentle(d, Populate(d, q))
<1> DEFINE r == Head(Siblings(d, q))
           S == {t.image : t \in RowsOf(d, r)}
           N == NewRows(d, q, S)
           m == Populated(d, q, N)
           e == SetScan(d, q, "EMPTY")
<1>1. e.tasks = d.tasks /\ e.gen = d.gen /\ e.held = d.held
  BY DEF Sound, TypedTables, HasColumns, SetScan
<1>2. Populate(d, q) \in {d, e, m}
  BY DEF Populate
<1>3. Gentle(d, d) /\ Gentle(d, e)
  BY <1>1, SameGentle
<1> HIDE DEF r, e, S
<1>4. m.tasks = WithRows(d, N) /\ m.gen = d.gen /\ m.held = d.held
  BY DEF Sound, TypedTables, HasColumns, Populated
<1> HIDE DEF m
<1>5. Gentle(d, m)
  BY <1>4, NewRowsGentle
<1> QED
  BY <1>2, <1>3, <1>5

\* A visit to a waiting queue.
LEMMA VisitTidy ==
  ASSUME NEW s, NEW B, Tidy(s, B), NEW q \in Queues PROVE Tidy(Visit(s, q), B)
<1> DEFINE d == Populate(s.db, q)
           e == [s EXCEPT !.db = d]
           r == [s EXCEPT !.db = SetScan(s.db, q, "SCANNING")]
<1>1. Visit(s, q) = s \/ Visit(s, q) = StartScan(r, q) \/ (Visit(s, q) = e /\ CanPopulate(s.db, q))
  BY DEF Visit
<1>2. Tidy(r, B)
  BY SetScanTidy DEF ScanStates
<1> HIDE DEF r
<1>3. Tidy(StartScan(r, q), B)
  BY <1>2, StartScanTidy
<1>4. ASSUME CanPopulate(s.db, q) PROVE Tidy(e, B)
  <2>1. Sound(d)
    BY PopulateKept DEF Tidy, Fit, Typed
  <2>2. d.session = s.db.session /\ d.resume = s.db.resume /\ Claims(d) \subseteq Claims(s.db)
    BY PopulateFields DEF Tidy, Fit, Typed
  <2>3. ~OwnSources
    BY <1>4, NoSibling DEF Tidy, Fit, Typed
  <2>4. Gentle(s.db, d)
    BY PopulateGentle DEF Tidy, Fit, Typed
  <2> HIDE DEF d
  <2>5. Calm(s, [s EXCEPT !.db = d])
    BY <2>1, <2>2, <2>3, TablesCalm DEF Tidy, Fit
  <2>6. Tidy([s EXCEPT !.db = d], B)
    BY <2>4, <2>5, TablesTidy
  <2> QED
    BY <2>6
<1> QED
  BY <1>1, <1>3, <1>4

\* The round over the waiting queues.
LEMMA SweepTidy == ASSUME NEW s, NEW B, Tidy(s, B) PROVE Tidy(Sweep(s), B)
<1> DEFINE waiting == Waiting(s.db)
           n == Len(waiting)
           after[i \in 0..Len(waiting)] ==
             IF i = 0 THEN s ELSE Visit(after[i-1], waiting[i])
<1>1. waiting \in Seq(Queues)
  <2> DEFINE C == {q \in Queues : s.db.scan[q] \in {"WAITING"}}
  <2>1. C \in SUBSET Queues /\ waiting = Only(s.db.order, C)
    BY DEF Waiting, InState
  <2> HIDE DEF C, waiting
  <2>2. waiting \in Seq(C)
    BY <2>1, OrderPart DEF Tidy, Fit, Typed
  <2> QED
    BY <2>1, <2>2
<1>2. Sweep(s) = after[n]
  BY DEF Sweep
<1> HIDE DEF waiting
<1>3. n \in Nat /\ \A i \in 1..n : waiting[i] \in Queues
  BY <1>1
<1>4. PICK f : Visits(f, n, s, waiting)
  BY <1>3, VisitsExist
<1>5. f = [i \in 0..n |-> IF i = 0 THEN s ELSE Visit(f[i-1], waiting[i])]
  BY <1>4 DEF Visits
<1> HIDE DEF after
<1>6. after = [i \in 0..n |-> IF i = 0 THEN s ELSE Visit(after[i-1], waiting[i])]
  BY <1>5 DEF after
<1> HIDE DEF n
<1> DEFINE G == {i \in 0..n : Tidy(after[i], B)}
<1>7. 0 \in G
  BY <1>3, <1>6
<1>8. ASSUME NEW i \in 0..n, i < n, i \in G PROVE i + 1 \in G
  <2>1. i + 1 \in 0..n /\ i + 1 # 0 /\ (i + 1) - 1 = i /\ waiting[i + 1] \in Queues
    BY <1>3, <1>8
  <2>2. after[i + 1] = Visit(after[i], waiting[i + 1])
    BY <1>6, <2>1
  <2>3. Tidy(after[i], B)
    BY <1>8
  <2>4. Tidy(after[i + 1], B)
    BY <2>1, <2>2, <2>3, VisitTidy
  <2> QED
    BY <2>1, <2>4
<1>9. n \in G
  <2> HIDE DEF G
  <2>1. 0..n \subseteq G
    BY <1>3, <1>7, <1>8, Upward
  <2> QED
    BY <1>3, <2>1
<1> QED
  BY <1>2, <1>9

-----------------------------------------------------------------------------
(* Claims that are given back, and the end of a run. *)

\* The tables e are the tables d without their claims.
GivenBack(d, e) ==
  /\ Rows(e) = Rows(d) /\ e.gen = d.gen /\ e.held = d.held
  /\ \A t \in Rows(d) : e.tasks[t] = IF d.tasks[t] = "CLAIMED" THEN "PENDING" ELSE d.tasks[t]

LEMMA ReleaseGives == ASSUME NEW d, Sound(d) PROVE GivenBack(d, ReleaseClaimed(d))
<1> DEFINE T == RowsIn(d, {"CLAIMED"})
           m == Move(d, T, "PENDING")
<1>1. m.tasks = MovedTasks(d, T, "PENDING") /\ Rows(m) = Rows(d) /\ m.gen = d.gen /\ m.held = d.held
  BY MoveFields, MoveRows DEF Sound
<1>2. ReleaseClaimed(d) = m
  BY DEF ReleaseClaimed
<1> HIDE DEF m
<1>3. \A t \in Rows(d) : m.tasks[t] = IF d.tasks[t] = "CLAIMED" THEN "PENDING" ELSE d.tasks[t]
  BY <1>1 DEF MovedTasks, RowsIn
<1> QED
  BY <1>1, <1>2, <1>3 DEF GivenBack

\* The rows by their status, after that.
LEMMA GivenBackRows ==
  ASSUME NEW d, NEW e, GivenBack(d, e)
  PROVE  /\ OutRows(e) \subseteq OutRows(d) /\ Claims(e) = {}
         /\ OutRows(e) \cup RowsIn(e, {"PENDING"}) = OutRows(d) \cup RowsIn(d, {"PENDING"})
         /\ RowsIn(e, {"PENDING"}) \subseteq OutRows(d) \cup RowsIn(d, {"PENDING"})
         /\ RowsIn(e, {"PENDING", "CLAIMED"}) = RowsIn(d, {"PENDING", "CLAIMED"})
BY DEF GivenBack, OutRows, Claims, RowsIn

\* Claims are given back when nothing is handed out, or by a run that has ended
\* with all its publishers.
LEMMA GivenBackAccounted ==
  ASSUME NEW s, NEW t, NEW B \in SUBSET Requests, Typed(s), Typed(t), Accounted(s, B),
         t.pubs = s.pubs, t.events = s.events, GivenBack(s.db, t.db),
         t.ctl.open \subseteq s.ctl.open,
         Handed(s) = {} \/ (~t.ctl.active /\ \A p \in PubSlots : ~Live(s, p))
  PROVE  Accounted(t, B)
<1>1. /\ Told(t) = Told(s) /\ Handed(t) = Handed(s) /\ InHand(t) = InHand(s)
      /\ Unsent(t) = Unsent(s) /\ \A p : Live(t, p) <=> Live(s, p)
  BY SameHanded
<1>2. /\ OutRows(t.db) \subseteq OutRows(s.db)
      /\ RowsIn(t.db, {"PENDING"}) \subseteq OutRows(s.db) \cup RowsIn(s.db, {"PENDING"})
      /\ RowsIn(t.db, {"PENDING", "CLAIMED"}) = RowsIn(s.db, {"PENDING", "CLAIMED"})
  BY GivenBackRows
<1>3. Rows(t.db) = Rows(s.db) /\ t.db.gen = s.db.gen /\ t.db.held = s.db.held
  BY DEF GivenBack
<1>4. Back(t) # {} => ~t.ctl.active /\ \A p \in PubSlots : ~Live(t, p)
  BY <1>1 DEF Back
<1>5. Cardinality(OutRows(t.db) \cup Back(t)) <= Fallback
  <2>1. OutRows(t.db) \cup Back(t) \subseteq OutRows(s.db) \cup Back(s)
    BY <1>1, <1>2 DEF Back
  <2> QED
    BY <2>1, FewerCounted DEF Accounted
<1>6. OwnSources => \A r \in OutRows(t.db) \cup (Handed(t) \cap Rows(t.db)) : ~t.db.held[r.queue]
  BY <1>1, <1>2, <1>3 DEF Accounted
<1>7. \A q \in t.ctl.open : ~t.db.held[q]
  BY <1>3 DEF Accounted
<1>8. \A r \in Rows(t.db) : r.gen <= t.db.gen
  BY <1>3 DEF Accounted
<1>9. \A r \in Handed(t) \cup B : r \in Rows(t.db) \/ r.gen < t.db.gen
  BY <1>1, <1>3 DEF Accounted
<1>10. \A r \in B : /\ r \in RowsIn(t.db, {"PENDING", "CLAIMED"}) => r \in Told(t) \cup InHand(t)
                    /\ r \notin Unsent(t)
  BY <1>1, <1>2 DEF Accounted
<1> QED
  BY <1>4, <1>5, <1>6, <1>7, <1>8, <1>9, <1>10 DEF Accounted

\* The same publishers, calls and attributes.
LEMMA SameWired ==
  ASSUME NEW s, NEW t, t.pubs = s.pubs, t.events = s.events, t.ctl.pub = s.ctl.pub,
         t.ctl.pubDone = s.ctl.pubDone
  PROVE  /\ Wired(t) <=> Wired(s)
         /\ Busy(t) <=> Busy(s)
         /\ Referred(t) <=> Referred(s)
<1>1. \A p : Live(t, p) <=> Live(s, p)
  BY DEF Live
<1>2. Busy(t) <=> Busy(s)
  BY DEF Busy
<1>3. HasCall(t, AtWork) <=> HasCall(s, AtWork)
  BY DEF HasCall
<1>4. \A i \in DOMAIN s.events : InTurn(t, i) <=> InTurn(s, i)
  BY <1>2 DEF InTurn
<1> QED
  BY <1>1, <1>2, <1>3, <1>4 DEF Wired, Referred

LEMMA ReleaseTidy ==
  ASSUME NEW s, NEW B, Tidy(s, B),
         Handed(s) = {} \/ (~s.ctl.active /\ \A p \in PubSlots : ~Live(s, p))
  PROVE  Tidy([s EXCEPT !.db = ReleaseClaimed(s.db)], B)
<1> DEFINE d == ReleaseClaimed(s.db)
           t == [s EXCEPT !.db = d]
<1>1. /\ Kept(s.db, d) /\ d.session = s.db.session /\ d.resume = s.db.resume
      /\ Claims(d) = {} /\ GivenBack(s.db, d)
  BY Released, ReleaseGives DEF Tidy, Fit, Typed
<1> HIDE DEF d
<1>2. /\ Parts(t) /\ t.db = d /\ t.ctl = s.ctl /\ t.pubs = s.pubs
      /\ t.polls = s.polls /\ t.scans = s.scans /\ t.events = s.events
  BY DEF Tidy, Fit, Typed, Parts
<1> HIDE DEF t
<1>3. Fit(t)
  <2>1. Fit(s) /\ Attributes(t.ctl) /\ Sound(t.db)
    BY <1>1, <1>2 DEF Tidy, Fit, Typed, Kept
  <2>2. /\ t.ctl.active => t.db.session = "ACTIVE" /\ t.db.resume
        /\ t.db.session = "PAUSED_BY_USER" => Claims(t.db) = {} /\ Silent(s)
        /\ OwnSources => (CountersMatch(s.db) => CountersMatch(t.db))
    BY <1>1, <1>2 DEF Tidy, Fit, Kept
  <2> QED
    BY <1>2, <2>1, <2>2, SetFit
<1>4. Typed(s) /\ Typed(t) /\ B \in SUBSET Requests
  BY <1>3 DEF Tidy, Fit
<1>5. Accounted(t, B)
  BY <1>1, <1>2, <1>4, GivenBackAccounted DEF Tidy
<1>6. Referred(t) /\ (Wired(t) <=> Wired(s))
  BY <1>2, SameWired DEF Tidy
<1>7. Settled(t)
  BY <1>1, <1>2, <1>6 DEF Tidy, Settled
<1>8. Tidy(t, B)
  BY <1>3, <1>4, <1>5, <1>6, <1>7 DEF Tidy
<1> QED
  BY <1>8 DEF t, d

\* A run without a publisher ends with tables that have the same rows.
LEMMA EndedTidy ==
  ASSUME NEW s, NEW B, Tidy(s, B), ~Busy(s), NEW d, Fit([Deactivated(s) EXCEPT !.db = d]),
         Gentle(s.db, d)
  PROVE  Tidy([Deactivated(s) EXCEPT !.db = d], B)
<1> DEFINE c == [s.ctl EXCEPT !.active = FALSE, !.pubDone = TRUE]
           t == [s EXCEPT !.ctl = c, !.db = d]
<1>1. c.active = FALSE /\ c.pub = s.ctl.pub /\ c.open = s.ctl.open
  BY DEF Tidy, Fit, Typed, Attributes
<1>2. [Deactivated(s) EXCEPT !.db = d] = t
  BY DEF Deactivated
<1> HIDE DEF c
<1>3. t.ctl = c /\ t.db = d /\ t.pubs = s.pubs /\ t.events = s.events
  BY DEF Tidy, Fit, Typed, Parts
<1>4. Fit(t)
  BY <1>2
<1> HIDE DEF t
<1>5. Keeps(s, t)
  BY <1>1, <1>3 DEF Keeps
<1>6. Tidy(t, B)
  BY <1>4, <1>5, KeepsTidy
<1> QED
  BY <1>2, <1>6

\* The session is paused because only held queues have work.
LEMMA PausedTidy ==
  ASSUME NEW s, NEW B, Tidy(s, B), s.ctl.active, ~PubRunning(s)
  PROVE  Tidy([Deactivated(s) EXCEPT !.db = PauseByUser(s.db)], B)
<1> DEFINE d == ReleaseClaimed(s.db)
           e == PauseByUser(s.db)
           r == [s EXCEPT !.db = d]
<1>1. ~Busy(s) /\ Silent(s)
  BY BusyRunning, EndedSilent DEF Tidy
<1>2. Handed(s) = {}
  BY <1>1, NothingHanded DEF Tidy, Settled
<1>3. Tidy(r, B)
  BY <1>2, ReleaseTidy
<1>4. Sound(d)
  BY ReleaseKept DEF Tidy, Fit, Typed, Kept
<1>5. Fit([Deactivated(s) EXCEPT !.db = e])
  <2>1. Kept(s.db, e) /\ Claims(e) = {}
    BY PausedFields DEF Tidy, Fit, Typed
  <2> HIDE DEF e
  <2> QED
    BY <1>1, <2>1, EndedFit DEF Tidy, Kept
<1>6. e = [d EXCEPT !.session = "PAUSED_BY_USER", !.resume = TRUE]
  BY DEF PauseByUser
<1> HIDE DEF d, e
<1>7. Gentle(d, e)
  <2>1. e.tasks = d.tasks /\ e.gen = d.gen /\ e.held = d.held
    BY <1>4, <1>6 DEF Sound, TypedTables, HasColumns
  <2> QED
    BY <1>4, <2>1, SameGentle
<1>8. r.db = d /\ r.ctl = s.ctl /\ r.pubs = s.pubs /\ r.events = s.events
  BY DEF Tidy, Fit, Typed, Parts
<1>9. [Deactivated(r) EXCEPT !.db = e] = [Deactivated(s) EXCEPT !.db = e]
  BY DEF Deactivated, Tidy, Fit, Typed, Parts
<1> HIDE DEF r
<1>10. ~Busy(r)
  BY <1>1, <1>8 DEF Busy
<1>11. Fit([Deactivated(r) EXCEPT !.db = e]) /\ Gentle(r.db, e)
  BY <1>5, <1>7, <1>8, <1>9
<1>12. Tidy([Deactivated(r) EXCEPT !.db = e], B)
  BY <1>3, <1>10, <1>11, EndedTidy
<1> QED
  BY <1>9, <1>12 DEF e

\* The publisher is looked upon as finished when there is none.
LEMMA PubDoneTidy ==
  ASSUME NEW s, NEW B, Tidy(s, B), ~Busy(s)
  PROVE  /\ Tidy([s EXCEPT !.ctl.pubDone = TRUE], B)
         /\ SamePub(s, [s EXCEPT !.ctl.pubDone = TRUE])
<1> DEFINE c == [s.ctl EXCEPT !.pubDone = TRUE]
           t == [s EXCEPT !.ctl = c]
<1>1. Attributes(c) /\ c.active = s.ctl.active /\ c.pub = s.ctl.pub /\ c.open = s.ctl.open
  BY DEF Tidy, Fit, Typed, Attributes
<1>2. [s EXCEPT !.ctl.pubDone = TRUE] = t
  OBVIOUS
<1> HIDE DEF c
<1>3. Calm(s, t)
  BY <1>1, CtlCalm DEF Tidy, Fit
<1>4. t.ctl = c /\ t.db = s.db /\ t.pubs = s.pubs /\ t.events = s.events
  BY DEF Tidy, Fit, Typed, Parts
<1> HIDE DEF t
<1>5. Tidy(t, B)
  BY <1>1, <1>3, <1>4, SidesTidy
<1> QED
  BY <1>1, <1>2, <1>4, <1>5 DEF SamePub

LEMMA PollCheckedSame ==
  ASSUME NEW s, Typed(s)
  PROVE  SamePub(s, PollChecked(s)) /\ PollChecked(s).ctl.active = s.ctl.active
<1> DEFINE c == [s.ctl EXCEPT !.poll = NoSlot]
           t == [s EXCEPT !.ctl = c]
<1>1. PollChecked(s) = s \/ PollChecked(s) = t
  BY DEF PollChecked
<1>2. c.pub = s.ctl.pub /\ c.active = s.ctl.active
  BY DEF Typed, Attributes
<1> HIDE DEF c
<1>3. t.ctl = c /\ t.pubs = s.pubs
  BY DEF Typed, Parts
<1> HIDE DEF t
<1> QED
  BY <1>1, <1>2, <1>3 DEF SamePub

\* Nothing could be claimed.
LEMMA NothingToClaimTidy ==
  ASSUME NEW s, NEW B, Tidy(s, B), s.ctl.active, ~PubRunning(s)
  PROVE  Tidy(NothingToClaim(s), B)
<1> DEFINE a == [Deactivated(s) EXCEPT !.db = PauseByUser(s.db)]
           e == [s EXCEPT !.ctl.pubDone = TRUE]
           r == PollChecked(e)
           z == [Deactivated(r) EXCEPT !.db = CompleteSession(r.db)]
<1>1. NothingToClaim(s) \in {s, StopPolling(PollChecked(a)), StopPolling(r), z}
  BY DEF NothingToClaim
<1>2. Tidy(StopPolling(PollChecked(a)), B)
  <2>1. Tidy(a, B)
    BY PausedTidy
  <2> HIDE DEF a
  <2> QED
    BY <2>1, PollCheckedTidy, StopPollingTidy
<1>3. Tidy(e, B) /\ SamePub(s, e)
  BY PubDoneTidy, BusyRunning
<1> HIDE DEF a, e
<1>4. Tidy(r, B) /\ SamePub(e, r)
  BY <1>3, PollCheckedTidy, PollCheckedSame DEF Tidy, Fit
<1>5. ~Busy(r)
  BY <1>3, <1>4, SamePubRuns, BusyRunning
<1> HIDE DEF r
<1>6. Tidy(StopPolling(r), B)
  BY <1>4, StopPollingTidy
<1>7. Tidy(z, B)
  <2> DEFINE d == CompleteSession(r.db)
  <2>1. Fit([Deactivated(r) EXCEPT !.db = d])
    BY <1>4, CompletedFields, EndedFit DEF Tidy, Fit, Typed, Kept
  <2>2. Sound(r.db)
    BY <1>4 DEF Tidy, Fit, Typed
  <2>3. d.tasks = r.db.tasks /\ d.gen = r.db.gen /\ d.held = r.db.held
    BY <2>2 DEF Sound, TypedTables, HasColumns, CompleteSession
  <2>4. Gentle(r.db, d)
    BY <2>2, <2>3, SameGentle
  <2> HIDE DEF d
  <2>5. Tidy([Deactivated(r) EXCEPT !.db = d], B)
    BY <1>4, <1>5, <2>1, <2>4, EndedTidy
  <2> QED
    BY <2>5 DEF d
<1> HIDE DEF z
<1> QED
  BY <1>1, <1>2, <1>6, <1>7

-----------------------------------------------------------------------------
(* A chunk is claimed. *)

\* In a run without a publisher there is a slot for one: at most the slot of the
\* last publisher is still taken.
LEMMA SlotFree ==
  ASSUME Orderly, NEW s, Typed(s), Wired(s), ~PubRunning(s)
  PROVE  /\ Lowest(FreePubs(s)) \in FreePubs(s)
         /\ \A p \in PubSlots : ~Running(s.pubs[p])
<1>1. ~Busy(s) /\ ~HasCall(s, AtWork)
  BY BusyRunning, NothingHanded
<1>2. ASSUME NEW p \in PubSlots, Running(s.pubs[p]) PROVE FALSE
  <2>1. p = s.ctl.pub /\ p # NoSlot
    BY <1>2, ControllerAssumption DEF Wired, NoSlot
  <2> QED
    BY <1>2, <2>1 DEF PubRunning
<1> DEFINE InUse(p) == p = s.ctl.pub \/
             \E i \in DOMAIN s.events : s.events[i].kind = "pubThreadFinished" /\ s.events[i].of = p
<1>3. DOMAIN s.pubs = PubSlots
  BY DEF Typed
<1>4. ASSUME NEW p \in PubSlots, ~InUse(p) PROVE p \in FreePubs(s)
  <2>1. \A i \in DOMAIN s.events :
          s.events[i].kind \in {"queueReady", "pubFinished", "pubThreadFinished"} =>
            s.events[i].of # p
    BY <1>1, <1>4 DEF HasCall, AtWork
  <2> QED
    BY <1>2, <1>3, <1>4, <2>1 DEF FreePubs, Free
<1>5. ASSUME NEW p \in PubSlots, NEW r \in PubSlots, InUse(p), InUse(r) PROVE p = r
  <2>1. ASSUME NEW i \in DOMAIN s.events, s.events[i].kind = "pubThreadFinished"
        PROVE  /\ s.ctl.pub \in {s.events[i].of, NoSlot}
               /\ \A j \in DOMAIN s.events : j < i => s.events[j].kind # "pubThreadFinished"
    <3>1. InTurn(s, i)
      BY <2>1 DEF Wired
    <3> QED
      BY <1>1, <2>1, <3>1 DEF InTurn, PubKinds
  <2>2. ASSUME NEW i \in DOMAIN s.events, s.events[i].kind = "pubThreadFinished",
               NEW j \in DOMAIN s.events, s.events[j].kind = "pubThreadFinished"
        PROVE  i = j
    <3>1. i \in Nat /\ j \in Nat
      BY DEF Typed
    <3> QED
      BY <2>1, <2>2, <3>1
  <2>3. p # NoSlot /\ r # NoSlot
    BY ControllerAssumption DEF NoSlot
  <2> QED
    BY <1>5, <2>1, <2>2, <2>3
<1>6. PICK p \in PubSlots, r \in PubSlots : p # r
  BY DEF Orderly
<1>7. FreePubs(s) # {}
  <2> HIDE DEF InUse
  <2> QED
    BY <1>4, <1>5, <1>6
<1>8. FreePubs(s) \in SUBSET Nat
  BY <1>3, ControllerAssumption DEF FreePubs, Free
<1> QED
  BY <1>2, <1>7, <1>8, LowestIn

\* The limit on what is out, and the room below it.
LEMMA CapacityFacts ==
  ASSUME NEW s, Typed(s)
  PROVE  /\ Capacity(s) \in Int /\ Outstanding(s.db) \in Nat
         /\ Capacity(s) <= Fallback - Outstanding(s.db)
<1> DEFINE w == s.ctl.workers
           v == s.ctl.queued
           x == Outstanding(s.db)
           W == Watermark(s.ctl)
           M == Max({v, x})
<1>1. x \in Nat
  <2>1. RowsIn(s.db, {"CLAIMED", "SENT", "RUNNING"}) \subseteq Rows(s.db) /\ IsFiniteSet(Rows(s.db))
    BY DEF Typed, Sound, TypedTables, RowsIn
  <2> QED
    BY <2>1, FS_Subset, FS_CardinalityType DEF Outstanding
<1>2. w \in Int /\ v \in Int /\ Chunk \in Int /\ Fallback \in Int
  BY ControllerAssumption DEF Typed, Attributes, Unknown
<1>3. W \in Int /\ W <= Fallback
  <2> DEFINE m == w * Chunk
  <2>1. m \in Int
    BY <1>2
  <2>2. W \in {Fallback, Min({Fallback, Chunk}), Min({Fallback, Max({Chunk, m})})}
    BY DEF Watermark
  <2> HIDE DEF m, W, w
  <2>3. Max({Chunk, m}) \in Int
    BY <1>2, <2>1, OfTwo
  <2>4. \A i \in Int : Min({Fallback, i}) \in Int /\ Min({Fallback, i}) <= Fallback
    BY <1>2, OfTwo
  <2> QED
    BY <1>2, <2>2, <2>3, <2>4
<1>4. Capacity(s) = Min({Chunk, W - M})
  BY DEF Capacity
<1> HIDE DEF w, v, x, W
<1>5. M \in Int /\ M >= x
  <2>1. x \in Int /\ v \in Int
    BY <1>1, <1>2
  <2>2. M = IF v <= x THEN x ELSE v
    BY <2>1, OfTwo
  <2> QED
    BY <2>1, <2>2
<1> HIDE DEF M
<1>6. W - M \in Int /\ W - M <= Fallback - x
  BY <1>1, <1>2, <1>3, <1>5
<1>7. Capacity(s) \in Int /\ Capacity(s) <= W - M
  BY <1>2, <1>4, <1>6, OfTwo
<1>8. Capacity(s) <= Fallback - x
  BY <1>1, <1>2, <1>6, <1>7
<1> QED
  BY <1>1, <1>7, <1>8 DEF x

\* What a chunk changes in the tables.
Chosen(s) == ClaimBatch(s.db, s.ctl.open, Capacity(s))

LEMMA ChosenFacts ==
  ASSUME NEW s, Typed(s), Capacity(s) > 0
  PROVE  LET T == Chosen(s)
             d == Claim(s.db, T)
         IN  /\ T \subseteq RowsIn(s.db, {"PENDING"}) /\ Enumerates(Listed(s.db, T), T)
             /\ \A t \in T : ~s.db.held[t.queue]
             /\ Rows(d) = Rows(s.db) /\ d.gen = s.db.gen /\ d.held = s.db.held
             /\ \A t \in Rows(d) : d.tasks[t] = IF t \in T THEN "CLAIMED" ELSE s.db.tasks[t]
             /\ Cardinality(OutRows(d)) <= Fallback
<1> DEFINE T == Chosen(s)
           d == Claim(s.db, T)
           O == OutRows(s.db)
<1>1. T \subseteq RowsIn(s.db, {"PENDING"}) /\ \A t \in T : ~s.db.held[t.queue]
  BY DEF Chosen, ClaimBatch
<1>2. IsFiniteSet(T) /\ Cardinality(T) \in Nat /\ Cardinality(T) <= Capacity(s)
  BY CapacityFacts, ClaimSize DEF Typed, Chosen
<1> HIDE DEF T
<1>3. T \in SUBSET Rows(s.db)
  BY <1>1 DEF RowsIn
<1>4. Enumerates(Listed(s.db, T), T)
  BY <1>3, ListedFacts DEF Typed
<1>5. d.tasks = MovedTasks(s.db, T, "CLAIMED") /\ Rows(d) = Rows(s.db) /\ d.gen = s.db.gen
      /\ d.held = s.db.held
  BY MoveFields, MoveRows DEF Claim, Typed, Sound
<1> HIDE DEF d
<1>6. \A t \in Rows(d) : d.tasks[t] = IF t \in T THEN "CLAIMED" ELSE s.db.tasks[t]
  BY <1>5 DEF MovedTasks
<1>7. OutRows(d) = O \cup T /\ O \cap T = {}
  BY <1>1, <1>3, <1>5, <1>6 DEF OutRows, RowsIn
<1>8. IsFiniteSet(O) /\ Outstanding(s.db) = Cardinality(O)
  <2>1. O \subseteq Rows(s.db) /\ IsFiniteSet(Rows(s.db))
    BY DEF Typed, Sound, TypedTables, OutRows, RowsIn
  <2> QED
    BY <2>1, FS_Subset DEF Outstanding, OutRows
<1> HIDE DEF O
<1>9. Cardinality(OutRows(d)) = Outstanding(s.db) + Cardinality(T)
  BY <1>2, <1>7, <1>8, DisjointUnion
<1>10. Capacity(s) \in Int /\ Outstanding(s.db) \in Nat /\ Fallback \in Int
       /\ Capacity(s) <= Fallback - Outstanding(s.db)
  BY CapacityFacts, ControllerAssumption
<1>11. Cardinality(OutRows(d)) <= Fallback
  BY <1>2, <1>9, <1>10
<1> QED
  BY <1>1, <1>4, <1>5, <1>6, <1>11 DEF T, d

\* A publisher is started with what was claimed for it.
Started(s, t, p, T, d, todo) ==
  /\ p \in PubSlots /\ t.db = d /\ t.events = s.events
  /\ t.ctl.pub = p /\ ~t.ctl.pubDone /\ t.ctl.active /\ t.ctl.open = s.ctl.open
  /\ t.pubs[p].run = "connecting" /\ t.pubs[p].todo = todo
  /\ ~t.pubs[p].stop /\ ~t.pubs[p].quit
  /\ \A k \in PubSlots : k # p => t.pubs[k] = s.pubs[k]
  /\ \A k \in PubSlots : ~Running(s.pubs[k])
  /\ \A i \in DOMAIN s.events :
       s.events[i].kind \in {"queueReady", "pubFinished", "pubThreadFinished"} => s.events[i].of # p
  /\ Enumerates(todo, T)

\* What is handed out then.
LEMMA StartedHands ==
  ASSUME NEW s, Wired(s), ~Busy(s),
         NEW t, NEW p, NEW T, NEW d, NEW todo, Started(s, t, p, T, d, todo)
  PROVE  /\ \A k \in PubSlots : Live(t, k) <=> k = p
         /\ Busy(t)
         /\ Told(t) = {} /\ Handed(t) = T /\ InHand(t) = {} /\ Unsent(t) = T
<1>1. ~HasCall(s, AtWork) /\ \A k \in PubSlots : ~Live(s, k)
  BY NothingHanded
<1>2. \A k \in PubSlots : Live(t, k) <=> k = p
  BY <1>1 DEF Started, Live
<1>3. Busy(t)
  BY DEF Started, Busy, Running
<1>4. Told(t) = {}
  BY <1>1 DEF Started, Told, HasCall, AtWork
<1>5. InHand(t) = {}
  BY <1>1 DEF Started, InHand, Live
<1>6. Range(todo) = T /\ todo \in Seq(T)
  BY DEF Started, Enumerates, Range
<1>7. Todo(t) = T
  <2>1. {r \in PubSlots : Live(t, r)} = {p}
    BY <1>2 DEF Started
  <2>2. Todo(t) = Range(t.pubs[p].todo)
    BY <2>1 DEF Todo
  <2> QED
    BY <1>6, <2>2 DEF Started
<1>8. Unsent(t) = T
  <2>1. {r \in PubSlots : Live(t, r)} = {p}
    BY <1>2 DEF Started
  <2>2. Unsent(t) = Left(t.pubs[p])
    BY <2>1 DEF Unsent
  <2>3. Left(t.pubs[p]) = Range(todo)
    BY DEF Started, Left, Range
  <2> QED
    BY <1>6, <2>2, <2>3
<1> QED
  BY <1>2, <1>3, <1>4, <1>5, <1>7, <1>8 DEF Handed

\* What a queued call is about.
LEMMA CallOf ==
  ASSUME NEW s, Typed(s), NEW i \in DOMAIN s.events
  PROVE  /\ s.events[i].kind \in {"queueReady", "pubFinished", "pubThreadFinished"} =>
              s.events[i].of \in PubSlots
         /\ s.events[i].kind \in {"published", "failed"} => s.events[i].of \in Requests
<1>1. s.events[i] \in Calls
  BY DEF Typed
<1> QED
  BY <1>1 DEF Calls

LEMMA StartedWired ==
  ASSUME NEW s, Typed(s), Wired(s), ~Busy(s),
         NEW t, NEW p, NEW T, NEW d, NEW todo, Started(s, t, p, T, d, todo)
  PROVE  Wired(t) /\ Referred(t)
<1>1. ~HasCall(s, AtWork)
  BY NothingHanded
<1>2. Busy(t) /\ \A k \in PubSlots : Live(t, k) <=> k = p
  BY StartedHands
<1>3. ~HasCall(t, AtWork)
  BY <1>1 DEF Started, HasCall
<1>4. ASSUME NEW i \in DOMAIN t.events PROVE InTurn(t, i)
  <2>1. InTurn(s, i) /\ t.events = s.events
    BY <1>4 DEF Wired, Started
  <2>2. t.events[i].kind # "pubFinished"
    BY <1>3 DEF HasCall, AtWork
  <2>3. ASSUME t.events[i].kind = "pubThreadFinished"
        PROVE  t.pubs[t.events[i].of].run = "exited"
    <3>1. s.pubs[s.events[i].of].run = "exited" /\ s.events[i].of # p
      BY <1>4, <2>1, <2>3 DEF InTurn, Started
    <3>2. s.events[i].of \in PubSlots
      BY <1>4, <2>1, <2>3, CallOf
    <3>3. t.pubs[s.events[i].of] = s.pubs[s.events[i].of]
      BY <3>1, <3>2 DEF Started
    <3> QED
      BY <2>1, <3>1, <3>3
  <2> QED
    BY <1>2, <2>1, <2>2, <2>3 DEF InTurn
<1>5. Wired(t)
  BY <1>2, <1>3, <1>4 DEF Wired, Started
<1>6. IsInjective(t.pubs[p].todo)
  BY DEF Started, Enumerates, IsInjective, Injection
<1>7. \A i \in DOMAIN t.events : t.events[i].kind \in {"pubFinished", "pubThreadFinished"} =>
        ~Live(t, t.events[i].of)
  BY <1>2, CallOf DEF Started
<1>8. Referred(t)
  BY <1>2, <1>6, <1>7 DEF Referred, Started
<1> QED
  BY <1>5, <1>8

\* What the claim has done to the tables.
ClaimedFor(d, e, T) ==
  /\ T \subseteq RowsIn(d, {"PENDING"}) /\ \A t \in T : ~d.held[t.queue]
  /\ Rows(e) = Rows(d) /\ e.gen = d.gen /\ e.held = d.held
  /\ \A t \in Rows(e) : e.tasks[t] = IF t \in T THEN "CLAIMED" ELSE d.tasks[t]
  /\ Cardinality(OutRows(e)) <= Fallback

LEMMA ClaimedForRows ==
  ASSUME NEW d, NEW e, NEW T, ClaimedFor(d, e, T)
  PROVE  /\ OutRows(e) = OutRows(d) \cup T /\ Claims(e) = Claims(d) \cup T
         /\ T \cap RowsIn(e, {"PENDING"}) = {} /\ T \subseteq Rows(e)
         /\ RowsIn(e, {"PENDING", "CLAIMED"}) = RowsIn(d, {"PENDING", "CLAIMED"})
         /\ T \subseteq RowsIn(d, {"PENDING", "CLAIMED"})
BY DEF ClaimedFor, OutRows, Claims, RowsIn

LEMMA StartedAccounted ==
  ASSUME NEW s, NEW B, Accounted(s, B), Wired(s), ~Busy(s),
         NEW t, NEW p, NEW T, NEW d, NEW todo, Started(s, t, p, T, d, todo),
         ClaimedFor(s.db, d, T)
  PROVE  Accounted(t, B)
<1>1. /\ Handed(s) = {} /\ \A k \in PubSlots : ~Live(s, k)
  BY NothingHanded
<1>2. Told(t) = {} /\ Handed(t) = T /\ InHand(t) = {} /\ Unsent(t) = T
  BY StartedHands
<1>3. t.db = d /\ t.ctl.open = s.ctl.open
  BY DEF Started
<1>4. Told(s) = {} /\ InHand(s) = {}
  <2>1. InHand(s) = {}
    BY <1>1 DEF InHand, Live
  <2> QED
    BY <1>1, <2>1 DEF Handed
<1>5. /\ OutRows(d) = OutRows(s.db) \cup T
      /\ T \cap RowsIn(d, {"PENDING"}) = {} /\ T \subseteq Rows(d)
      /\ RowsIn(d, {"PENDING", "CLAIMED"}) = RowsIn(s.db, {"PENDING", "CLAIMED"})
      /\ T \subseteq RowsIn(s.db, {"PENDING", "CLAIMED"})
  BY ClaimedForRows
<1>6. /\ Rows(d) = Rows(s.db) /\ d.gen = s.db.gen /\ d.held = s.db.held
      /\ \A r \in T : ~s.db.held[r.queue]
      /\ Cardinality(OutRows(d)) <= Fallback
  BY DEF ClaimedFor
<1>7. \A r \in B : r \notin RowsIn(s.db, {"PENDING", "CLAIMED"})
  BY <1>4 DEF Accounted
<1>8. Back(t) = {}
  BY <1>2, <1>3, <1>5 DEF Back
<1>9. Cardinality(OutRows(t.db) \cup Back(t)) <= Fallback
  <2>1. OutRows(t.db) \cup Back(t) = OutRows(d)
    BY <1>3, <1>8
  <2> QED
    BY <1>6, <2>1
<1>10. OwnSources => \A r \in OutRows(t.db) \cup (Handed(t) \cap Rows(t.db)) : ~t.db.held[r.queue]
  <2>1. \A r \in OutRows(t.db) \cup (Handed(t) \cap Rows(t.db)) : r \in OutRows(s.db) \/ r \in T
    BY <1>2, <1>3, <1>5
  <2> QED
    BY <1>3, <1>6, <2>1 DEF Accounted
<1>11. \A q \in t.ctl.open : ~t.db.held[q]
  BY <1>3, <1>6 DEF Accounted
<1>12. \A r \in Rows(t.db) : r.gen <= t.db.gen
  BY <1>3, <1>6 DEF Accounted
<1>13. \A r \in Handed(t) \cup B : r \in Rows(t.db) \/ r.gen < t.db.gen
  BY <1>2, <1>3, <1>5, <1>6 DEF Accounted
<1>14. \A r \in B : /\ r \in RowsIn(t.db, {"PENDING", "CLAIMED"}) => r \in Told(t) \cup InHand(t)
                    /\ r \notin Unsent(t)
  BY <1>2, <1>3, <1>5, <1>7
<1> QED
  BY <1>8, <1>9, <1>10, <1>11, <1>12, <1>13, <1>14 DEF Accounted

LEMMA ClaimAndPublishTidy ==
  ASSUME Orderly, NEW s, NEW B, Tidy(s, B), s.ctl.active, ~PubRunning(s)
  PROVE  Tidy(ClaimAndPublish(s), B)
<1> DEFINE T == Chosen(s)
           d == Claim(s.db, T)
           todo == Listed(s.db, T)
           r == [s EXCEPT !.db = d]
           p == Lowest(FreePubs(r))
           th == [NoThread EXCEPT !.run = "connecting", !.todo = todo]
           c == [s.ctl EXCEPT !.pub = p, !.pubDone = FALSE]
           ps == [s.pubs EXCEPT ![p] = th]
           t == [s EXCEPT !.db = d, !.ctl = c, !.pubs = ps]
<1>1. CASE Capacity(s) <= 0
  BY <1>1 DEF ClaimAndPublish
<1>2. CASE T = {}
  <2>1. ClaimAndPublish(s) \in {s, NothingToClaim(s)}
    BY <1>2 DEF ClaimAndPublish, Chosen
  <2> QED
    BY <2>1, NothingToClaimTidy
<1>3. CASE Capacity(s) > 0 /\ T # {}
  <2>1. ClaimAndPublish(s) = StartPublisher(r, todo)
    BY <1>3, CapacityFacts DEF ClaimAndPublish, Chosen, Tidy, Fit
  <2>2. Fit(StartPublisher(r, todo))
    BY <2>1, EndedSilent, ClaimAndPublishFit DEF Tidy
  <2>3. /\ T \subseteq RowsIn(s.db, {"PENDING"}) /\ Enumerates(todo, T)
        /\ \A x \in T : ~s.db.held[x.queue]
        /\ Rows(d) = Rows(s.db) /\ d.gen = s.db.gen /\ d.held = s.db.held
        /\ \A x \in Rows(d) : d.tasks[x] = IF x \in T THEN "CLAIMED" ELSE s.db.tasks[x]
        /\ Cardinality(OutRows(d)) <= Fallback
    BY <1>3, ChosenFacts DEF Tidy, Fit
  <2>4. ClaimedFor(s.db, d, T)
    <3> HIDE DEF T, d
    <3> QED
      BY <2>3 DEF ClaimedFor
  <2>5. /\ Parts(s) /\ s.ctl.active /\ Wired(s) /\ ~Busy(s) /\ Attributes(s.ctl)
        /\ s.pubs \in [PubSlots -> PubThreads]
    BY BusyRunning DEF Tidy, Fit, Typed, Settled
  <2>6. r.pubs = s.pubs /\ r.events = s.events /\ r.ctl = s.ctl
    BY <2>5 DEF Parts
  <2>7. FreePubs(r) = FreePubs(s)
    <3> HIDE DEF r
    <3> QED
      BY <2>6 DEF FreePubs, Free
  <2>8. p \in FreePubs(s) /\ \A k \in PubSlots : ~Running(s.pubs[k])
    BY <2>5, <2>7, SlotFree DEF Tidy, Fit
  <2>9. StartPublisher(r, todo) = t
    <3> HIDE DEF p, th, todo, d, T
    <3>1. StartPublisher(r, todo) =
            [r EXCEPT !.ctl.pub = p, !.ctl.pubDone = FALSE, !.pubs[p] = th]
      BY DEF StartPublisher, th, p
    <3> QED
      BY <2>5, <3>1 DEF Parts
  <2> HIDE DEF r, d, T, todo
  <2>10. th.run = "connecting" /\ th.todo = todo /\ th.stop = FALSE /\ th.quit = FALSE
    BY DEF NoThread
  <2> HIDE DEF p, th
  <2>11. c.pub = p /\ c.pubDone = FALSE /\ c.active = s.ctl.active /\ c.open = s.ctl.open
    BY <2>5 DEF Attributes
  <2>12. p \in PubSlots /\ \A i \in DOMAIN s.events :
           s.events[i].kind \in {"queueReady", "pubFinished", "pubThreadFinished"} =>
             s.events[i].of # p
    BY <2>5, <2>8 DEF FreePubs, Free
  <2>13. ps[p] = th /\ \A k \in PubSlots : k # p => ps[k] = s.pubs[k]
    BY <2>5, <2>12
  <2> HIDE DEF c, ps
  <2>14. t.db = d /\ t.events = s.events /\ t.ctl = c /\ t.pubs = ps
    BY <2>5 DEF Parts
  <2> HIDE DEF t
  <2>15. Started(s, t, p, T, d, todo)
    BY <2>3, <2>5, <2>8, <2>10, <2>11, <2>12, <2>13, <2>14 DEF Started
  <2>16. Referred(t) /\ Wired(t)
    BY <2>5, <2>15, StartedWired DEF Tidy, Fit
  <2>17. Accounted(t, B)
    BY <2>4, <2>5, <2>15, StartedAccounted DEF Tidy
  <2>18. Settled(t)
    <3>1. Handed(t) = T /\ Handed(s) = {}
      BY <2>5, <2>15, StartedHands, NothingHanded
    <3>2. Claims(d) = Claims(s.db) \cup T
      BY <2>4, ClaimedForRows
    <3>3. t.ctl.active
      BY <2>5, <2>11, <2>14
    <3>4. "connectFailure" \notin Allowed => Claims(s.db) = {}
      BY <3>1 DEF Tidy, Settled
    <3> QED
      BY <2>14, <2>16, <3>1, <3>2, <3>3, <3>4 DEF Settled
  <2>19. Tidy(t, B)
    BY <2>2, <2>9, <2>16, <2>17, <2>18 DEF Tidy
  <2> QED
    BY <2>1, <2>9, <2>19
<1>4. Capacity(s) \in Int
  BY CapacityFacts DEF Tidy, Fit
<1> QED
  BY <1>1, <1>2, <1>3, <1>4

\* The dispatcher, from whatever it is called.
LEMMA DispatchTidy ==
  ASSUME Orderly, NEW s, NEW B, Tidy(s, B) PROVE Tidy(Dispatch(s), B)
<1> DEFINE a == PubChecked(s)
           b == Refresh(a)
           e == Expand(b)
<1>1. CASE ~s.ctl.active \/ s.ctl.preparing \/ PubRunning(s)
  BY <1>1 DEF Dispatch
<1>2. CASE s.ctl.active /\ ~s.ctl.preparing /\ ~PubRunning(s)
  <2>1. Dispatch(s) = ClaimAndPublish(e)
    BY <1>2 DEF Dispatch
  <2>2. Tidy(a, B) /\ Calm(s, a)
    BY PubCheckedTidy, PubCheckedCalm DEF Tidy
  <2>3. ~PubRunning(a)
    <3> DEFINE c == [s.ctl EXCEPT !.pub = NoSlot]
               t == [s EXCEPT !.ctl = c]
    <3>1. a = s \/ a = t
      BY DEF PubChecked
    <3>2. c.pub = NoSlot
      BY DEF Tidy, Fit, Typed, Attributes
    <3> HIDE DEF a, c
    <3>3. t.ctl = c
      BY DEF Tidy, Fit, Typed, Parts
    <3> HIDE DEF t
    <3>4. ~PubRunning(t)
      BY <3>2, <3>3 DEF PubRunning
    <3> QED
      BY <1>2, <3>1, <3>4
  <2> HIDE DEF a
  <2>4. Tidy(b, B) /\ SamePub(a, b) /\ Calm(a, b)
    BY <2>2, RefreshTidy, RefreshCalm DEF Tidy, Fit
  <2> HIDE DEF b
  <2>5. Tidy(e, B) /\ SamePub(b, e) /\ Calm(b, e)
    BY <2>4, ExpandTidy, ExpandCalm DEF Tidy, Fit
  <2> HIDE DEF e
  <2>6. ~PubRunning(e)
    BY <2>3, <2>4, <2>5, SamePubRuns
  <2>7. e.ctl.active
    BY <1>2, <2>2, <2>4, <2>5 DEF Calm
  <2> QED
    BY <2>1, <2>5, <2>6, <2>7, ClaimAndPublishTidy
<1> QED
  BY <1>1, <1>2

-----------------------------------------------------------------------------
(* The inventory and the start of a run. *)

\* Changes of other attributes of the controller.
LEMMA CtlTidy ==
  ASSUME NEW s, NEW B, Tidy(s, B), NEW c, Attributes(c), c.active = s.ctl.active,
         c.pub = s.ctl.pub, c.pubDone = s.ctl.pubDone, c.open \subseteq s.ctl.open
  PROVE  Tidy([s EXCEPT !.ctl = c], B)
<1> DEFINE t == [s EXCEPT !.ctl = c]
<1>1. Calm(s, t)
  BY CtlCalm DEF Tidy, Fit
<1>2. t.ctl = c /\ t.db = s.db /\ t.pubs = s.pubs /\ t.events = s.events
  BY DEF Tidy, Fit, Typed, Parts
<1> HIDE DEF t
<1>3. Tidy(t, B)
  BY <1>1, <1>2, SidesTidy
<1> QED
  BY <1>3 DEF t

\* What follows the inventory.
LEMMA PreparedTidy ==
  ASSUME Orderly, NEW s, NEW B, Tidy(s, B) PROVE Tidy(Prepared(s), B)
<1> DEFINE c == [s.ctl EXCEPT !.confirmed = TRUE]
           e == [s EXCEPT !.ctl = c]
           t == OpenNext(e, MaxInitial)
<1>1. /\ Attributes(c) /\ c.active = s.ctl.active /\ c.pub = s.ctl.pub
      /\ c.pubDone = s.ctl.pubDone /\ c.open = s.ctl.open
  BY DEF Tidy, Fit, Typed, Attributes
<1>2. Prepared(s) = Dispatch(t)
  BY DEF Prepared
<1> HIDE DEF c
<1>3. Tidy(e, B)
  BY <1>1, CtlTidy
<1> HIDE DEF e
<1>4. MaxInitial \in Int
  BY ControllerAssumption
<1>5. Tidy(t, B)
  BY <1>3, <1>4, OpenNextTidy
<1> HIDE DEF t
<1> QED
  BY <1>2, <1>5, DispatchTidy

\* The inventory goes on.
LEMMA InventoryTidy ==
  ASSUME Orderly, NEW s, NEW B, Tidy(s, B) PROVE Tidy(Inventory(s), B)
<1> DEFINE swept == Sweep(s)
           c == [swept.ctl EXCEPT !.preparing = FALSE]
           ready == [swept EXCEPT !.ctl = c]
           e == [ready.ctl EXCEPT !.asking = TRUE]
           asked == [ready EXCEPT !.ctl = e]
<1>1. Inventory(s) \in {s, swept, asked, Prepared(ready)}
  BY DEF Inventory
<1>2. Tidy(swept, B)
  BY SweepTidy
<1> HIDE DEF swept
<1>3. /\ Attributes(c) /\ c.active = swept.ctl.active /\ c.pub = swept.ctl.pub
      /\ c.pubDone = swept.ctl.pubDone /\ c.open = swept.ctl.open
  BY <1>2 DEF Tidy, Fit, Typed, Attributes
<1> HIDE DEF c
<1>4. Tidy(ready, B)
  BY <1>2, <1>3, CtlTidy
<1> HIDE DEF ready
<1>5. /\ Attributes(e) /\ e.active = ready.ctl.active /\ e.pub = ready.ctl.pub
      /\ e.pubDone = ready.ctl.pubDone /\ e.open = ready.ctl.open
  BY <1>4 DEF Tidy, Fit, Typed, Attributes
<1> HIDE DEF e
<1>6. Tidy(asked, B)
  BY <1>4, <1>5, CtlTidy
<1> HIDE DEF asked
<1> QED
  BY <1>1, <1>2, <1>4, <1>6, PreparedTidy

\* What that says.
LEMMA NoneLeftFacts ==
  ASSUME NEW s, NoneLeft(s)
  PROVE  /\ Wired(s) /\ ~Busy(s) /\ Handed(s) = {}
         /\ \A p \in PubSlots : ~Live(s, p)
<1>1. \A p \in PubSlots : ~Live(s, p)
  BY LiveRuns DEF NoneLeft
<1>2. ~Busy(s)
  BY DEF NoneLeft, Busy
<1>3. \A i \in DOMAIN s.events : s.events[i].kind \notin PubKinds
  BY DEF NoneLeft, HasCall
<1>4. ~HasCall(s, AtWork)
  BY <1>3 DEF HasCall, PubKinds
<1>5. \A i \in DOMAIN s.events : InTurn(s, i)
  BY <1>3 DEF InTurn, PubKinds, AtWork
<1>6. Wired(s)
  BY <1>1, <1>2, <1>4, <1>5 DEF Wired, NoneLeft
<1> QED
  BY <1>1, <1>2, <1>6, NothingHanded

\* A run begins when the last one has left nothing.
LEMMA RunBegunTidy ==
  ASSUME NEW s, NEW B, Tidy(s, B), ~s.ctl.active, NoneLeft(s)
  PROVE  Tidy(RunBegun(s), B)
<1> DEFINE t == RunBegun(s)
           d == SaveSettings(s.db)
<1>1. /\ Fit(t) /\ t.db = d /\ t.pubs = s.pubs /\ t.events = s.events
      /\ t.ctl.active /\ t.ctl.pubDone /\ t.ctl.open = {} /\ t.ctl.pub = s.ctl.pub
  BY RunBegunFit DEF Tidy
<1>2. d.tasks = s.db.tasks /\ d.gen = s.db.gen /\ d.held = s.db.held
  BY DEF Tidy, Fit, Typed, Sound, TypedTables, HasColumns, SaveSettings
<1> HIDE DEF t, d
<1>3. Handed(s) = {} /\ \A p \in PubSlots : ~Live(s, p)
  BY NoneLeftFacts
<1>4. NoneLeft(t)
  BY <1>1 DEF NoneLeft, HasCall
<1>5. /\ Told(t) = Told(s) /\ Handed(t) = {} /\ InHand(t) = InHand(s)
      /\ Unsent(t) = Unsent(s) /\ \A p : Live(t, p) <=> Live(s, p)
  BY <1>1, <1>3, SameHanded
<1>6. Rows(d) = Rows(s.db) /\ \A S : RowsIn(d, S) = RowsIn(s.db, S)
  BY <1>2 DEF Rows, RowsIn
<1>7. OutRows(d) = OutRows(s.db) /\ Claims(d) = Claims(s.db)
  BY <1>6 DEF OutRows, Claims
<1>8. Referred(t)
  BY <1>1, <1>5, <1>3 DEF Referred, Tidy
<1>9. Back(t) = {} /\ Back(s) = {}
  BY <1>3, <1>5 DEF Back
<1>10. Accounted(t, B)
  <2>1. /\ \A r \in Rows(t.db) : r.gen <= t.db.gen
        /\ \A r \in Handed(t) \cup B : r \in Rows(t.db) \/ r.gen < t.db.gen
    BY <1>1, <1>2, <1>5, <1>6 DEF Tidy, Accounted
  <2>2. OutRows(t.db) \cup Back(t) = OutRows(s.db) \cup Back(s)
    BY <1>1, <1>7, <1>9
  <2>3. Cardinality(OutRows(t.db) \cup Back(t)) <= Fallback
    BY <2>2 DEF Tidy, Accounted
  <2>4. OwnSources => \A r \in OutRows(t.db) \cup (Handed(t) \cap Rows(t.db)) : ~t.db.held[r.queue]
    BY <1>1, <1>2, <1>5, <1>7 DEF Tidy, Accounted
  <2>5. \A r \in B : /\ r \in RowsIn(t.db, {"PENDING", "CLAIMED"}) => r \in Told(t) \cup InHand(t)
                     /\ r \notin Unsent(t)
    BY <1>1, <1>5, <1>6 DEF Tidy, Accounted
  <2> QED
    BY <1>1, <1>9, <2>1, <2>3, <2>4, <2>5 DEF Accounted
<1>11. Settled(t)
  <2>1. Wired(t)
    BY <1>4, NoneLeftFacts
  <2> QED
    BY <1>1, <1>7, <2>1 DEF Tidy, Settled
<1>12. Tidy(t, B)
  BY <1>1, <1>8, <1>10, <1>11 DEF Tidy
<1> QED
  BY <1>12 DEF t

\* The start of a run.
LEMMA StartSessionTidy ==
  ASSUME Orderly, NEW s, NEW B, Tidy(s, B), ~s.ctl.active, NoneLeft(s)
  PROVE  Tidy(StartSession(s), B)
<1> DEFINE polled == RunPolled(s)
           e == [polled.ctl EXCEPT !.preparing = TRUE]
           t == [polled EXCEPT !.ctl = e]
<1>1. StartSession(s) \in {s, Inventory(t)}
  <2>1. StartSession(s) \in {s, Inventory([polled EXCEPT !.ctl.preparing = TRUE])}
    BY RunBegins DEF Tidy
  <2>2. [polled EXCEPT !.ctl.preparing = TRUE] = t
    OBVIOUS
  <2> HIDE DEF t, polled
  <2> QED
    BY <2>1, <2>2
<1>2. Tidy(RunBegun(s), B)
  BY RunBegunTidy
<1>3. Tidy(EnsurePoller(PollChecked(RunBegun(s))), B)
  BY <1>2, PollCheckedTidy, EnsurePollerTidy
<1>4. Tidy(polled, B)
  BY <1>2, <1>3 DEF RunPolled
<1> HIDE DEF polled
<1>5. /\ Attributes(e) /\ e.active = polled.ctl.active /\ e.pub = polled.ctl.pub
      /\ e.pubDone = polled.ctl.pubDone /\ e.open = polled.ctl.open
  BY <1>4 DEF Tidy, Fit, Typed, Attributes
<1> HIDE DEF e
<1>6. Tidy(t, B)
  BY <1>4, <1>5, CtlTidy
<1> HIDE DEF t
<1> QED
  BY <1>1, <1>6, InventoryTidy

\* The resumption of a run after a start of the program.
LEMMA ResumePersistedTidy ==
  ASSUME Orderly, NEW s, NEW B, Tidy(s, B), NoneLeft(s)
  PROVE  Tidy(ResumePersisted(s), B)
BY StartSessionTidy DEF ResumePersisted

-----------------------------------------------------------------------------
(* Calls that are taken. *)

\* The first call is taken, the publishers and what is known of them stay.
Popped(s, t) ==
  /\ s.events # << >> /\ t.events = Tail(s.events)
  /\ t.pubs = s.pubs /\ t.ctl.pub = s.ctl.pub /\ t.ctl.pubDone = s.ctl.pubDone

LEMMA PoppedFacts ==
  ASSUME NEW s, NEW t, Typed(s), Popped(s, t)
  PROVE  /\ \A p : Live(t, p) <=> Live(s, p)
         /\ Busy(t) <=> Busy(s)
         /\ InHand(t) = InHand(s) /\ Todo(t) = Todo(s) /\ Unsent(t) = Unsent(s)
         /\ Told(t) \subseteq Told(s) /\ Told(s) \subseteq Told(t) \cup {Head(s.events).of}
         /\ Head(s.events).kind \notin {"published", "failed"} => Told(t) = Told(s)
         /\ \A K : HasCall(t, K) => HasCall(s, K)
<1>1. \A p : Live(t, p) <=> Live(s, p)
  BY DEF Popped, Live
<1>2. Busy(t) <=> Busy(s)
  BY DEF Popped, Busy
<1>3. InHand(t) = InHand(s)
  BY DEF Popped, InHand
<1>4. Todo(t) = Todo(s) /\ Unsent(t) = Unsent(s)
  BY <1>1 DEF Popped, Todo, Unsent
<1>5. /\ 1 \in DOMAIN s.events /\ Head(s.events) = s.events[1]
      /\ \A i \in DOMAIN t.events : i + 1 \in DOMAIN s.events /\ t.events[i] = s.events[i + 1]
      /\ \A j \in DOMAIN s.events :
           j # 1 => j - 1 \in DOMAIN t.events /\ t.events[j - 1] = s.events[j]
  BY TailFacts DEF Popped, Typed
<1>6. Told(t) \subseteq Told(s)
  BY <1>5 DEF Told
<1>7. \A x \in Told(s) : x \in Told(t) \/
        (x = Head(s.events).of /\ Head(s.events).kind \in {"published", "failed"})
  BY <1>5 DEF Told
<1>8. \A K : HasCall(t, K) => HasCall(s, K)
  BY <1>5 DEF HasCall
<1> QED
  BY <1>1, <1>2, <1>3, <1>4, <1>6, <1>7, <1>8

LEMMA PoppedWired ==
  ASSUME NEW s, NEW t, Typed(s), Popped(s, t)
  PROVE  /\ Referred(s) => Referred(t)
         /\ Wired(s) => Wired(t)
<1>1. /\ \A i \in DOMAIN t.events :
           i \in Nat /\ i + 1 \in DOMAIN s.events /\ t.events[i] = s.events[i + 1]
      /\ 1 \in DOMAIN s.events
  BY TailFacts DEF Popped, Typed
<1>2. /\ \A p : Live(t, p) <=> Live(s, p)
      /\ Busy(t) <=> Busy(s)
      /\ \A K : HasCall(t, K) => HasCall(s, K)
  BY PoppedFacts
<1>3. Referred(s) => Referred(t)
  BY <1>1, <1>2 DEF Referred, Popped
<1>4. ASSUME Wired(s), NEW i \in DOMAIN t.events PROVE InTurn(t, i)
  <2>1. InTurn(s, i + 1) /\ i + 1 \in DOMAIN s.events /\ t.events[i] = s.events[i + 1]
    BY <1>1, <1>4 DEF Wired
  <2>2. \A j \in DOMAIN t.events :
          /\ j + 1 \in DOMAIN s.events /\ t.events[j] = s.events[j + 1]
          /\ j > i => j + 1 > i + 1
          /\ j < i => j + 1 < i + 1
    BY <1>1
  <2>3. t.events[i].kind = "pubFinished" =>
           /\ t.events[i].of = t.ctl.pub /\ t.pubs[t.events[i].of].run = "done"
           /\ \A j \in DOMAIN t.events : j > i => t.events[j].kind \notin PubKinds
    BY <2>1, <2>2 DEF InTurn, Popped
  <2>4. t.events[i].kind = "pubThreadFinished" =>
           /\ t.pubs[t.events[i].of].run = "exited"
           /\ t.ctl.pub \in {t.events[i].of, NoSlot} \/ Busy(t)
           /\ \A j \in DOMAIN t.events : j < i => t.events[j].kind \notin PubKinds
    BY <1>2, <2>1, <2>2 DEF InTurn, Popped
  <2> QED
    BY <2>3, <2>4 DEF InTurn
<1>5. Wired(s) => Wired(t)
  BY <1>2, <1>4 DEF Wired, Popped
<1> QED
  BY <1>3, <1>5

\* A call other than message_published and message_failed.
LEMMA PopTidy ==
  ASSUME NEW s, NEW B, Tidy(s, B), s.events # << >>,
         Head(s.events).kind \notin {"published", "failed"}
  PROVE  Tidy([s EXCEPT !.events = Tail(s.events)], B)
<1> DEFINE t == [s EXCEPT !.events = Tail(s.events)]
<1>1. /\ Parts(t) /\ t.events = Tail(s.events) /\ t.db = s.db /\ t.ctl = s.ctl /\ t.pubs = s.pubs
      /\ t.polls = s.polls /\ t.scans = s.scans
  BY DEF Tidy, Fit, Typed, Parts
<1> HIDE DEF t
<1>2. Tail(s.events) \in Seq(Calls)
  BY DEF Tidy, Fit, Typed
<1>3. Fit(t)
  BY <1>1, <1>2, EventsFit DEF Tidy
<1>4. Popped(s, t) /\ Typed(s)
  BY <1>1 DEF Popped, Tidy, Fit
<1>5. Referred(t) /\ (Wired(s) => Wired(t))
  BY <1>4, PoppedWired DEF Tidy
<1>6. /\ Told(t) = Told(s) /\ Handed(t) = Handed(s) /\ InHand(t) = InHand(s)
      /\ Unsent(t) = Unsent(s) /\ \A p : Live(t, p) <=> Live(s, p)
  BY <1>4, PoppedFacts DEF Handed
<1>7. Accounted(t, B)
  BY <1>1, <1>6 DEF Tidy, Accounted, Back
<1>8. Settled(t)
  BY <1>1, <1>5, <1>6 DEF Tidy, Settled
<1>9. Tidy(t, B)
  BY <1>3, <1>5, <1>7, <1>8 DEF Tidy
<1> QED
  BY <1>9 DEF t

\* What a report does to the tables: its request is no longer pending or claimed.
Noted(d, e, x) ==
  /\ Rows(e) = Rows(d) /\ e.gen = d.gen /\ e.held = d.held
  /\ \A r \in Rows(d) : r # x => e.tasks[r] = d.tasks[r]
  /\ x \in Rows(d) => /\ e.tasks[x] \notin {"PENDING", "CLAIMED"}
                      /\ e.tasks[x] \in {"SENT", "RUNNING"} => d.tasks[x] \in Unfinished

LEMMA NotedRows ==
  ASSUME NEW d, NEW e, NEW x, Noted(d, e, x)
  PROVE  /\ \A r \in OutRows(e) : r \in OutRows(d) \/ (r = x /\ x \in RowsIn(d, {"PENDING"}))
         /\ RowsIn(e, {"PENDING"}) \subseteq RowsIn(d, {"PENDING"})
         /\ RowsIn(e, {"PENDING", "CLAIMED"}) \subseteq RowsIn(d, {"PENDING", "CLAIMED"}) \ {x}
         /\ Claims(e) \subseteq Claims(d) \ {x}
<1>1. \A r \in Rows(e) :
        /\ r # x => e.tasks[r] = d.tasks[r]
        /\ r = x => e.tasks[r] \notin {"PENDING", "CLAIMED"}
        /\ r = x /\ e.tasks[x] \in {"SENT", "RUNNING"} => d.tasks[x] \in Unfinished
        /\ r \in Rows(d)
  BY DEF Noted
<1>2. \A r \in OutRows(e) : r \in OutRows(d) \/ (r = x /\ x \in RowsIn(d, {"PENDING"}))
  BY <1>1 DEF OutRows, RowsIn, Unfinished
<1>3. /\ RowsIn(e, {"PENDING"}) \subseteq RowsIn(d, {"PENDING"})
      /\ RowsIn(e, {"PENDING", "CLAIMED"}) \subseteq RowsIn(d, {"PENDING", "CLAIMED"}) \ {x}
      /\ Claims(e) \subseteq Claims(d) \ {x}
  BY <1>1 DEF RowsIn, Claims
<1> QED
  BY <1>2, <1>3

LEMMA ReportedTidy ==
  ASSUME NEW s, NEW B, Tidy(s, B), s.events # << >>,
         Head(s.events).kind \in {"published", "failed"},
         NEW t, Fit(t), Popped(s, t), t.ctl.active = s.ctl.active, t.ctl.open = s.ctl.open,
         Noted(s.db, t.db, Head(s.events).of)
  PROVE  Tidy(t, B)
<1> DEFINE x == Head(s.events).of
           d == s.db
           e == t.db
<1>1. Typed(s) /\ Typed(t) /\ B \in SUBSET Requests
  BY DEF Tidy, Fit
<1>2. /\ InHand(t) = InHand(s) /\ Todo(t) = Todo(s) /\ Unsent(t) = Unsent(s)
      /\ Told(t) \subseteq Told(s) /\ Told(s) \subseteq Told(t) \cup {x}
      /\ \A p : Live(t, p) <=> Live(s, p)
  BY <1>1, PoppedFacts
<1>3. Referred(t) /\ (Wired(s) => Wired(t))
  BY <1>1, PoppedWired DEF Tidy
<1>4. x \in Told(s)
  <2>1. 1 \in DOMAIN s.events /\ Head(s.events) = s.events[1]
    BY <1>1, TailFacts DEF Typed
  <2> QED
    BY <2>1 DEF Told
<1>5. /\ Rows(e) = Rows(d) /\ e.gen = d.gen /\ e.held = d.held
  BY DEF Noted
<1>6. /\ \A r \in OutRows(e) : r \in OutRows(d) \/ (r = x /\ x \in RowsIn(d, {"PENDING"}))
      /\ RowsIn(e, {"PENDING"}) \subseteq RowsIn(d, {"PENDING"})
      /\ RowsIn(e, {"PENDING", "CLAIMED"}) \subseteq RowsIn(d, {"PENDING", "CLAIMED"}) \ {x}
      /\ Claims(e) \subseteq Claims(d) \ {x}
  BY NotedRows
<1> HIDE DEF x, d, e
<1>7. Handed(t) \subseteq Handed(s) /\ Handed(s) \subseteq Handed(t) \cup {x} /\ x \in Handed(s)
  BY <1>2, <1>4 DEF Handed
<1>8. Back(t) \subseteq Back(s)
  BY <1>6, <1>7 DEF Back, d, e
<1>9. OutRows(e) \cup Back(t) \subseteq OutRows(d) \cup Back(s)
  BY <1>6, <1>7, <1>8 DEF Back, d
<1>10. Accounted(t, B)
  <2>1. /\ \A r \in Rows(t.db) : r.gen <= t.db.gen
        /\ \A r \in Handed(t) \cup B : r \in Rows(t.db) \/ r.gen < t.db.gen
        /\ \A q \in t.ctl.open : ~t.db.held[q]
    BY <1>5, <1>7 DEF Tidy, Accounted, d, e
  <2>2. Back(t) # {} => ~t.ctl.active /\ \A p \in PubSlots : ~Live(t, p)
    BY <1>2, <1>8 DEF Tidy, Accounted
  <2>3. Cardinality(OutRows(t.db) \cup Back(t)) <= Fallback
    BY <1>1, <1>9, FewerCounted DEF Tidy, Accounted, d, e
  <2>4. OwnSources => \A r \in OutRows(t.db) \cup (Handed(t) \cap Rows(t.db)) : ~t.db.held[r.queue]
    <3>1. \A r \in OutRows(e) \cup (Handed(t) \cap Rows(e)) :
            r \in OutRows(d) \cup (Handed(s) \cap Rows(d))
      BY <1>5, <1>6, <1>7 DEF RowsIn
    <3> QED
      BY <1>5, <3>1 DEF Tidy, Accounted, d, e
  <2>5. \A r \in B : /\ r \in RowsIn(t.db, {"PENDING", "CLAIMED"}) => r \in Told(t) \cup InHand(t)
                     /\ r \notin Unsent(t)
    BY <1>2, <1>6 DEF Tidy, Accounted, d, e
  <2> QED
    BY <2>1, <2>2, <2>3, <2>4, <2>5 DEF Accounted
<1>11. Settled(t)
  BY <1>3, <1>6, <1>7 DEF Tidy, Settled, d, e
<1> QED
  BY <1>3, <1>10, <1>11 DEF Tidy

-----------------------------------------------------------------------------
(* The slots of the publisher. *)

\* The rows after a change of status.
LEMMA MovedRows ==
  ASSUME NEW d, Sound(d), NEW T \in SUBSET Rows(d), NEW target
  PROVE  LET m == Move(d, T, target)
         IN  /\ Rows(m) = Rows(d) /\ m.gen = d.gen /\ m.held = d.held
             /\ \A r \in Rows(d) : m.tasks[r] = IF r \in T THEN target ELSE d.tasks[r]
<1> DEFINE m == Move(d, T, target)
<1>1. m.tasks = MovedTasks(d, T, target) /\ Rows(m) = Rows(d) /\ m.gen = d.gen /\ m.held = d.held
  BY MoveFields, MoveRows DEF Sound
<1> HIDE DEF m
<1>2. \A r \in Rows(d) : m.tasks[r] = IF r \in T THEN target ELSE d.tasks[r]
  BY <1>1 DEF MovedTasks
<1>3. /\ Rows(m) = Rows(d) /\ m.gen = d.gen /\ m.held = d.held
      /\ \A r \in Rows(d) : m.tasks[r] = IF r \in T THEN target ELSE d.tasks[r]
  BY <1>1, <1>2
<1> QED
  BY <1>3 DEF m

\* A request takes a status if it is in one of those allowed.
LEMMA TransitionRows ==
  ASSUME NEW d, Sound(d), NEW x, NEW target, NEW allowed
  PROVE  LET e == Transition(d, x, target, allowed)
         IN  /\ Rows(e) = Rows(d) /\ e.gen = d.gen /\ e.held = d.held
             /\ \A r \in Rows(d) : e.tasks[r] = IF r = x /\ d.tasks[x] \in allowed
                                                THEN target ELSE d.tasks[r]
<1>1. CASE x \in RowsIn(d, allowed)
  <2>1. {x} \in SUBSET Rows(d) /\ x \in Rows(d) /\ d.tasks[x] \in allowed
    BY <1>1 DEF RowsIn
  <2>2. Transition(d, x, target, allowed) = Move(d, {x}, target)
    BY <1>1 DEF Transition
  <2> QED
    BY <2>1, <2>2, MovedRows
<1>2. CASE x \notin RowsIn(d, allowed)
  BY <1>2 DEF Transition, RowsIn
<1> QED
  BY <1>1, <1>2

LEMMA SentNoted == ASSUME NEW d, Sound(d), NEW x PROVE Noted(d, MarkSent(d, x), x)
BY TransitionRows DEF MarkSent, Noted, Unfinished

LEMMA ErrorNoted == ASSUME NEW d, Sound(d), NEW x PROVE Noted(d, MarkError(d, x), x)
BY TransitionRows DEF MarkError, Noted, Unfinished

\* queue_ready
LEMMA OnQueueReadyTidy ==
  ASSUME NEW s, NEW B, Tidy(s, B) PROVE Tidy(OnQueueReady(s), B)
BY PollCheckedTidy, EnsurePollerTidy DEF OnQueueReady

\* message_published
LEMMA OnPublishedTidy ==
  ASSUME NEW s, NEW B, Tidy(s, B), s.events # << >>, Head(s.events).kind = "published"
  PROVE  Tidy(OnPublished(Rest(s), Head(s.events).of), B)
<1> DEFINE x == Head(s.events).of
           u == Rest(s)
           d == MarkSent(u.db, x)
           n == IF u.ctl.queued = Unknown THEN u.ctl.queued ELSE Min({u.ctl.queued + 1, Fallback})
           c == [u.ctl EXCEPT !.queued = n]
           t == OnPublished(u, x)
<1>1. t = [u EXCEPT !.db = d, !.ctl = c]
  BY DEF OnPublished
<1>2. /\ Fit(u) /\ u.events = Tail(s.events) /\ u.db = s.db /\ u.ctl = s.ctl /\ u.pubs = s.pubs
  BY RestFit DEF Tidy
<1>3. Noted(u.db, d, x)
  BY <1>2, SentNoted DEF Fit, Typed
<1> HIDE DEF u, n
<1>4. c.pub = u.ctl.pub /\ c.pubDone = u.ctl.pubDone /\ c.active = u.ctl.active
      /\ c.open = u.ctl.open
  BY <1>2 DEF Fit, Typed, Attributes
<1>5. Fit(t)
  <2>1. Typed(u)
    BY <1>2 DEF Fit
  <2>2. Calm(u, t)
    BY <2>1, OnPublishedCalm
  <2> QED
    BY <1>2, <2>2, CalmFit
<1> HIDE DEF c, d, t
<1>6. t.db = d /\ t.ctl = c /\ t.pubs = u.pubs /\ t.events = u.events
  BY <1>1, <1>2 DEF Fit, Typed, Parts
<1> HIDE DEF x
<1>7. Popped(s, t) /\ t.ctl.active = s.ctl.active /\ t.ctl.open = s.ctl.open
      /\ Noted(s.db, t.db, x)
  BY <1>2, <1>3, <1>4, <1>6 DEF Popped
<1>8. Tidy(t, B)
  BY <1>5, <1>7, ReportedTidy DEF x
<1> QED
  BY <1>8 DEF t, u, x

\* message_failed
LEMMA OnFailedTidy ==
  ASSUME NEW s, NEW B, Tidy(s, B), s.events # << >>, Head(s.events).kind = "failed"
  PROVE  Tidy(OnFailed(Rest(s), Head(s.events).of), B)
<1> DEFINE x == Head(s.events).of
           u == Rest(s)
           d == MarkError(u.db, x)
           t == OnFailed(u, x)
<1>1. t = [u EXCEPT !.db = d]
  BY DEF OnFailed
<1>2. /\ Fit(u) /\ u.events = Tail(s.events) /\ u.db = s.db /\ u.ctl = s.ctl /\ u.pubs = s.pubs
  BY RestFit DEF Tidy
<1>3. Noted(u.db, d, x)
  BY <1>2, ErrorNoted DEF Fit, Typed
<1> HIDE DEF u
<1>4. Fit(t)
  <2>1. Typed(u)
    BY <1>2 DEF Fit
  <2>2. Calm(u, t)
    BY <2>1, OnFailedCalm
  <2> QED
    BY <1>2, <2>2, CalmFit
<1> HIDE DEF d, t
<1>5. t.db = d /\ t.ctl = u.ctl /\ t.pubs = u.pubs /\ t.events = u.events
  BY <1>1, <1>2 DEF Fit, Typed, Parts
<1> HIDE DEF x
<1>6. Popped(s, t) /\ t.ctl.active = s.ctl.active /\ t.ctl.open = s.ctl.open
      /\ Noted(s.db, t.db, x)
  BY <1>2, <1>3, <1>5 DEF Popped
<1>7. Tidy(t, B)
  BY <1>4, <1>6, ReportedTidy DEF x
<1> QED
  BY <1>7 DEF t, u, x

\* A change of a publish thread that has come to its end.
DeadChange(s, t, p) ==
  /\ p \in PubSlots /\ ~Live(s, p) /\ ~Live(t, p) /\ t.events = s.events
  /\ \A k \in PubSlots : k # p => t.pubs[k] = s.pubs[k]

LEMMA DeadHands ==
  ASSUME NEW s, NEW t, NEW p, DeadChange(s, t, p)
  PROVE  /\ \A k \in PubSlots : Live(t, k) <=> Live(s, k)
         /\ Told(t) = Told(s) /\ Handed(t) = Handed(s) /\ InHand(t) = InHand(s)
         /\ Unsent(t) = Unsent(s)
<1>1. \A k \in PubSlots : Live(t, k) <=> Live(s, k)
  BY DEF DeadChange, Live
<1> DEFINE L == {r \in PubSlots : Live(s, r)}
<1>2. L = {r \in PubSlots : Live(t, r)} /\ \A r \in L : t.pubs[r] = s.pubs[r]
  BY <1>1 DEF DeadChange
<1>3. Told(t) = Told(s)
  BY DEF DeadChange, Told
<1>4. InHand(t) = InHand(s)
  <2>1. \A r \in PubSlots : t.pubs[r].run = "sent" \/ s.pubs[r].run = "sent" => r \in L
    BY <1>2 DEF Live
  <2> HIDE DEF L
  <2> QED
    BY <1>2, <2>1 DEF InHand
<1> HIDE DEF L
<1>5. Todo(t) = Todo(s) /\ Unsent(t) = Unsent(s)
  BY <1>2 DEF Todo, Unsent, L
<1> QED
  BY <1>1, <1>3, <1>4, <1>5 DEF Handed

LEMMA DeadAccounted ==
  ASSUME NEW s, NEW B, Referred(s), Accounted(s, B), Typed(s),
         NEW t, NEW p, DeadChange(s, t, p), t.db = s.db, t.ctl.pub = s.ctl.pub,
         t.ctl.active = s.ctl.active, t.ctl.open = s.ctl.open
  PROVE  Referred(t) /\ Accounted(t, B)
<1>1. /\ \A k \in PubSlots : Live(t, k) <=> Live(s, k)
      /\ Told(t) = Told(s) /\ Handed(t) = Handed(s) /\ InHand(t) = InHand(s)
      /\ Unsent(t) = Unsent(s)
  BY DeadHands
<1>2. \A k \in PubSlots : Live(t, k) => t.pubs[k] = s.pubs[k]
  BY DEF DeadChange
<1>3. \A i \in DOMAIN t.events : t.events[i].kind \in {"pubFinished", "pubThreadFinished"} =>
        ~Live(t, t.events[i].of)
  BY <1>1, CallOf DEF DeadChange, Referred
<1>4. Referred(t)
  BY <1>1, <1>2, <1>3 DEF Referred
<1>5. Accounted(t, B)
  BY <1>1 DEF Accounted, Back
<1> QED
  BY <1>4, <1>5

\* finished, of the publish worker
LEMMA OnPubFinishedTidy ==
  ASSUME NEW s, NEW B, Tidy(s, B), s.events # << >>, Head(s.events).kind = "pubFinished",
         NEW known
  PROVE  Tidy(OnPubFinished(Rest(s), Head(s.events).of, known), B)
<1> DEFINE p == Head(s.events).of
           u == Rest(s)
           c == [u.ctl EXCEPT !.pubDone = TRUE]
           e == [u EXCEPT !.ctl = c]
           th == [u.pubs[p] EXCEPT !.quit = TRUE]
           ps == [u.pubs EXCEPT ![p] = th]
           t == OnPubFinished(u, p, known)
<1>1. t = [u EXCEPT !.pubs = ps] \/ t = [e EXCEPT !.pubs[p].quit = TRUE]
  BY DEF OnPubFinished
<1>2. /\ Fit(u) /\ u.events = Tail(s.events) /\ u.db = s.db /\ u.ctl = s.ctl /\ u.pubs = s.pubs
  BY RestFit DEF Tidy
<1>3. Tidy(u, B)
  BY PopTidy DEF Rest
<1>4. /\ 1 \in DOMAIN s.events /\ Head(s.events) = s.events[1]
      /\ \A i \in DOMAIN u.events :
           i \in Nat /\ i + 1 \in DOMAIN s.events /\ u.events[i] = s.events[i + 1]
  BY <1>2, TailFacts DEF Tidy, Fit, Typed
<1>5. p \in PubSlots /\ ~Live(s, p)
  BY <1>4, CallOf DEF Tidy, Fit, Referred
<1> HIDE DEF u, p
<1>6. Fit(t)
  <2>1. Typed(u)
    BY <1>2 DEF Fit
  <2>2. Calm(u, t)
    BY <1>5, <2>1, OnPubFinishedCalm
  <2> QED
    BY <1>2, <2>2, CalmFit
<1>7. /\ c.pub = u.ctl.pub /\ c.active = u.ctl.active /\ c.open = u.ctl.open
  BY <1>2 DEF Fit, Typed, Attributes
<1>8. u.pubs[p] \in PubThreads /\ u.pubs \in [PubSlots -> PubThreads]
  BY <1>2, <1>5 DEF Fit, Typed
<1>9. th.run = u.pubs[p].run /\ th.quit = TRUE
  BY <1>8 DEF PubThreads, ThreadRecords
<1> HIDE DEF c
<1>10. e.ctl = c /\ e.pubs = u.pubs /\ e.db = u.db /\ e.events = u.events /\ Parts(e)
  BY <1>2 DEF Fit, Typed, Parts
<1>11. [e EXCEPT !.pubs[p].quit = TRUE] = [e EXCEPT !.pubs = ps]
  <2> HIDE DEF e
  <2> QED
    BY <1>10
<1> HIDE DEF e, th, ps
<1>12. /\ t.db = u.db /\ t.events = u.events /\ t.pubs = ps /\ t.ctl \in {u.ctl, c}
  <2> HIDE DEF t
  <2>1. Parts(u)
    BY <1>2 DEF Fit, Typed
  <2>2. CASE t = [u EXCEPT !.pubs = ps]
    BY <2>1, <2>2 DEF Parts
  <2>3. CASE t = [e EXCEPT !.pubs = ps]
    BY <1>10, <2>3 DEF Parts
  <2> QED
    BY <1>1, <1>11, <2>2, <2>3
<1> HIDE DEF t
<1>13. ps[p] = th /\ \A k \in PubSlots : k # p => ps[k] = u.pubs[k]
  BY <1>5, <1>8 DEF ps
<1>14. DeadChange(u, t, p)
  <2>1. ~Live(u, p) /\ ~Live(t, p)
    BY <1>2, <1>5, <1>9, <1>12, <1>13 DEF Live
  <2> QED
    BY <1>5, <1>12, <1>13, <2>1 DEF DeadChange
<1>15. Referred(t) /\ Accounted(t, B)
  BY <1>3, <1>7, <1>12, <1>14, DeadAccounted DEF Tidy, Fit
<1>16. /\ \A k \in PubSlots : Live(t, k) <=> Live(u, k)
       /\ Handed(t) = Handed(u)
  BY <1>14, DeadHands
<1>17. ASSUME t.ctl.active PROVE Wired(t)
  <2>1. Wired(s) /\ Wired(u)
    BY <1>2, <1>3, <1>7, <1>12, <1>17 DEF Tidy, Settled
  <2>2. InTurn(s, 1)
    BY <1>4, <2>1 DEF Wired
  <2>3. /\ p = u.ctl.pub /\ \A j \in DOMAIN s.events : j > 1 => s.events[j].kind \notin PubKinds
    BY <1>2, <1>4, <2>2 DEF InTurn, p
  <2>4. \A i \in DOMAIN t.events : t.events[i].kind \notin PubKinds
    <3> SUFFICES ASSUME NEW i \in DOMAIN u.events PROVE u.events[i].kind \notin PubKinds
      BY <1>12
    <3>1. i \in 1..Len(u.events)
      BY <1>2 DEF Fit, Typed
    <3>2. i + 1 > 1 /\ i + 1 \in DOMAIN s.events /\ u.events[i] = s.events[i + 1]
      BY <1>4, <3>1
    <3> QED
      BY <2>3, <3>2
  <2>5. ~Busy(t)
    BY <1>7, <1>9, <1>12, <1>13, <2>3 DEF Busy
  <2>6. \A k \in PubSlots : Running(t.pubs[k]) => k = t.ctl.pub
    BY <1>7, <1>9, <1>12, <1>13, <2>1, <2>3 DEF Wired, Running
  <2>7. \A k \in PubSlots : Live(t, k) => ~t.pubs[k].stop /\ ~t.pubs[k].quit
    BY <1>12, <1>13, <1>14, <1>16, <2>1 DEF Wired, DeadChange
  <2>8. ~HasCall(t, AtWork) /\ \A i \in DOMAIN t.events : InTurn(t, i)
    BY <2>4 DEF HasCall, InTurn, PubKinds, AtWork
  <2> QED
    BY <2>5, <2>6, <2>7, <2>8 DEF Wired
<1>18. Settled(t)
  BY <1>3, <1>7, <1>12, <1>16, <1>17 DEF Tidy, Settled
<1>19. Tidy(t, B)
  BY <1>6, <1>15, <1>18, <1>3 DEF Tidy
<1> QED
  BY <1>19 DEF t, u, p

\* No publisher runs, and none is referred to any more.
LEMMA DropPubTidy ==
  ASSUME NEW s, NEW B, Tidy(s, B), ~PubRunning(s)
  PROVE  Tidy([s EXCEPT !.ctl.pub = NoSlot], B)
<1> DEFINE c == [s.ctl EXCEPT !.pub = NoSlot]
           t == [s EXCEPT !.ctl = c]
<1>1. /\ Attributes(c) /\ c.active = s.ctl.active /\ c.pub = NoSlot
      /\ c.pubDone = s.ctl.pubDone /\ c.open = s.ctl.open
  BY DEF Tidy, Fit, Typed, Attributes
<1> HIDE DEF c
<1>2. Calm(s, t)
  BY <1>1, EndedSilent, CtlCalm DEF Tidy, Fit
<1>3. t.ctl = c /\ t.db = s.db /\ t.pubs = s.pubs /\ t.events = s.events
  BY DEF Tidy, Fit, Typed, Parts
<1> HIDE DEF t
<1>4. Tidy(t, B)
  BY <1>1, <1>2, <1>3, SidesTidy
<1> QED
  BY <1>4 DEF t, c

\* The thread of a publisher is gone.
LEMMA ThreadGoneTidy ==
  ASSUME NEW s, NEW B, Tidy(s, B), s.events # << >>,
         Head(s.events).kind = "pubThreadFinished"
  PROVE  Tidy([Rest(s) EXCEPT !.pubs[Head(s.events).of] = NoThread], B)
<1> DEFINE p == Head(s.events).of
           u == Rest(s)
           ps == [u.pubs EXCEPT ![p] = NoThread]
           t == [u EXCEPT !.pubs = ps]
<1>1. /\ Fit(u) /\ u.events = Tail(s.events) /\ u.db = s.db /\ u.ctl = s.ctl /\ u.pubs = s.pubs
  BY RestFit DEF Tidy
<1>2. Tidy(u, B)
  BY PopTidy DEF Rest
<1>3. /\ 1 \in DOMAIN s.events /\ Head(s.events) = s.events[1]
      /\ \A i \in DOMAIN u.events :
           i \in Nat /\ i + 1 \in DOMAIN s.events /\ u.events[i] = s.events[i + 1]
  BY <1>1, TailFacts DEF Tidy, Fit, Typed
<1>4. p \in PubSlots /\ ~Live(s, p)
  BY <1>3, CallOf DEF Tidy, Fit, Referred
<1>5. [Rest(s) EXCEPT !.pubs[Head(s.events).of] = NoThread] = t
  OBVIOUS
<1> HIDE DEF u, p
<1>6. u.pubs \in [PubSlots -> PubThreads]
  BY <1>1 DEF Fit, Typed
<1>7. /\ ps \in [PubSlots -> PubThreads] /\ ps[p] = NoThread
      /\ \A k \in PubSlots : k # p => ps[k] = u.pubs[k]
  BY <1>4, <1>6, NewThreads
<1> HIDE DEF ps
<1>8. Fit(t)
  <2>1. \A k \in PubSlots :
          WouldSend(ps[k]) => Sends(u, k)
    BY <1>7 DEF NoThread, Sends, WouldSend, PublishingRuns
  <2>2. Calm(u, t)
    BY <1>1, <1>7, <2>1, PubsCalm DEF Fit
  <2> QED
    BY <1>1, <2>2, CalmFit
<1>9. t.pubs = ps /\ t.events = u.events /\ t.db = u.db /\ t.ctl = u.ctl
  BY <1>1 DEF Fit, Typed, Parts
<1> HIDE DEF t
<1>10. DeadChange(u, t, p)
  <2>1. ~Live(u, p) /\ ~Live(t, p)
    BY <1>1, <1>4, <1>7, <1>9 DEF Live, NoThread
  <2> QED
    BY <1>4, <1>7, <1>9, <2>1 DEF DeadChange
<1>11. Referred(t) /\ Accounted(t, B)
  BY <1>2, <1>9, <1>10, DeadAccounted DEF Tidy, Fit
<1>12. /\ \A k \in PubSlots : Live(t, k) <=> Live(u, k)
       /\ Handed(t) = Handed(u)
  BY <1>10, DeadHands
<1>13. ASSUME t.ctl.active PROVE Wired(t)
  <2>1. Wired(s) /\ Wired(u)
    BY <1>1, <1>2, <1>9, <1>13 DEF Tidy, Settled
  <2>2. InTurn(s, 1) /\ \A i \in DOMAIN s.events : InTurn(s, i)
    BY <1>3, <2>1 DEF Wired
  <2>3. u.pubs[p].run = "exited"
    BY <1>1, <1>3, <2>2 DEF InTurn, p
  <2>4. \A i \in DOMAIN u.events : u.events[i].kind # "pubThreadFinished"
    <3> SUFFICES ASSUME NEW i \in DOMAIN u.events, u.events[i].kind = "pubThreadFinished"
                 PROVE  FALSE
      OBVIOUS
    <3>1. InTurn(s, i + 1) /\ s.events[i + 1].kind = "pubThreadFinished" /\ i + 1 \in DOMAIN s.events
      BY <1>3, <2>2
    <3>2. i + 1 \in Nat /\ 1 < i + 1
      <4>1. i \in DOMAIN Tail(s.events)
        BY <1>1
      <4>2. i \in 1..Len(Tail(s.events))
        BY <4>1 DEF Tidy, Fit, Typed
      <4> QED
        BY <4>2
    <3>3. s.events[1].kind \notin PubKinds
      BY <1>3, <3>1, <3>2 DEF InTurn
    <3> QED
      BY <1>3, <3>3 DEF PubKinds
  <2>5. Busy(t) <=> Busy(u)
    BY <1>7, <1>9, <2>3 DEF Busy, Running, NoThread
  <2>6. \A k \in PubSlots : Running(t.pubs[k]) => k = t.ctl.pub
    BY <1>7, <1>9, <2>1 DEF Wired, Running, NoThread
  <2>7. \A k \in PubSlots : Live(t, k) => ~t.pubs[k].stop /\ ~t.pubs[k].quit
    BY <1>10, <1>12, <2>1 DEF Wired, DeadChange
  <2>8. HasCall(t, AtWork) <=> HasCall(u, AtWork)
    BY <1>9 DEF HasCall
  <2>9. ASSUME NEW i \in DOMAIN t.events PROVE InTurn(t, i)
    <3>1. InTurn(u, i) /\ t.events = u.events
      BY <1>9, <2>1, <2>9 DEF Wired
    <3>2. t.events[i].kind = "pubFinished" => t.pubs[t.events[i].of].run = "done"
      <4> SUFFICES ASSUME t.events[i].kind = "pubFinished"
                   PROVE  t.pubs[t.events[i].of].run = "done"
        OBVIOUS
      <4>1. t.events[i].of \in PubSlots /\ u.pubs[t.events[i].of].run = "done"
        BY <1>1, <2>9, <3>1, CallOf DEF InTurn, Fit
      <4> QED
        BY <1>7, <1>9, <2>3, <4>1
    <3> QED
      BY <1>9, <2>4, <2>9, <3>1, <3>2 DEF InTurn
  <2> QED
    BY <1>9, <2>1, <2>5, <2>6, <2>7, <2>8, <2>9 DEF Wired
<1>14. Settled(t)
  BY <1>2, <1>9, <1>12, <1>13 DEF Tidy, Settled
<1>15. Tidy(t, B)
  BY <1>2, <1>8, <1>11, <1>14 DEF Tidy
<1> QED
  BY <1>5, <1>15

\* finished, of the publish thread
LEMMA OnPubThreadFinishedTidy ==
  ASSUME Orderly, NEW s, NEW B, Tidy(s, B), s.events # << >>,
         Head(s.events).kind = "pubThreadFinished"
  PROVE  Tidy(OnPubThreadFinished(Rest(s), Head(s.events).of), B)
<1> DEFINE p == Head(s.events).of
           u == Rest(s)
           gone == [u EXCEPT !.pubs[p] = NoThread]
           d == ReleaseClaimed(u.db)
           mine == [gone EXCEPT !.ctl.pub = NoSlot, !.db = d]
           r == [gone EXCEPT !.db = d]
           m == [r EXCEPT !.ctl.pub = NoSlot]
           c == [m.ctl EXCEPT !.retry = TRUE]
<1>1. /\ Fit(u) /\ u.events = Tail(s.events) /\ u.db = s.db /\ u.ctl = s.ctl /\ u.pubs = s.pubs
  BY RestFit DEF Tidy
<1>2. Tidy(gone, B)
  BY ThreadGoneTidy
<1>3. p \in PubSlots /\ ~Live(s, p)
  <2>1. 1 \in DOMAIN s.events /\ Head(s.events) = s.events[1]
    BY TailFacts DEF Tidy, Fit, Typed
  <2> QED
    BY <2>1, CallOf DEF Tidy, Fit, Referred
<1>4. OnPubThreadFinished(u, p) \in {gone, [mine EXCEPT !.ctl.retry = TRUE], Dispatch(mine)}
      /\ (u.ctl.pub # p => OnPubThreadFinished(u, p) = gone)
  BY DEF OnPubThreadFinished
<1> HIDE DEF u, p
<1>5. u.pubs \in [PubSlots -> PubThreads] /\ Parts(u)
  BY <1>1 DEF Fit, Typed
<1>6. /\ gone.db = u.db /\ gone.ctl = u.ctl /\ gone.events = u.events
      /\ gone.pubs[p] = NoThread /\ Parts(gone)
  BY <1>3, <1>5 DEF Parts
<1>7. ASSUME u.ctl.pub = p PROVE Tidy(OnPubThreadFinished(u, p), B)
  <2> HIDE DEF gone
  <2>1. ~PubRunning(gone)
    BY <1>6, <1>7 DEF PubRunning, NoThread, Running
  <2>2. Handed(gone) = {} \/ (~gone.ctl.active /\ \A k \in PubSlots : ~Live(gone, k))
    <3>1. CASE gone.ctl.active
      BY <1>2, <2>1, <3>1, BusyRunning, NothingHanded DEF Tidy, Settled
    <3>2. CASE ~gone.ctl.active
      <4>1. ~Live(gone, p)
        BY <1>6 DEF Live, NoThread
      <4> QED
        BY <1>2, <1>6, <1>7, <3>2, <4>1 DEF Tidy, Referred
    <3> QED
      BY <3>1, <3>2
  <2>3. d = ReleaseClaimed(gone.db)
    BY <1>6
  <2>4. Tidy(r, B)
    BY <1>2, <2>2, <2>3, ReleaseTidy
  <2> HIDE DEF d
  <2>5. r.pubs = gone.pubs /\ r.ctl = gone.ctl /\ mine = m
    BY <1>6 DEF Parts
  <2>6. ~PubRunning(r)
    BY <2>1, <2>5 DEF PubRunning
  <2> HIDE DEF r, mine
  <2>7. Tidy(m, B)
    BY <2>4, <2>6, DropPubTidy
  <2>8. Tidy(mine, B)
    BY <2>5, <2>7
  <2> HIDE DEF m
  <2>9. /\ Attributes(c) /\ c.active = m.ctl.active /\ c.pub = m.ctl.pub
        /\ c.pubDone = m.ctl.pubDone /\ c.open = m.ctl.open
    BY <2>7 DEF Tidy, Fit, Typed, Attributes
  <2>10. [mine EXCEPT !.ctl.retry = TRUE] = [m EXCEPT !.ctl = c]
    BY <2>5
  <2> HIDE DEF c
  <2>11. Tidy([m EXCEPT !.ctl = c], B)
    BY <2>7, <2>9, CtlTidy
  <2>12. Tidy(Dispatch(mine), B)
    BY <2>8, DispatchTidy
  <2> QED
    BY <1>2, <1>4, <2>10, <2>11, <2>12
<1>8. Tidy(OnPubThreadFinished(u, p), B)
  BY <1>2, <1>4, <1>7
<1> QED
  BY <1>8 DEF u, p

-----------------------------------------------------------------------------
(* The slots of the poller and of the scans, and the timers. *)

\* Rows that settle, or of which the broker is known to have the request.
LEMMA MovedGentle ==
  ASSUME NEW d, Sound(d), NEW T \in SUBSET Rows(d), NEW target,
         target \in Terminal \/ (target = "RUNNING" /\ T \subseteq RowsIn(d, {"SENT"}))
  PROVE  Gentle(d, Move(d, T, target))
<1> DEFINE m == Move(d, T, target)
<1>1. /\ Rows(m) = Rows(d) /\ m.gen = d.gen /\ m.held = d.held
      /\ \A r \in Rows(d) : m.tasks[r] = IF r \in T THEN target ELSE d.tasks[r]
  BY MovedRows
<1>2. d.gen \in Nat
  BY DEF Sound, TypedTables, HasColumns
<1> HIDE DEF m
<1>3. Gentle(d, m)
  BY <1>1, <1>2 DEF Gentle, RowsIn
<1> QED
  BY <1>3 DEF m

\* One row that settles.
LEMMA TransitionGentle ==
  ASSUME NEW d, Sound(d), NEW x, NEW target \in Terminal, NEW allowed
  PROVE  Gentle(d, Transition(d, x, target, allowed))
<1>1. CASE x \in RowsIn(d, allowed)
  <2>1. {x} \in SUBSET Rows(d)
    BY <1>1 DEF RowsIn
  <2>2. Gentle(d, Move(d, {x}, target))
    BY <2>1, MovedGentle
  <2> QED
    BY <1>1, <2>2 DEF Transition
<1>2. CASE x \notin RowsIn(d, allowed)
  <2>1. Gentle(d, d)
    BY SameGentle
  <2> QED
    BY <1>2, <2>1 DEF Transition
<1> QED
  BY <1>1, <1>2

\* result_received
LEMMA OnResultTidy ==
  ASSUME Orderly, NEW s, NEW B, Tidy(s, B), NEW x, NEW verdict \in Verdicts
  PROVE  Tidy(OnResult(s, x, verdict), B)
<1> DEFINE d == ApplyResult(s.db, x, verdict)
           r == [s EXCEPT !.db = d]
<1>1. verdict \in Terminal /\ verdict \in Statuses \ {"CLAIMED"}
  BY SessionAssumption, Targets DEF Terminal
<1>2. Typed(s) /\ Sound(s.db)
  BY DEF Tidy, Fit, Typed
<1>3. Gentle(s.db, d)
  BY <1>1, <1>2, TransitionGentle DEF ApplyResult
<1>4. Calm(s, r)
  BY <1>1, <1>2, TransitionCalm DEF ApplyResult
<1>5. OnResult(s, x, verdict) \in {s, Dispatch(r)}
  BY DEF OnResult
<1> HIDE DEF d
<1>6. Tidy(r, B)
  BY <1>3, <1>4, TablesTidy
<1> HIDE DEF r
<1> QED
  BY <1>5, <1>6, DispatchTidy

\* poll_cycle
LEMMA OnPollCycleTidy ==
  ASSUME Orderly, NEW s, NEW B, Tidy(s, B), NEW T PROVE Tidy(OnPollCycle(s, T), B)
<1> DEFINE d == MarkInflightRunning(s.db)
           a == [s EXCEPT !.db = d]
           r == Dispatch(a)
           e == MarkTimeouts(r.db, T)
           aged == [r EXCEPT !.db = e]
<1>1. OnPollCycle(s, T) \in {aged, StopPolling(aged)}
  BY DEF OnPollCycle
<1>2. RowsIn(s.db, {"SENT"}) \in SUBSET Rows(s.db) /\ Typed(s) /\ Sound(s.db)
  BY DEF RowsIn, Tidy, Fit, Typed
<1>3. Calm(s, a)
  BY <1>2, MovedCalm, Targets DEF MarkInflightRunning
<1>4. Gentle(s.db, d)
  BY <1>2, MovedGentle DEF MarkInflightRunning
<1> HIDE DEF d
<1>5. Tidy(a, B)
  BY <1>3, <1>4, TablesTidy
<1> HIDE DEF a
<1>6. Tidy(r, B)
  BY <1>5, DispatchTidy
<1> HIDE DEF r
<1>7. T \cap RowsIn(r.db, {"SENT", "RUNNING"}) \in SUBSET Rows(r.db) /\ Typed(r) /\ Sound(r.db)
  BY <1>6 DEF RowsIn, Tidy, Fit, Typed
<1>8. Calm(r, aged)
  BY <1>7, MovedCalm, Targets DEF MarkTimeouts
<1>9. "TIMEOUT" \in Terminal
  BY DEF Terminal
<1>10. Gentle(r.db, e)
  BY <1>7, <1>9, MovedGentle DEF MarkTimeouts
<1> HIDE DEF e
<1>11. Tidy(aged, B)
  BY <1>6, <1>8, <1>10, TablesTidy
<1> HIDE DEF aged
<1> QED
  BY <1>1, <1>11, StopPollingTidy

\* finished, of the poll worker: it ends the run only when no publisher is left.
LEMMA OnPollFinishedTidy ==
  ASSUME NEW s, NEW B, Tidy(s, B), NEW w \in PollSlots PROVE Tidy(OnPollFinished(s, w), B)
<1> DEFINE c == [s.ctl EXCEPT !.poll = NoSlot]
           e == [c EXCEPT !.active = FALSE]
           ps == [s.polls EXCEPT ![w] = Quit(@)]
           r == [s EXCEPT !.ctl = c, !.polls = ps]
           d == IF AllTerminal(r.db) THEN CompleteSession(r.db) ELSE r.db
           t == OnPollFinished(s, w)
<1>1. t = r \/ (s.ctl.pubDone /\ t = [r EXCEPT !.ctl.active = FALSE, !.db = d])
  <2>1. [s EXCEPT !.ctl.poll = NoSlot, !.polls[w] = Quit(@)] = r
    OBVIOUS
  <2>2. r.ctl.pubDone = s.ctl.pubDone
    <3>1. c.pubDone = s.ctl.pubDone
      BY DEF Tidy, Fit, Typed, Attributes
    <3> HIDE DEF c, ps
    <3> QED
      BY <3>1 DEF Tidy, Fit, Typed, Parts
  <2> HIDE DEF r
  <2> QED
    BY <2>1, <2>2 DEF OnPollFinished
<1>2. Fit(t)
  BY OnPollFinishedFit DEF Tidy
<1> HIDE DEF t, ps
<1>3. /\ c.pub = s.ctl.pub /\ c.pubDone = s.ctl.pubDone /\ c.open = s.ctl.open
      /\ c.active = s.ctl.active /\ e.pub = s.ctl.pub /\ e.pubDone = s.ctl.pubDone
      /\ e.open = s.ctl.open /\ e.active = FALSE
  BY DEF Tidy, Fit, Typed, Attributes
<1> HIDE DEF c
<1>4. /\ r.ctl = c /\ r.db = s.db /\ r.pubs = s.pubs /\ r.events = s.events /\ Parts(r)
  BY DEF Tidy, Fit, Typed, Parts
<1> HIDE DEF r
<1>5. d.tasks = s.db.tasks /\ d.gen = s.db.gen /\ d.held = s.db.held
  BY <1>4 DEF Tidy, Fit, Typed, Sound, TypedTables, HasColumns, CompleteSession
<1>6. [r EXCEPT !.ctl.active = FALSE, !.db = d] = [r EXCEPT !.ctl = e, !.db = d]
  BY <1>4
<1> HIDE DEF d, e
<1>7. /\ t.db = s.db \/ t.db = d
      /\ t.ctl = c \/ (t.ctl = e /\ s.ctl.pubDone)
      /\ t.pubs = s.pubs /\ t.events = s.events
  <2>1. CASE t = r
    BY <1>4, <2>1
  <2>2. CASE s.ctl.pubDone /\ t = [r EXCEPT !.ctl = e, !.db = d]
    BY <1>4, <2>2 DEF Parts
  <2> QED
    BY <1>1, <1>6, <2>1, <2>2
<1>8. Sound(s.db)
  BY DEF Tidy, Fit, Typed
<1>9. Gentle(s.db, t.db)
  <2>1. Gentle(s.db, s.db) /\ Gentle(s.db, d)
    BY <1>5, <1>8, SameGentle
  <2> QED
    BY <1>7, <2>1
<1>10. s.ctl.active /\ s.ctl.pubDone => ~Busy(s)
  BY DEF Tidy, Settled, Wired
<1>11. Keeps(s, t)
  BY <1>3, <1>7, <1>9, <1>10 DEF Keeps
<1>12. Tidy(t, B)
  BY <1>2, <1>11, KeepsTidy
<1> QED
  BY <1>12 DEF t

\* Changes of the scan threads.
LEMMA ScansTidy ==
  ASSUME NEW s, NEW B, Tidy(s, B), NEW ss \in [ScanSlots -> ScanThreads]
  PROVE  Tidy([s EXCEPT !.scans = ss], B)
<1> DEFINE t == [s EXCEPT !.scans = ss]
<1>1. Calm(s, t)
  BY ScansCalm DEF Tidy, Fit
<1>2. t.ctl = s.ctl /\ t.db = s.db /\ t.pubs = s.pubs /\ t.events = s.events
  BY DEF Tidy, Fit, Typed, Parts
<1> HIDE DEF t
<1>3. Tidy(t, B)
  BY <1>1, <1>2, SidesTidy
<1> QED
  BY <1>3 DEF t

\* The quit of a scan thread.
LEMMA QuittingTidy ==
  ASSUME NEW s, NEW B, Tidy(s, B), NEW k PROVE Tidy(Quitting(s, k), B)
<1> DEFINE ss == [s.scans EXCEPT ![k].quit = TRUE]
<1>1. Quitting(s, k) = [s EXCEPT !.scans = ss]
  BY DEF Quitting
<1>2. ss \in [ScanSlots -> ScanThreads]
  <2>1. s.scans \in [ScanSlots -> ScanThreads]
    BY DEF Tidy, Fit, Typed
  <2> QED
    BY <2>1, ScansTold
<1> HIDE DEF ss
<1> QED
  BY <1>1, <1>2, ScansTidy

\* A scan state set, and the queue no longer open.
LEMMA LeavesTidy ==
  ASSUME NEW s, NEW B, Tidy(s, B), NEW q, NEW state \in ScanStates \ {"NONE"}
  PROVE  Tidy([s EXCEPT !.db = SetScan(s.db, q, state), !.ctl.open = @ \ {q}], B)
<1> DEFINE r == [s EXCEPT !.db = SetScan(s.db, q, state)]
           c == [s.ctl EXCEPT !.open = @ \ {q}]
           t == [r EXCEPT !.ctl = c]
<1>1. [s EXCEPT !.db = SetScan(s.db, q, state), !.ctl.open = @ \ {q}] = t
  OBVIOUS
<1>2. Tidy(r, B)
  BY SetScanTidy
<1>3. r.ctl = s.ctl
  BY DEF Tidy, Fit, Typed, Parts
<1> HIDE DEF r
<1>4. /\ Attributes(c) /\ c.active = s.ctl.active /\ c.pub = s.ctl.pub
      /\ c.pubDone = s.ctl.pubDone /\ c.open \subseteq s.ctl.open
  BY DEF Tidy, Fit, Typed, Attributes
<1> HIDE DEF c
<1>5. Tidy(t, B)
  BY <1>2, <1>3, <1>4, CtlTidy
<1> QED
  BY <1>1, <1>5

\* completed, of a scan
LEMMA OnScanCompletedTidy ==
  ASSUME Orderly, NEW s, NEW B, Tidy(s, B), NEW k PROVE Tidy(OnScanCompleted(s, k), B)
<1> DEFINE q == s.scans[k].queue
           state == IF s.scans[k].found > 0 \/ s.db.total[q] > 0 THEN "SCANNED" ELSE "EMPTY"
           e == [s EXCEPT !.db = SetScan(s.db, q, state)]
           r == Quitting(e, k)
<1>1. OnScanCompleted(s, k) \in {r, Dispatch(r)}
  BY DEF OnScanCompleted
<1>2. state \in ScanStates \ {"NONE"}
  BY DEF ScanStates
<1> HIDE DEF q, state
<1>3. Tidy(e, B)
  BY <1>2, SetScanTidy
<1> HIDE DEF e
<1>4. Tidy(r, B)
  BY <1>3, QuittingTidy
<1> HIDE DEF r
<1> QED
  BY <1>1, <1>4, DispatchTidy

\* stopped, of a scan
LEMMA OnScanStoppedTidy ==
  ASSUME NEW s, NEW B, Tidy(s, B), NEW k PROVE Tidy(OnScanStopped(s, k), B)
<1> DEFINE q == s.scans[k].queue
           e == [s EXCEPT !.db = SetScan(s.db, q, "WAITING"), !.ctl.open = @ \ {q}]
<1>1. OnScanStopped(s, k) = Quitting(e, k)
  BY DEF OnScanStopped
<1> HIDE DEF q
<1>2. Tidy(e, B)
  BY LeavesTidy DEF ScanStates
<1> HIDE DEF e
<1> QED
  BY <1>1, <1>2, QuittingTidy

\* failed, of a scan
LEMMA OnScanFailedTidy ==
  ASSUME NEW s, NEW B, Tidy(s, B), NEW k PROVE Tidy(OnScanFailed(s, k), B)
<1> DEFINE q == s.scans[k].queue
           e == [s EXCEPT !.db = SetScan(s.db, q, "ERROR"), !.ctl.open = @ \ {q}]
           r == Quitting(e, k)
<1>1. OnScanFailed(s, k) \in {r, OpenNext(r, OpenSlots(r))}
  BY DEF OnScanFailed
<1> HIDE DEF q
<1>2. Tidy(e, B)
  BY LeavesTidy DEF ScanStates
<1> HIDE DEF e
<1>3. Tidy(r, B)
  BY <1>2, QuittingTidy
<1> HIDE DEF r
<1>4. OpenSlots(r) \in Int
  BY <1>3, OpenSlotsInt DEF Tidy, Fit
<1>5. Tidy(OpenNext(r, OpenSlots(r)), B)
  BY <1>3, <1>4, OpenNextTidy
<1> QED
  BY <1>1, <1>3, <1>5

\* finished, of a scan thread
LEMMA OnScanThreadFinishedTidy ==
  ASSUME Orderly, NEW s, NEW B, Tidy(s, B), NEW k PROVE Tidy(OnScanThreadFinished(s, k), B)
<1> DEFINE q == s.scans[k].queue
           ss == [s.scans EXCEPT ![k] = NoScan]
           gone == [s EXCEPT !.scans = ss]
           c == [gone.ctl EXCEPT !.scanning[q] = NoSlot]
           t == [gone EXCEPT !.ctl = c]
<1>1. OnScanThreadFinished(s, k) \in {gone, Inventory(t)}
  BY DEF OnScanThreadFinished
<1>2. ss \in [ScanSlots -> ScanThreads]
  BY NewThreads DEF Tidy, Fit, Typed
<1> HIDE DEF ss, q
<1>3. Tidy(gone, B)
  BY <1>2, ScansTidy
<1> HIDE DEF gone
<1>4. /\ Attributes(c) /\ c.active = gone.ctl.active /\ c.pub = gone.ctl.pub
      /\ c.pubDone = gone.ctl.pubDone /\ c.open = gone.ctl.open
  BY <1>3 DEF Tidy, Fit, Typed, Attributes
<1> HIDE DEF c
<1>5. Tidy(t, B)
  BY <1>3, <1>4, CtlTidy
<1> HIDE DEF t
<1> QED
  BY <1>1, <1>3, <1>5, InventoryTidy

\* The refresh timer.
LEMMA ReconcileScansTidy ==
  ASSUME Orderly, NEW s, NEW B, Tidy(s, B) PROVE Tidy(ReconcileScans(s), B)
<1> DEFINE stale == {q \in Scanning(s) : ~Running(s.scans[s.ctl.scanning[q]])}
           scanning == [q \in Queues |-> IF q \in stale THEN NoSlot ELSE s.ctl.scanning[q]]
           c == [s.ctl EXCEPT !.scanning = scanning]
           r == [s EXCEPT !.ctl = c]
<1>1. ReconcileScans(s) \in {s, Inventory(r)}
  BY DEF ReconcileScans
<1> HIDE DEF scanning
<1>2. /\ Attributes(c) /\ c.active = s.ctl.active /\ c.pub = s.ctl.pub
      /\ c.pubDone = s.ctl.pubDone /\ c.open = s.ctl.open
  BY DEF Tidy, Fit, Typed, Attributes
<1> HIDE DEF c
<1>3. Tidy(r, B)
  BY <1>2, CtlTidy
<1> HIDE DEF r
<1> QED
  BY <1>1, <1>3, InventoryTidy

\* The broker's metrics.
LEMMA OnMetricsTidy ==
  ASSUME Orderly, NEW s, NEW B, Tidy(s, B),
         NEW workers \in Nat \cup {Unknown}, NEW queued \in Nat \cup {Unknown}
  PROVE  Tidy(OnMetrics(s, workers, queued), B)
<1> DEFINE c == [s.ctl EXCEPT !.workers = workers, !.queued = queued]
           t == [s EXCEPT !.ctl = c]
<1>1. OnMetrics(s, workers, queued) = Dispatch(t)
  BY DEF OnMetrics
<1>2. /\ Attributes(c) /\ c.active = s.ctl.active /\ c.pub = s.ctl.pub
      /\ c.pubDone = s.ctl.pubDone /\ c.open = s.ctl.open
  BY DEF Tidy, Fit, Typed, Attributes
<1> HIDE DEF c
<1>3. Tidy(t, B)
  BY <1>2, CtlTidy
<1> HIDE DEF t
<1> QED
  BY <1>1, <1>3, DispatchTidy

\* The retry timer.
LEMMA OnRetryTidy ==
  ASSUME Orderly, NEW s, NEW B, Tidy(s, B) PROVE Tidy(OnRetry(s), B)
<1> DEFINE c == [s.ctl EXCEPT !.retry = FALSE]
           t == [s EXCEPT !.ctl = c]
<1>1. OnRetry(s) = Dispatch(t)
  BY DEF OnRetry
<1>2. /\ Attributes(c) /\ c.active = s.ctl.active /\ c.pub = s.ctl.pub
      /\ c.pubDone = s.ctl.pubDone /\ c.open = s.ctl.open
  BY DEF Tidy, Fit, Typed, Attributes
<1> HIDE DEF c
<1>3. Tidy(t, B)
  BY <1>2, CtlTidy
<1> HIDE DEF t
<1> QED
  BY <1>1, <1>3, DispatchTidy

-----------------------------------------------------------------------------
(* The turns of the GUI thread. *)

\* Between two of its turns the situation is tidy.
LEMMA TidyAtRest ==
  ASSUME PublishFits, halt.at \in {"none", "scans"} PROVE Tidy(Situation, AtBroker)
BY DEF PublishFits, SessionFits, Tidy, AtBroker

\* A turn that leaves it tidy.
LEMMA TidyTurn ==
  ASSUME PublishFits, NEW s, Tidy(s, AtBroker), GuiTurn(s) PROVE PublishFits'
<1>1. Situation' = s
  BY Became DEF Tidy, Fit, Typed, GuiTurn
<1>2. SessionFits'
  BY GuiTurnFits DEF PublishFits, Tidy
<1>3. mq' = mq /\ halt' = NotHalted
  BY DEF GuiTurn
<1>4. AtBroker' = AtBroker
  BY <1>3 DEF AtBroker
<1>5. Referred(Situation)' /\ Accounted(Situation, AtBroker)' /\ Settled(Situation)'
  BY <1>1, <1>4 DEF Tidy
<1>6. Once => halt'.at # "down" /\ halt'.then # "exit" /\ \A t \in BagToSet(mq) : mq[t] = 1
  BY <1>3 DEF PublishFits, NotHalted
<1>7. (Once => halt.at # "down" /\ halt.then # "exit" /\ \A t \in BagToSet(mq) : mq[t] = 1)'
  BY <1>3, <1>6
<1>8. halt'.at # "down" /\ halt' \in Halts
  BY <1>3 DEF NotHalted, Halts
<1> QED
  BY <1>2, <1>5, <1>7, <1>8 DEF PublishFits

\* The event loop runs only outside of a stop.
LEMMA TurnAtRest ==
  ASSUME PublishFits, NEW s, GuiTurn(s) PROVE Tidy(Situation, AtBroker)
BY TidyAtRest DEF GuiTurn, NotHalted

\* The calls handled.
LEMMA HandleCallPublishes == ASSUME Orderly, PublishFits, HandleCall PROVE PublishFits'
<1> DEFINE s == Situation
           B == AtBroker
<1>1. s.events = events /\ Taken = Rest(s)
  BY SituationParts DEF Taken, Rest
<1> HIDE DEF s, B
<1>2. ASSUME NEW kind, Called(kind)
      PROVE  /\ s.events # << >> /\ Head(s.events).kind = kind /\ Head(s.events).of = Arg
             /\ events # << >> /\ Head(events) \in Calls
  BY <1>1, <1>2, TakenFit DEF Called, Arg, PublishFits
<1>3. ASSUME NEW kind, Called(kind), kind \notin {"published", "failed"}, Tidy(s, B)
      PROVE  Tidy(Taken, B)
  BY <1>1, <1>2, <1>3, PopTidy DEF Rest
<1>4. ASSUME NEW t, GuiTurn(t) PROVE Tidy(s, B) /\ (Tidy(t, B) => PublishFits')
  BY <1>4, TurnAtRest, TidyTurn DEF s, B
<1>5. CASE HandleQueueReady
  BY <1>3, <1>4, <1>5, OnQueueReadyTidy DEF HandleQueueReady
<1>6. CASE HandlePublished
  <2>1. Called("published") /\ GuiTurn(OnPublished(Taken, Arg))
    BY <1>6 DEF HandlePublished
  <2>2. Tidy(OnPublished(Rest(s), Head(s.events).of), B)
    BY <1>2, <1>4, <2>1, OnPublishedTidy
  <2> QED
    BY <1>1, <1>2, <1>4, <2>1, <2>2
<1>7. CASE HandleFailed
  <2>1. Called("failed") /\ GuiTurn(OnFailed(Taken, Arg))
    BY <1>7 DEF HandleFailed
  <2>2. Tidy(OnFailed(Rest(s), Head(s.events).of), B)
    BY <1>2, <1>4, <2>1, OnFailedTidy
  <2> QED
    BY <1>1, <1>2, <1>4, <2>1, <2>2
<1>8. CASE HandleResult
  <2>1. Called("result") /\ GuiTurn(OnResult(Taken, Arg.task, Arg.verdict))
    BY <1>8 DEF HandleResult
  <2>2. Arg.verdict \in Verdicts /\ Tidy(Taken, B)
    BY <1>2, <1>3, <1>4, <2>1, ArgTyped
  <2>3. Tidy(OnResult(Taken, Arg.task, Arg.verdict), B)
    BY <2>2, OnResultTidy
  <2> QED
    BY <1>4, <2>1, <2>3
<1>9. ASSUME NEW T, HandlePollCycle(T) PROVE PublishFits'
  BY <1>3, <1>4, <1>9, OnPollCycleTidy DEF HandlePollCycle
<1>10. CASE HandlePubFinished
  <2>1. PICK known \in BOOLEAN : GuiTurn(OnPubFinished(Taken, Arg, known))
    BY <1>10 DEF HandlePubFinished
  <2>2. Called("pubFinished")
    BY <1>10 DEF HandlePubFinished
  <2>3. Tidy(OnPubFinished(Rest(s), Head(s.events).of, known), B)
    BY <1>2, <1>4, <2>1, <2>2, OnPubFinishedTidy
  <2> QED
    BY <1>1, <1>2, <1>4, <2>1, <2>2, <2>3
<1>11. CASE HandlePubThreadFinished
  <2>1. Called("pubThreadFinished") /\ GuiTurn(OnPubThreadFinished(Taken, Arg))
    BY <1>11 DEF HandlePubThreadFinished
  <2>2. Tidy(OnPubThreadFinished(Rest(s), Head(s.events).of), B)
    BY <1>2, <1>4, <2>1, OnPubThreadFinishedTidy
  <2> QED
    BY <1>1, <1>2, <1>4, <2>1, <2>2
<1>12. CASE HandlePollFinished
  <2>1. Called("pollFinished") /\ GuiTurn(OnPollFinished(Taken, Arg))
    BY <1>12 DEF HandlePollFinished
  <2>2. Arg \in PollSlots /\ Tidy(Taken, B)
    BY <1>2, <1>3, <1>4, <2>1, ArgTyped
  <2>3. Tidy(OnPollFinished(Taken, Arg), B)
    BY <2>2, OnPollFinishedTidy
  <2> QED
    BY <1>4, <2>1, <2>3
<1>13. CASE HandleScanCompleted
  BY <1>3, <1>4, <1>13, OnScanCompletedTidy DEF HandleScanCompleted
<1>14. CASE HandleScanStopped
  BY <1>3, <1>4, <1>14, OnScanStoppedTidy DEF HandleScanStopped
<1>15. CASE HandleScanFailed
  BY <1>3, <1>4, <1>15, OnScanFailedTidy DEF HandleScanFailed
<1>16. CASE HandleScanThreadFinished
  BY <1>3, <1>4, <1>16, OnScanThreadFinishedTidy DEF HandleScanThreadFinished
<1> QED
  BY <1>5, <1>6, <1>7, <1>8, <1>9, <1>10, <1>11, <1>12, <1>13, <1>14, <1>15, <1>16
     DEF HandleCall

\* Metrics and timers.
LEMMA TimersPublish ==
  ASSUME Orderly, PublishFits, (\E r \in Readings : Metrics(r)) \/ RetryTimer \/ RefreshTimer
  PROVE  PublishFits'
<1>0. ASSUME NEW t, GuiTurn(t) PROVE Tidy(Situation, AtBroker)
  BY <1>0, TurnAtRest
<1>1. ASSUME NEW r \in Readings, Metrics(r) PROVE PublishFits'
  <2>1. r[1] \in Nat \cup {Unknown} /\ r[2] \in Nat \cup {Unknown}
    BY SessionAssumption
  <2>2. GuiTurn(OnMetrics(Situation, r[1], r[2])) /\ Tidy(Situation, AtBroker)
    BY <1>0, <1>1 DEF Metrics
  <2>3. Tidy(OnMetrics(Situation, r[1], r[2]), AtBroker)
    BY <2>1, <2>2, OnMetricsTidy
  <2> QED
    BY <2>2, <2>3, TidyTurn
<1>2. CASE RetryTimer
  BY <1>0, <1>2, OnRetryTidy, TidyTurn DEF RetryTimer
<1>3. CASE RefreshTimer
  BY <1>0, <1>3, ReconcileScansTidy, TidyTurn DEF RefreshTimer
<1> QED
  BY <1>1, <1>2, <1>3

\* The answer to the dialog.
LEMMA ConfirmPublishes == ASSUME Orderly, PublishFits, Confirm PROVE PublishFits'
<1> DEFINE c == [Situation.ctl EXCEPT !.asking = FALSE]
           s == [Situation EXCEPT !.ctl = c]
<1>1. GuiTurn(Prepared(s))
  BY DEF Confirm
<1>2. Tidy(Situation, AtBroker)
  BY <1>1, TurnAtRest
<1>3. /\ Attributes(c) /\ c.active = Situation.ctl.active /\ c.pub = Situation.ctl.pub
      /\ c.pubDone = Situation.ctl.pubDone /\ c.open = Situation.ctl.open
  BY <1>2 DEF Tidy, Fit, Typed, Attributes
<1> HIDE DEF c
<1>4. Tidy(s, AtBroker)
  BY <1>2, <1>3, CtlTidy
<1> HIDE DEF s
<1> QED
  BY <1>1, <1>4, PreparedTidy, TidyTurn

-----------------------------------------------------------------------------
(* The publish threads. *)

\* Publisher p goes on as th and posts one call.
Stepped(s, t, p, th, call) ==
  /\ t.pubs[p] = th /\ \A k \in PubSlots : k # p => t.pubs[k] = s.pubs[k]
  /\ t.events = s.events \o <<call>> /\ t.db = s.db /\ t.ctl = s.ctl

\* The calls after that, n the place of the new one.
LEMMA SteppedCalls ==
  ASSUME NEW s, NEW t, NEW p, NEW th, NEW call \in Calls,
         Typed(s), Stepped(s, t, p, th, call)
  PROVE  /\ \A i \in DOMAIN s.events :
              i \in DOMAIN t.events /\ t.events[i] = s.events[i] /\ i < Len(s.events) + 1
         /\ \A i \in DOMAIN t.events : i \in DOMAIN s.events \/ i = Len(s.events) + 1
         /\ \A i \in DOMAIN t.events : ~(i > Len(s.events) + 1)
         /\ Len(s.events) + 1 \in DOMAIN t.events /\ t.events[Len(s.events) + 1] = call
         /\ Told(t) = Told(s) \cup {x \in {call.of} : call.kind \in {"published", "failed"}}
<1> DEFINE n == Len(s.events) + 1
<1>1. s.events \in Seq(Calls) /\ t.events = s.events \o <<call>>
  BY DEF Typed, Stepped
<1>2. /\ n \in DOMAIN t.events /\ t.events[n] = call
      /\ \A i \in DOMAIN s.events : i \in DOMAIN t.events /\ t.events[i] = s.events[i] /\ i < n
      /\ \A i \in DOMAIN t.events : i \in DOMAIN s.events \/ i = n
      /\ \A i \in DOMAIN t.events : i <= n /\ i \in Nat
  BY <1>1, AppendFacts
<1>3. n \in Nat
  BY <1>1
<1>4. \A i \in DOMAIN t.events : ~(i > n)
  BY <1>2, <1>3
<1> HIDE DEF n
<1>5. Told(t) = Told(s) \cup {x \in {call.of} : call.kind \in {"published", "failed"}}
  BY <1>2 DEF Told
<1> QED
  BY <1>2, <1>4, <1>5 DEF n

\* A publisher in its loop goes on, or comes to its end and says so.
LEMMA SteppedWired ==
  ASSUME NEW s, NEW t, NEW p \in PubSlots, NEW th, NEW call \in Calls,
         Typed(s), Wired(s), Live(s, p), Stepped(s, t, p, th, call),
         th.run \in {"connecting", "sending", "trying", "sent", "done"},
         th.stop = s.pubs[p].stop, th.quit = s.pubs[p].quit,
         call.kind \in AtWork,
         call.kind = "pubFinished" <=> th.run = "done",
         call.kind = "pubFinished" => call.of = p
  PROVE  Wired(t)
<1> DEFINE n == Len(s.events) + 1
<1>1. /\ \A i \in DOMAIN s.events :
           i \in DOMAIN t.events /\ t.events[i] = s.events[i] /\ i < n
      /\ \A i \in DOMAIN t.events : i \in DOMAIN s.events \/ i = n
      /\ \A i \in DOMAIN t.events : ~(i > n)
      /\ n \in DOMAIN t.events /\ t.events[n] = call
  BY SteppedCalls
<1> HIDE DEF n
<1>2. /\ t.pubs[p] = th /\ \A k \in PubSlots : k # p => t.pubs[k] = s.pubs[k]
      /\ t.ctl = s.ctl
  BY DEF Stepped
<1>3. /\ p = s.ctl.pub /\ Running(s.pubs[p]) /\ ~s.pubs[p].quit /\ ~s.pubs[p].stop
      /\ \A k \in PubSlots : Running(s.pubs[k]) => k = p
  BY LiveRuns DEF Wired
<1>4. Busy(s) /\ Busy(t)
  BY <1>2, <1>3 DEF Busy, Running
<1>5. \A k \in PubSlots : Running(t.pubs[k]) => k = t.ctl.pub
  BY <1>2, <1>3
<1>6. \A k \in PubSlots : Live(t, k) => ~t.pubs[k].stop /\ ~t.pubs[k].quit
  <2> SUFFICES ASSUME NEW k \in PubSlots, Live(t, k) PROVE ~t.pubs[k].stop /\ ~t.pubs[k].quit
    OBVIOUS
  <2>1. k = p
    BY <1>2, <1>5, <1>3, LiveRuns
  <2> QED
    BY <1>2, <1>3, <2>1
<1>7. \A i \in DOMAIN s.events : s.events[i].kind # "pubFinished"
  <2> SUFFICES ASSUME NEW i \in DOMAIN s.events, s.events[i].kind = "pubFinished" PROVE FALSE
    OBVIOUS
  <2>1. s.pubs[p].run = "done"
    BY <1>3 DEF Wired, InTurn
  <2> QED
    BY <2>1 DEF Live
<1>8. ASSUME NEW i \in DOMAIN t.events PROVE InTurn(t, i)
  <2>1. CASE i = n
    BY <1>1, <1>2, <1>3, <2>1 DEF InTurn, AtWork
  <2>2. CASE i \in DOMAIN s.events
    <3>1. InTurn(s, i) /\ t.events[i] = s.events[i] /\ t.events[i].kind # "pubFinished"
      BY <1>1, <1>7, <2>2 DEF Wired
    <3>2. \A j \in DOMAIN t.events : j < i => j \in DOMAIN s.events
      BY <1>1, <2>2
    <3>3. ASSUME t.events[i].kind = "pubThreadFinished"
          PROVE  /\ t.pubs[t.events[i].of].run = "exited"
                 /\ \A j \in DOMAIN t.events : j < i => t.events[j].kind \notin PubKinds
      <4>1. /\ s.pubs[s.events[i].of].run = "exited"
            /\ \A j \in DOMAIN s.events : j < i => s.events[j].kind \notin PubKinds
        BY <3>1, <3>3 DEF InTurn
      <4>2. s.events[i].of \in PubSlots /\ s.events[i].of # p
        BY <2>2, <3>1, <3>3, <4>1, CallOf DEF Live
      <4> QED
        BY <1>1, <1>2, <3>1, <3>2, <4>1, <4>2
    <3> QED
      BY <1>4, <3>1, <3>3 DEF InTurn
  <2> QED
    BY <1>1, <2>1, <2>2
<1>9. ~t.ctl.pubDone
  BY <1>2, <1>4 DEF Wired
<1> QED
  BY <1>4, <1>5, <1>6, <1>8, <1>9 DEF Wired

\* The controller still refers to the one publisher that has not ended.
LEMMA SteppedReferred ==
  ASSUME NEW s, NEW t, NEW p \in PubSlots, NEW th, NEW call \in Calls,
         Typed(s), Referred(s), Live(s, p), Stepped(s, t, p, th, call),
         call.kind \in AtWork,
         call.kind = "pubFinished" =>
           call.of = p /\ th.run \notin {"connecting", "sending", "trying", "sent"},
         IsInjective(th.todo)
  PROVE  Referred(t)
<1>1. /\ t.pubs[p] = th /\ \A k \in PubSlots : k # p => t.pubs[k] = s.pubs[k]
      /\ t.ctl = s.ctl
  BY DEF Stepped
<1>2. \A k \in PubSlots : Live(t, k) => Live(s, k)
  BY <1>1 DEF Live
<1>3. \A k \in PubSlots : Live(t, k) => t.ctl.pub = k
  BY <1>1, <1>2 DEF Referred
<1>4. \A k \in PubSlots : Live(t, k) => IsInjective(t.pubs[k].todo)
  BY <1>1, <1>2 DEF Referred
<1>5. ASSUME NEW i \in DOMAIN t.events,
             t.events[i].kind \in {"pubFinished", "pubThreadFinished"}
      PROVE  ~Live(t, t.events[i].of)
  <2>1. CASE i \in DOMAIN s.events
    <3>1. t.events[i] = s.events[i]
      BY <2>1, SteppedCalls
    <3>2. s.events[i].of \in PubSlots /\ ~Live(s, s.events[i].of)
      BY <1>5, <2>1, <3>1, CallOf DEF Referred
    <3> QED
      BY <1>2, <3>1, <3>2
  <2>2. CASE i \notin DOMAIN s.events
    <3>1. t.events[i] = call
      BY <1>5, <2>2, SteppedCalls
    <3>2. call.of = p /\ th.run \notin {"connecting", "sending", "trying", "sent"}
      BY <1>5, <3>1 DEF AtWork
    <3> QED
      BY <1>1, <3>1, <3>2 DEF Live
  <2> QED
    BY <2>1, <2>2
<1> QED
  BY <1>3, <1>4, <1>5 DEF Referred

\* What is handed out, by the one publisher that has not ended.
LEMMA OnlyHands ==
  ASSUME NEW s, NEW p \in PubSlots, \A k \in PubSlots : k # p => ~Live(s, k)
  PROVE  /\ Live(s, p) => Todo(s) = Range(s.pubs[p].todo) /\ Unsent(s) = Left(s.pubs[p])
         /\ ~Live(s, p) => Todo(s) = {} /\ Unsent(s) = {}
         /\ s.pubs[p].run = "sent" => InHand(s) = {Head(s.pubs[p].todo)}
         /\ s.pubs[p].run # "sent" => InHand(s) = {}
<1>1. {k \in PubSlots : Live(s, k)} = IF Live(s, p) THEN {p} ELSE {}
  OBVIOUS
<1>2. {k \in PubSlots : s.pubs[k].run = "sent"} = IF s.pubs[p].run = "sent" THEN {p} ELSE {}
  BY DEF Live
<1> QED
  BY <1>1, <1>2 DEF Todo, Unsent, InHand

\* What is to be sent, when the first of it is being reported and when not.
LEMMA LeftOf ==
  ASSUME NEW X, NEW th, th.todo \in Seq(X), th.todo # << >>
  PROVE  /\ Range(th.todo) = {Head(th.todo)} \cup Range(Tail(th.todo))
         /\ th.run # "sent" => Left(th) = Range(th.todo)
         /\ th.run = "sent" => Left(th) = Range(Tail(th.todo))
<1> DEFINE l == th.todo
<1>1. /\ 1 \in DOMAIN l /\ Head(l) = l[1] /\ DOMAIN l \subseteq Nat
      /\ \A i \in DOMAIN Tail(l) : i \in Nat /\ i + 1 \in DOMAIN l /\ Tail(l)[i] = l[i + 1]
      /\ \A j \in DOMAIN l : j # 1 => j - 1 \in DOMAIN Tail(l) /\ Tail(l)[j - 1] = l[j]
  BY TailFacts
<1>2. Range(Tail(l)) = {l[k] : k \in {j \in DOMAIN l : j > 1}}
  <2>1. Range(Tail(l)) \subseteq {l[k] : k \in {j \in DOMAIN l : j > 1}}
    <3> SUFFICES ASSUME NEW i \in DOMAIN Tail(l)
                 PROVE  Tail(l)[i] \in {l[k] : k \in {j \in DOMAIN l : j > 1}}
      BY DEF Range
    <3>1. i \in 1..Len(Tail(l))
      OBVIOUS
    <3>2. i + 1 \in {j \in DOMAIN l : j > 1} /\ Tail(l)[i] = l[i + 1]
      BY <1>1, <3>1
    <3> QED
      BY <3>2
  <2>2. {l[k] : k \in {j \in DOMAIN l : j > 1}} \subseteq Range(Tail(l))
    <3> SUFFICES ASSUME NEW j \in DOMAIN l, j > 1 PROVE l[j] \in Range(Tail(l))
      OBVIOUS
    <3>1. j # 1
      OBVIOUS
    <3>2. j - 1 \in DOMAIN Tail(l) /\ Tail(l)[j - 1] = l[j]
      BY <1>1, <3>1
    <3> HIDE DEF l
    <3> QED
      BY <3>2 DEF Range
  <2> QED
    BY <2>1, <2>2
<1>3. Range(l) = {l[1]} \cup {l[k] : k \in {j \in DOMAIN l : j > 1}}
  <2>1. DOMAIN l = {1} \cup {j \in DOMAIN l : j > 1}
    OBVIOUS
  <2> QED
    BY <2>1 DEF Range
<1>4. th.run # "sent" => Left(th) = Range(th.todo)
  BY DEF Left, Range
<1>5. th.run = "sent" => Left(th) = Range(Tail(th.todo))
  BY <1>2 DEF Left
<1> QED
  BY <1>1, <1>2, <1>3, <1>4, <1>5

\* The account of what was handed out goes on.
LEMMA HandsAccounted ==
  ASSUME NEW s, NEW t, NEW B, NEW C, Typed(s), Typed(t), Accounted(s, B),
         t.db = s.db, t.ctl = s.ctl,
         \A k \in PubSlots : Live(t, k) => Live(s, k),
         Handed(t) \subseteq Handed(s), Unsent(t) \subseteq Unsent(s),
         Told(s) \cup InHand(s) \subseteq Told(t) \cup InHand(t),
         \A x \in C : x \in B \/ (x \in Handed(s) /\ x \in InHand(t)),
         \A x \in C : x \notin Unsent(t)
  PROVE  Accounted(t, C)
<1>1. Back(t) \subseteq Back(s)
  BY DEF Back
<1>2. Cardinality(OutRows(t.db) \cup Back(t)) <= Fallback
  BY <1>1, FewerCounted DEF Accounted
<1>3. \A r \in Handed(t) \cup C : r \in Rows(t.db) \/ r.gen < t.db.gen
  BY DEF Accounted
<1>4. Back(t) # {} => ~t.ctl.active /\ \A k \in PubSlots : ~Live(t, k)
  BY <1>1 DEF Accounted
<1>5. OwnSources =>
        \A r \in OutRows(t.db) \cup (Handed(t) \cap Rows(t.db)) : ~t.db.held[r.queue]
  BY DEF Accounted
<1>6. \A r \in C : r \in RowsIn(t.db, {"PENDING", "CLAIMED"}) => r \in Told(t) \cup InHand(t)
  BY DEF Accounted
<1> QED
  BY <1>2, <1>3, <1>4, <1>5, <1>6 DEF Accounted

\* The rest of a list without repetitions is one.
LEMMA TailInjective ==
  ASSUME NEW X, NEW l \in Seq(X), l # << >>, IsInjective(l) PROVE IsInjective(Tail(l))
<1> SUFFICES ASSUME NEW i \in DOMAIN Tail(l), NEW j \in DOMAIN Tail(l), Tail(l)[i] = Tail(l)[j]
             PROVE  i = j
  BY DEF IsInjective
<1>1. /\ i \in Nat /\ i + 1 \in DOMAIN l /\ Tail(l)[i] = l[i + 1]
      /\ j \in Nat /\ j + 1 \in DOMAIN l /\ Tail(l)[j] = l[j + 1]
  BY TailFacts
<1>2. i + 1 = j + 1
  BY <1>1 DEF IsInjective
<1> QED
  BY <1>1, <1>2

\* A step of a worker thread.
LEMMA WorkerPublishes ==
  ASSUME PublishFits, SessionFits', halt' = halt,
         Referred(Situation'), Accounted(Situation', AtBroker'),
         Settled(Situation) => Settled(Situation'),
         NoneLeft(Situation) => NoneLeft(Situation'),
         Once => \A r \in BagToSet(mq') : mq'[r] = 1
  PROVE  PublishFits'
<1>1. (Once => halt.at # "down" /\ halt.then # "exit" /\ \A t \in BagToSet(mq) : mq[t] = 1)'
  BY DEF PublishFits
<1>2. (halt.at \in {"none", "scans"} => Settled(Situation))'
  BY DEF PublishFits
<1>3. (halt.at = "down" => NoneLeft(Situation))' /\ halt' \in Halts
  BY DEF PublishFits
<1> QED
  BY <1>1, <1>2, <1>3 DEF PublishFits

\* A publisher in its loop takes what is next from its list and reports it, or
\* leaves the list alone.
Reports(thread, th, call) ==
  \/ /\ th.todo = thread.todo /\ call.kind \notin {"published", "failed"}
     /\ thread.run # "sent" /\ th.run # "sent"
  \/ /\ thread.todo # << >> /\ th.todo = Tail(thread.todo) /\ th.run = "sending"
     /\ call.kind \in {"published", "failed"} /\ call.of = Head(thread.todo)

\* What is handed out after such a step.
LEMMA ReportedHands ==
  ASSUME NEW s, NEW t, NEW p \in PubSlots, NEW th, NEW call \in Calls, Typed(s), Referred(s),
         Live(s, p), Stepped(s, t, p, th, call), Reports(s.pubs[p], th, call),
         th.run \in {"connecting", "sending", "trying", "sent", "done"}
  PROVE  /\ \A k \in PubSlots : Live(t, k) => Live(s, k)
         /\ Handed(t) \subseteq Handed(s) /\ Unsent(t) \subseteq Unsent(s)
         /\ Told(s) \cup InHand(s) \subseteq Told(t) \cup InHand(t)
         /\ th.run # "done" \/ s.pubs[p].todo = << >> => Handed(t) = Handed(s)
         /\ IsInjective(th.todo)
<1> DEFINE old == s.pubs[p]
<1>1. /\ t.pubs[p] = th /\ \A k \in PubSlots : k # p => t.pubs[k] = s.pubs[k]
  BY DEF Stepped
<1>2. /\ \A k \in PubSlots : k # p => ~Live(s, k) /\ ~Live(t, k)
      /\ \A k \in PubSlots : Live(t, k) => Live(s, k)
      /\ Live(t, p) <=> th.run # "done"
  BY <1>1 DEF Referred, Live
<1>3. old.todo \in Seq(Requests) /\ (old.run = "sent" => old.todo # << >>) /\ IsInjective(old.todo)
  BY DEF Typed, Referred, PubThreads, ThreadRecords
<1>4. /\ Todo(s) = Range(old.todo) /\ Unsent(s) = Left(old)
      /\ old.run = "sent" => InHand(s) = {Head(old.todo)}
      /\ old.run # "sent" => InHand(s) = {}
  BY <1>2, OnlyHands
<1>5. /\ th.run # "done" => Todo(t) = Range(th.todo) /\ Unsent(t) = Left(th)
      /\ th.run = "done" => Todo(t) = {} /\ Unsent(t) = {}
      /\ th.run # "sent" => InHand(t) = {}
  BY <1>1, <1>2, OnlyHands
<1>6. Told(t) = Told(s) \cup {x \in {call.of} : call.kind \in {"published", "failed"}}
  BY SteppedCalls
<1>7. CASE /\ th.todo = old.todo /\ call.kind \notin {"published", "failed"}
           /\ old.run # "sent" /\ th.run # "sent"
  <2>1. Told(t) = Told(s)
    BY <1>6, <1>7
  <2>2. Left(th) = Left(old)
    BY <1>7 DEF Left
  <2>3. InHand(s) = {} /\ InHand(t) = {}
    BY <1>4, <1>5, <1>7
  <2>4. th.run # "done" => Todo(t) = Todo(s) /\ Unsent(t) = Unsent(s)
    BY <1>4, <1>5, <1>7, <2>2
  <2>5. old.todo = << >> => Todo(s) = {}
    BY <1>4 DEF Range
  <2>6. IsInjective(th.todo)
    BY <1>3, <1>7
  <2> QED
    BY <1>2, <1>5, <2>1, <2>3, <2>4, <2>5, <2>6 DEF Handed
<1>8. CASE /\ old.todo # << >> /\ th.todo = Tail(old.todo) /\ th.run = "sending"
           /\ call.kind \in {"published", "failed"} /\ call.of = Head(old.todo)
  <2> DEFINE x == Head(old.todo)
             rest == Range(Tail(old.todo))
  <2>1. /\ Range(old.todo) = {x} \cup rest
        /\ Left(old) = IF old.run = "sent" THEN rest ELSE Range(old.todo)
    BY <1>3, <1>8, LeftOf
  <2>2. Left(th) = rest
    BY <1>8 DEF Left, Range
  <2>3. Told(t) = Told(s) \cup {x}
    BY <1>6, <1>8
  <2>4. Todo(t) = rest /\ Unsent(t) = rest /\ InHand(t) = {}
    BY <1>5, <1>8, <2>2
  <2>5. IsInjective(th.todo)
    BY <1>3, <1>8, TailInjective
  <2> HIDE DEF x, rest
  <2>6. InHand(s) \subseteq {x}
    BY <1>4 DEF x
  <2>7. Todo(s) = {x} \cup rest /\ rest \subseteq Unsent(s)
    BY <1>4, <2>1
  <2> QED
    BY <1>2, <2>3, <2>4, <2>5, <2>6, <2>7 DEF Handed
<1> QED
  BY <1>7, <1>8 DEF Reports

\* A publisher in its loop posts a call.
LEMMA ReportPublishes ==
  ASSUME PublishFits, SessionFits', NEW p \in PubSlots, NEW th, NEW call \in Calls,
         Live(Situation, p), pubs' = [pubs EXCEPT ![p] = th], Emit(<<call>>),
         UNCHANGED <<db, ctl, mq, halt>>,
         th.run \in {"connecting", "sending", "trying", "sent", "done"},
         th.stop = pubs[p].stop, th.quit = pubs[p].quit,
         call.kind \in AtWork, call.kind = "pubFinished" <=> th.run = "done",
         call.kind = "pubFinished" => call.of = p,
         Reports(pubs[p], th, call),
         th.run = "done" =>
           pubs[p].todo = << >> \/ pubs[p].stop \/ "connectFailure" \in Allowed
  PROVE  PublishFits'
<1> DEFINE s == Situation
           t == [db |-> db', ctl |-> ctl', pubs |-> pubs', polls |-> polls',
                 scans |-> scans', events |-> events']
           B == AtBroker
<1>1. Situation' = t
  BY DEF Situation
<1>2. /\ t.pubs = pubs' /\ t.events = events' /\ t.db = db /\ t.ctl = ctl
      /\ s.pubs = pubs /\ s.events = events /\ s.db = db /\ s.ctl = ctl
  BY SituationParts
<1>3. Fit(s) /\ Typed(s) /\ Referred(s) /\ Accounted(s, B)
  BY DEF PublishFits, SessionFits, Fit
<1>4. Fit(t) /\ Typed(t)
  BY <1>1 DEF SessionFits, Fit
<1>5. AtBroker' = B /\ (Once => \A r \in BagToSet(mq') : mq'[r] = 1)
  BY DEF AtBroker, PublishFits
<1> HIDE DEF s, t, B
<1>6. Stepped(s, t, p, th, call)
  <2>1. s.pubs \in [PubSlots -> PubThreads]
    BY <1>3 DEF Typed
  <2>2. t.pubs = [s.pubs EXCEPT ![p] = th] /\ t.events = s.events \o <<call>>
    BY <1>2 DEF Emit
  <2>3. t.pubs[p] = th /\ \A k \in PubSlots : k # p => t.pubs[k] = s.pubs[k]
    BY <2>1, <2>2
  <2> QED
    BY <1>2, <2>2, <2>3 DEF Stepped
<1>7. Live(s, p) /\ Reports(s.pubs[p], th, call)
  BY <1>2 DEF s
<1>8. /\ \A k \in PubSlots : Live(t, k) => Live(s, k)
      /\ Handed(t) \subseteq Handed(s) /\ Unsent(t) \subseteq Unsent(s)
      /\ Told(s) \cup InHand(s) \subseteq Told(t) \cup InHand(t)
      /\ th.run # "done" \/ s.pubs[p].todo = << >> => Handed(t) = Handed(s)
      /\ IsInjective(th.todo)
  BY <1>3, <1>6, <1>7, ReportedHands
<1>9. Referred(t)
  BY <1>3, <1>6, <1>7, <1>8, SteppedReferred
<1>10. Accounted(t, B)
  <2>1. \A x \in B : x \notin Unsent(t)
    BY <1>3, <1>8 DEF Accounted
  <2> QED
    BY <1>2, <1>3, <1>4, <1>8, <2>1, HandsAccounted
<1>11. ASSUME Settled(s) PROVE Settled(t)
  <2>1. ASSUME t.ctl.active PROVE Wired(t)
    <3>1. Wired(s)
      BY <1>2, <1>11, <2>1 DEF Settled
    <3>2. th.stop = s.pubs[p].stop /\ th.quit = s.pubs[p].quit
      BY <1>2
    <3> QED
      BY <1>3, <1>6, <1>7, <3>1, <3>2, SteppedWired
  <2>2. ASSUME "connectFailure" \notin Allowed
        PROVE  Claims(t.db) \subseteq Handed(t) /\ (~t.ctl.active => Claims(t.db) = {})
    <3>1. Claims(s.db) \subseteq Handed(s) /\ (~s.ctl.active => Claims(s.db) = {})
      BY <1>11, <2>2 DEF Settled
    <3>2. CASE Handed(t) = Handed(s)
      BY <1>2, <3>1, <3>2
    <3>3. CASE Handed(t) # Handed(s)
      <4>1. s.pubs[p].stop
        BY <1>2, <1>8, <2>2, <3>3
      <4>2. ~s.ctl.active
        BY <1>7, <1>11, <4>1 DEF Settled, Wired
      <4> QED
        BY <1>2, <3>1, <4>2
    <3> QED
      BY <3>2, <3>3
  <2> QED
    BY <2>1, <2>2 DEF Settled
<1>12. ~NoneLeft(s)
  BY NoneLeftFacts DEF s
<1> QED
  BY <1>1, <1>5, <1>9, <1>10, <1>11, <1>12, WorkerPublishes DEF s, B

\* A publisher in its loop goes on and posts nothing.
LEMMA AtTheSame ==
  ASSUME NEW s, NEW t, NEW p \in PubSlots, Typed(s), Referred(s),
         t.events = s.events, t.ctl = s.ctl,
         \A k \in PubSlots : k # p => t.pubs[k] = s.pubs[k],
         s.pubs[p].run \in {"sending", "trying"}, t.pubs[p].run \in {"trying", "sent"},
         t.pubs[p].todo = s.pubs[p].todo, t.pubs[p].stop = s.pubs[p].stop,
         t.pubs[p].quit = s.pubs[p].quit
  PROVE  Referred(t) /\ (Wired(s) => Wired(t))
<1>1. Live(s, p) /\ \A k \in PubSlots : Live(t, k) <=> Live(s, k)
  BY DEF Live
<1>2. Referred(t)
  <2>1. \A k \in PubSlots : Live(t, k) => t.ctl.pub = k
    BY <1>1 DEF Referred
  <2>2. \A k \in PubSlots : Live(t, k) => IsInjective(t.pubs[k].todo)
    BY <1>1 DEF Referred
  <2>3. \A i \in DOMAIN t.events :
          t.events[i].kind \in {"pubFinished", "pubThreadFinished"} => ~Live(t, t.events[i].of)
    BY <1>1, CallOf DEF Referred
  <2> QED
    BY <2>1, <2>2, <2>3 DEF Referred
<1>3. ASSUME Wired(s) PROVE Wired(t)
  <2>1. \A k \in PubSlots : Running(t.pubs[k]) <=> Running(s.pubs[k])
    BY DEF Running
  <2>2. \A k \in PubSlots : t.pubs[k].quit = s.pubs[k].quit /\ t.pubs[k].stop = s.pubs[k].stop
    OBVIOUS
  <2>3. Busy(t) <=> Busy(s)
    BY <2>1, <2>2 DEF Busy
  <2>4. HasCall(t, AtWork) <=> HasCall(s, AtWork)
    BY DEF HasCall
  <2>5. ASSUME NEW i \in DOMAIN t.events PROVE InTurn(t, i)
    <3>1. InTurn(s, i)
      BY <1>3, <2>5 DEF Wired
    <3>2. ASSUME t.events[i].kind \in {"pubFinished", "pubThreadFinished"}
          PROVE  t.pubs[t.events[i].of].run = s.pubs[s.events[i].of].run
      <4>1. s.events[i].of \in PubSlots /\ s.events[i].of # p
        BY <1>1, <2>5, <3>2, CallOf DEF Referred
      <4> QED
        BY <4>1
    <3> QED
      BY <2>3, <3>1, <3>2 DEF InTurn
  <2> QED
    BY <1>1, <1>3, <2>1, <2>2, <2>3, <2>4, <2>5 DEF Wired
<1> QED
  BY <1>2, <1>3

\* The stop flag is looked at; nothing is handed out or taken back.
LEMMA PubLookPublishes ==
  ASSUME PublishFits, SessionFits', NEW p \in PubSlots, PubLook(p) PROVE PublishFits'
<1> DEFINE s == Situation
           t == [db |-> db', ctl |-> ctl', pubs |-> pubs', polls |-> polls',
                 scans |-> scans', events |-> events']
           B == AtBroker
           th == [pubs[p] EXCEPT !.run = "trying"]
<1>1. Situation' = t
  BY DEF Situation
<1>2. /\ t.pubs = pubs' /\ t.events = events' /\ t.db = db /\ t.ctl = ctl
      /\ s.pubs = pubs /\ s.events = events /\ s.db = db /\ s.ctl = ctl
  BY SituationParts DEF PubLook, PubStep
<1>3. Fit(s) /\ Typed(s) /\ Referred(s) /\ Accounted(s, B)
  BY DEF PublishFits, SessionFits, Fit
<1>4. Fit(t) /\ Typed(t)
  BY <1>1 DEF SessionFits, Fit
<1>5. pubs[p] \in PubThreads /\ pubs \in [PubSlots -> PubThreads]
  BY <1>2, <1>3 DEF Typed
<1>6. /\ th.run = "trying" /\ th.todo = pubs[p].todo /\ th.stop = pubs[p].stop
      /\ th.quit = pubs[p].quit /\ pubs[p].todo \in Seq(Requests)
  BY <1>5 DEF PubThreads, ThreadRecords
<1>7. /\ pubs' = [pubs EXCEPT ![p] = th] /\ pubs[p].run = "sending" /\ pubs[p].todo # << >>
      /\ mq' = mq /\ halt' = halt
  BY DEF PubLook, PubStep
<1>8. events' = events
  BY <1>2, <1>3 DEF PubLook, PubStep, Emit, Typed
<1>9. AtBroker' = B /\ (Once => \A r \in BagToSet(mq') : mq'[r] = 1)
  BY <1>7 DEF AtBroker, PublishFits
<1> HIDE DEF s, t, B, th
<1>10. /\ t.pubs[p] = th /\ \A k \in PubSlots : k # p => t.pubs[k] = s.pubs[k]
  BY <1>2, <1>5, <1>7
<1>11. Referred(t) /\ (Wired(s) => Wired(t))
  <2>1. t.events = s.events /\ t.ctl = s.ctl
    BY <1>2, <1>8
  <2>2. /\ s.pubs[p].run = "sending" /\ t.pubs[p].run = "trying"
        /\ t.pubs[p].todo = s.pubs[p].todo /\ t.pubs[p].stop = s.pubs[p].stop
        /\ t.pubs[p].quit = s.pubs[p].quit
    BY <1>2, <1>6, <1>7, <1>10
  <2>3. s.pubs[p].run \in {"sending", "trying"} /\ t.pubs[p].run \in {"trying", "sent"}
    BY <2>2
  <2> QED
    BY <1>3, <1>10, <2>1, <2>2, <2>3, AtTheSame
<1>12. /\ Live(s, p) /\ Live(t, p) /\ \A k \in PubSlots : Live(t, k) <=> Live(s, k)
       /\ \A k \in PubSlots : k # p => ~Live(s, k) /\ ~Live(t, k)
  <2>1. Live(s, p) /\ Live(t, p) /\ \A k \in PubSlots : k # p => (Live(t, k) <=> Live(s, k))
    BY <1>2, <1>6, <1>7, <1>10 DEF Live
  <2> QED
    BY <1>3, <2>1 DEF Referred
<1>13. Left(pubs[p]) = Range(pubs[p].todo) /\ Left(th) = Range(pubs[p].todo)
  <2>1. th.todo \in Seq(Requests) /\ th.todo # << >>
    BY <1>6, <1>7
  <2>2. Left(th) = Range(th.todo)
    BY <1>6, <2>1, LeftOf
  <2>3. Left(pubs[p]) = Range(pubs[p].todo)
    BY <1>6, <1>7, LeftOf
  <2> QED
    BY <1>6, <2>2, <2>3
<1>14. /\ Todo(s) = Range(pubs[p].todo) /\ Todo(t) = Range(pubs[p].todo)
       /\ Unsent(s) = Left(pubs[p]) /\ Unsent(t) = Left(th)
       /\ InHand(s) = {} /\ InHand(t) = {}
  <2>1. Todo(s) = Range(pubs[p].todo) /\ Unsent(s) = Left(pubs[p]) /\ InHand(s) = {}
    BY <1>2, <1>7, <1>12, OnlyHands
  <2>2. Todo(t) = Range(th.todo) /\ Unsent(t) = Left(th) /\ InHand(t) = {}
    BY <1>6, <1>10, <1>12, OnlyHands
  <2> QED
    BY <1>6, <2>1, <2>2
<1>15. Told(t) = Told(s) /\ Handed(t) = Handed(s) /\ Unsent(t) = Unsent(s)
  BY <1>2, <1>8, <1>13, <1>14 DEF Told, Handed
<1>16. Accounted(t, B)
  <2>1. Back(t) = Back(s)
    BY <1>2, <1>15 DEF Back
  <2> QED
    BY <1>2, <1>3, <1>12, <1>14, <1>15, <2>1 DEF Accounted
<1>17. Settled(s) => Settled(t)
  BY <1>2, <1>11, <1>15 DEF Settled
<1>18. ~NoneLeft(s)
  BY <1>12, NoneLeftFacts
<1> QED
  BY <1>1, <1>7, <1>9, <1>11, <1>16, <1>17, <1>18, WorkerPublishes DEF s, B

\* A message reaches the broker: it was not there before.
LEMMA PubSendPublishes ==
  ASSUME PublishFits, SessionFits', NEW p \in PubSlots, PubSend(p) PROVE PublishFits'
<1> DEFINE s == Situation
           t == [db |-> db', ctl |-> ctl', pubs |-> pubs', polls |-> polls',
                 scans |-> scans', events |-> events']
           B == AtBroker
           th == [pubs[p] EXCEPT !.run = "sent"]
           x == Head(pubs[p].todo)
           C == IF Once THEN B \cup {x} ELSE {}
<1>1. Situation' = t
  BY DEF Situation
<1>2. /\ t.pubs = pubs' /\ t.events = events /\ t.db = db /\ t.ctl = ctl
      /\ s.pubs = pubs /\ s.events = events /\ s.db = db /\ s.ctl = ctl
  BY SituationParts DEF PubSend
<1>3. Fit(s) /\ Typed(s) /\ Referred(s) /\ Accounted(s, B)
  BY DEF PublishFits, SessionFits, Fit
<1>4. Fit(t) /\ Typed(t)
  BY <1>1 DEF SessionFits, Fit
<1>5. pubs[p] \in PubThreads /\ pubs \in [PubSlots -> PubThreads]
  BY <1>2, <1>3 DEF Typed
<1>6. /\ th.run = "sent" /\ th.todo = pubs[p].todo /\ th.stop = pubs[p].stop
      /\ th.quit = pubs[p].quit /\ pubs[p].todo \in Seq(Requests) /\ pubs[p].todo # << >>
  BY <1>5 DEF PubThreads, ThreadRecords, PubSend
<1>7. pubs' = [pubs EXCEPT ![p] = th] /\ pubs[p].run = "trying"
  BY DEF PubSend
<1>8. mq' = mq (+) SetToBag({x}) /\ halt' = halt
  BY DEF PubSend
<1> HIDE DEF s, t, B, th, x
<1>9. /\ t.pubs[p] = th /\ \A k \in PubSlots : k # p => t.pubs[k] = s.pubs[k]
  BY <1>2, <1>5, <1>7
<1>10. /\ Live(s, p) /\ Live(t, p) /\ \A k \in PubSlots : Live(t, k) <=> Live(s, k)
       /\ \A k \in PubSlots : k # p => ~Live(s, k) /\ ~Live(t, k)
  <2>1. Live(s, p) /\ Live(t, p) /\ \A k \in PubSlots : k # p => (Live(t, k) <=> Live(s, k))
    BY <1>2, <1>6, <1>7, <1>9 DEF Live
  <2> QED
    BY <1>3, <2>1 DEF Referred
<1>11. /\ Range(pubs[p].todo) = {x} \cup Range(Tail(pubs[p].todo))
       /\ Left(pubs[p]) = Range(pubs[p].todo) /\ Left(th) = Range(Tail(pubs[p].todo))
  <2>1. Left(th) = Range(Tail(th.todo))
    BY <1>6, LeftOf
  <2> QED
    BY <1>6, <1>7, <2>1, LeftOf DEF x
<1>12. /\ Todo(s) = Range(pubs[p].todo) /\ Todo(t) = Range(pubs[p].todo)
       /\ Unsent(s) = Left(pubs[p]) /\ Unsent(t) = Left(th)
       /\ InHand(s) = {} /\ InHand(t) = {x}
  <2>1. Todo(s) = Range(pubs[p].todo) /\ Unsent(s) = Left(pubs[p]) /\ InHand(s) = {}
    BY <1>2, <1>7, <1>10, OnlyHands
  <2>2. Todo(t) = Range(th.todo) /\ Unsent(t) = Left(th) /\ InHand(t) = {Head(th.todo)}
    BY <1>6, <1>9, <1>10, OnlyHands
  <2> QED
    BY <1>6, <2>1, <2>2 DEF x
<1>13. Told(t) = Told(s) /\ Handed(t) = Handed(s)
  BY <1>2, <1>12 DEF Told, Handed
<1>14. x \in Unsent(s) /\ x \in Handed(s) /\ x \notin Unsent(t)
  <2>1. IsInjective(pubs[p].todo)
    BY <1>2, <1>3, <1>10 DEF Referred
  <2>2. x \notin Range(Tail(pubs[p].todo))
    <3> SUFFICES ASSUME NEW i \in DOMAIN Tail(pubs[p].todo), Tail(pubs[p].todo)[i] = x
                 PROVE  FALSE
      BY DEF Range
    <3>1. /\ 1 \in DOMAIN pubs[p].todo /\ x = pubs[p].todo[1]
          /\ i \in Nat /\ i + 1 \in DOMAIN pubs[p].todo /\ pubs[p].todo[i + 1] = x
      BY <1>6, TailFacts DEF x
    <3>2. i + 1 = 1
      BY <2>1, <3>1 DEF IsInjective
    <3>3. i \in 1..Len(Tail(pubs[p].todo))
      BY <1>6
    <3> QED
      BY <3>2, <3>3
  <2> QED
    BY <1>11, <1>12, <2>2 DEF Handed
<1>15. /\ Once => B = BagToSet(mq)
       /\ Once => \A r \in BagToSet(mq) : mq[r] = 1
       /\ x \notin B
  BY <1>3, <1>14 DEF B, AtBroker, PublishFits, Accounted
<1>16. /\ BagToSet(mq') = BagToSet(mq) \cup {x}
       /\ Once => \A r \in BagToSet(mq') : mq'[r] = 1
  <2>1. BagToSet(mq') = BagToSet(mq) \cup {x}
    BY <1>8 DEF BagToSet, SetToBag, \oplus
  <2>2. ASSUME Once PROVE \A r \in BagToSet(mq') : mq'[r] = 1
    BY <1>8, <1>15, <2>2 DEF BagToSet, SetToBag, \oplus
  <2> QED
    BY <2>1, <2>2
<1>17. AtBroker' = C
  BY <1>15, <1>16 DEF AtBroker
<1>18. Referred(t) /\ (Wired(s) => Wired(t))
  BY <1>2, <1>3, <1>6, <1>7, <1>9, AtTheSame
<1>19. Accounted(t, C)
  <2>1. Unsent(t) \subseteq Unsent(s)
    BY <1>11, <1>12
  <2>2. Told(s) \cup InHand(s) \subseteq Told(t) \cup InHand(t)
    BY <1>12, <1>13
  <2>3. \A r \in C : r \in B \/ (r \in Handed(s) /\ r \in InHand(t))
    BY <1>12, <1>14
  <2>4. \A r \in C : r \notin Unsent(t)
    BY <1>3, <1>14, <2>1 DEF Accounted
  <2> HIDE DEF C
  <2> QED
    BY <1>2, <1>3, <1>4, <1>10, <1>13, <2>1, <2>2, <2>3, <2>4, HandsAccounted
<1>20. ASSUME Settled(s) PROVE Settled(t)
  BY <1>2, <1>13, <1>18, <1>20 DEF Settled
<1>21. ~NoneLeft(s)
  BY <1>10, NoneLeftFacts
<1> QED
  BY <1>1, <1>8, <1>16, <1>17, <1>18, <1>19, <1>20, <1>21, WorkerPublishes DEF s

\* The thread of a publisher that has ended and was told to quit exits.
LEMMA PubExitPublishes ==
  ASSUME PublishFits, SessionFits', NEW p \in PubSlots, PubExit(p) PROVE PublishFits'
<1> DEFINE s == Situation
           t == [db |-> db', ctl |-> ctl', pubs |-> pubs', polls |-> polls',
                 scans |-> scans', events |-> events']
           B == AtBroker
           th == [pubs[p] EXCEPT !.run = "exited"]
           call == Call("pubThreadFinished", p)
           n == Len(s.events) + 1
<1>1. Situation' = t
  BY DEF Situation
<1>2. /\ t.pubs = pubs' /\ t.events = events' /\ t.db = db /\ t.ctl = ctl
      /\ s.pubs = pubs /\ s.events = events /\ s.db = db /\ s.ctl = ctl
  BY SituationParts DEF PubExit, PubStep
<1>3. Fit(s) /\ Typed(s) /\ Referred(s) /\ Accounted(s, B)
  BY DEF PublishFits, SessionFits, Fit
<1>4. Fit(t) /\ Typed(t)
  BY <1>1 DEF SessionFits, Fit
<1>5. AtBroker' = B /\ (Once => \A r \in BagToSet(mq') : mq'[r] = 1) /\ halt' = halt
  BY DEF AtBroker, PublishFits, PubExit, PubStep
<1>6. pubs[p] \in PubThreads /\ pubs \in [PubSlots -> PubThreads]
  BY <1>2, <1>3 DEF Typed
<1>7. th.run = "exited" /\ pubs[p].run = "done" /\ pubs[p].quit
  BY <1>6 DEF PubThreads, ThreadRecords, PubExit
<1>8. pubs' = [pubs EXCEPT ![p] = th] /\ events' = events \o <<call>>
  BY DEF PubExit, PubStep, Emit
<1>9. call \in Calls /\ call.kind = "pubThreadFinished" /\ call.of = p
  BY DEF Calls, Call
<1> HIDE DEF s, t, B, th, call
<1>10. Stepped(s, t, p, th, call)
  <2>1. t.pubs[p] = th /\ \A k \in PubSlots : k # p => t.pubs[k] = s.pubs[k]
    BY <1>2, <1>6, <1>8
  <2> QED
    BY <1>2, <1>8, <2>1 DEF Stepped
<1>11. /\ t.pubs[p] = th /\ \A k \in PubSlots : k # p => t.pubs[k] = s.pubs[k]
  BY <1>10 DEF Stepped
<1>12. /\ \A i \in DOMAIN s.events :
            i \in DOMAIN t.events /\ t.events[i] = s.events[i] /\ i < n
       /\ \A i \in DOMAIN t.events : i \in DOMAIN s.events \/ i = n
       /\ n \in DOMAIN t.events /\ t.events[n] = call
       /\ Told(t) = Told(s)
  <2>1. call.kind \notin {"published", "failed"}
    BY <1>9
  <2>2. Told(t) = Told(s) \cup {x \in {call.of} : call.kind \in {"published", "failed"}}
    BY <1>3, <1>9, <1>10, SteppedCalls
  <2>3. {x \in {call.of} : call.kind \in {"published", "failed"}} = {}
    BY <2>1
  <2>4. Told(t) = Told(s)
    BY <2>2, <2>3
  <2>5. /\ \A i \in DOMAIN s.events :
              i \in DOMAIN t.events /\ t.events[i] = s.events[i] /\ i < Len(s.events) + 1
        /\ \A i \in DOMAIN t.events : i \in DOMAIN s.events \/ i = Len(s.events) + 1
        /\ Len(s.events) + 1 \in DOMAIN t.events /\ t.events[Len(s.events) + 1] = call
    BY <1>3, <1>9, <1>10, SteppedCalls
  <2> QED
    BY <2>4, <2>5
<1> HIDE DEF n
<1>13. /\ ~Live(s, p) /\ ~Live(t, p) /\ \A k \in PubSlots : Live(t, k) <=> Live(s, k)
       /\ {k \in PubSlots : Live(t, k)} = {k \in PubSlots : Live(s, k)}
  <2>1. ~Live(s, p) /\ ~Live(t, p) /\ \A k \in PubSlots : Live(t, k) <=> Live(s, k)
    BY <1>2, <1>7, <1>11 DEF Live
  <2> QED
    BY <2>1
<1>14. Todo(t) = Todo(s) /\ Unsent(t) = Unsent(s)
  <2>1. \A k \in {r \in PubSlots : Live(s, r)} : t.pubs[k] = s.pubs[k]
    BY <1>11, <1>13
  <2> QED
    BY <1>13, <2>1 DEF Todo, Unsent
<1>15. InHand(t) = InHand(s)
  <2>1. {k \in PubSlots : t.pubs[k].run = "sent"} = {k \in PubSlots : s.pubs[k].run = "sent"}
    BY <1>2, <1>7, <1>11
  <2>2. \A k \in {r \in PubSlots : s.pubs[r].run = "sent"} : t.pubs[k] = s.pubs[k]
    BY <1>2, <1>7, <1>11
  <2> QED
    BY <2>1, <2>2 DEF InHand
<1>16. Handed(t) = Handed(s)
  BY <1>12, <1>14 DEF Handed
<1>17. Accounted(t, B)
  <2>1. \A x \in B : x \notin Unsent(t)
    BY <1>3, <1>14 DEF Accounted
  <2> QED
    BY <1>2, <1>3, <1>4, <1>12, <1>13, <1>14, <1>15, <1>16, <2>1, HandsAccounted
<1>18. Referred(t)
  <2>1. \A k \in PubSlots : Live(t, k) => t.ctl.pub = k /\ IsInjective(t.pubs[k].todo)
    BY <1>2, <1>3, <1>11, <1>13 DEF Referred
  <2>2. ASSUME NEW i \in DOMAIN t.events,
               t.events[i].kind \in {"pubFinished", "pubThreadFinished"}
        PROVE  ~Live(t, t.events[i].of)
    <3>1. CASE i \in DOMAIN s.events
      <4>1. s.events[i].of \in PubSlots /\ ~Live(s, s.events[i].of) /\ t.events[i] = s.events[i]
        BY <1>3, <1>12, <2>2, <3>1, CallOf DEF Referred
      <4> QED
        BY <1>13, <4>1
    <3>2. CASE i = n
      BY <1>9, <1>12, <1>13, <3>2
    <3> QED
      BY <1>12, <2>2, <3>1, <3>2
  <2> QED
    BY <2>1, <2>2 DEF Referred
<1>19. ASSUME Settled(s) PROVE Settled(t)
  <2>1. ASSUME t.ctl.active PROVE Wired(t)
    <3>1. Wired(s)
      BY <1>2, <1>19, <2>1 DEF Settled
    <3>2. s.ctl.pub = p /\ \A k \in PubSlots : Running(s.pubs[k]) => k = p
      BY <1>2, <1>7, <3>1 DEF Wired, Running
    <3>3. ~Busy(s) /\ ~Busy(t)
      BY <1>2, <1>7, <1>11, <3>2 DEF Busy, Running
    <3>4. \A k \in PubSlots : ~Running(t.pubs[k])
      BY <1>7, <1>11, <3>2 DEF Running
    <3>5. \A k \in PubSlots : ~Live(t, k)
      BY <3>4, LiveRuns
    <3>6. \A i \in DOMAIN s.events : s.events[i].kind \notin PubKinds
      <4> SUFFICES ASSUME NEW i \in DOMAIN s.events, s.events[i].kind \in PubKinds PROVE FALSE
        OBVIOUS
      <4>1. s.events[i].kind \notin AtWork
        BY <3>1, <3>3 DEF Wired, HasCall
      <4>2. s.events[i].kind = "pubThreadFinished" /\ InTurn(s, i)
        BY <3>1, <4>1 DEF PubKinds, Wired
      <4>3. s.pubs[s.events[i].of].run = "exited" /\ s.ctl.pub \in {s.events[i].of, NoSlot}
        BY <3>3, <4>2 DEF InTurn
      <4> QED
        BY <1>2, <1>7, <3>2, <4>3, ControllerAssumption DEF NoSlot
    <3>7. ~HasCall(t, AtWork)
      BY <1>9, <1>12, <3>6 DEF HasCall, PubKinds, AtWork
    <3>8. ASSUME NEW i \in DOMAIN t.events PROVE InTurn(t, i)
      <4>1. CASE i \in DOMAIN s.events
        BY <1>12, <3>6, <4>1 DEF InTurn, PubKinds, AtWork
      <4>2. CASE i = n
        <5>1. \A j \in DOMAIN t.events : j < i => t.events[j].kind \notin PubKinds
          <6> SUFFICES ASSUME NEW j \in DOMAIN t.events, j < i
                       PROVE  t.events[j].kind \notin PubKinds
            OBVIOUS
          <6>1. j # n
            <7>1. n \in Int
              BY <1>3 DEF n, Typed
            <7> QED
              BY <4>2, <7>1
          <6> QED
            BY <1>12, <3>6, <6>1
        <5> QED
          BY <1>2, <1>7, <1>9, <1>11, <1>12, <3>2, <4>2, <5>1 DEF InTurn
      <4> QED
        BY <1>12, <4>1, <4>2
    <3> QED
      BY <3>3, <3>4, <3>5, <3>7, <3>8 DEF Wired
  <2> QED
    BY <1>2, <1>16, <1>19, <2>1 DEF Settled
<1>20. ~NoneLeft(s)
  BY <1>2, <1>7 DEF NoneLeft, Running
<1> QED
  BY <1>1, <1>5, <1>17, <1>18, <1>19, <1>20, WorkerPublishes DEF s, B

\* The publish threads.
LEMMA PubRunsPublishes ==
  ASSUME PublishFits, NEW p \in PubSlots, PubRuns(p) PROVE PublishFits'
<1>0. SessionFits'
  BY PubRunsFits DEF PublishFits
<1>1. /\ pubs[p] \in PubThreads
      /\ pubs[p].run \in {"trying", "sent"} => pubs[p].todo # << >>
      /\ Live(Situation, p) <=> pubs[p].run \in {"connecting", "sending", "trying", "sent"}
  BY SituationParts, VariablesTyped DEF PublishFits, Live, PubThreads
<1>2. /\ \A kind \in {"queueReady", "pubFinished"} :
           /\ Call(kind, p) \in Calls
           /\ Call(kind, p).kind = kind /\ Call(kind, p).of = p /\ kind \in AtWork
      /\ \A kind \in {"published", "failed"} : \A t \in Requests :
           /\ Call(kind, t) \in Calls
           /\ Call(kind, t).kind = kind /\ Call(kind, t).of = t /\ kind \in AtWork
  BY DEF Calls, Call, AtWork
<1>3. ASSUME NEW run \in {"sending", "done"}, NEW kind \in {"queueReady", "pubFinished"},
             pubs[p].run \in {"connecting", "sending"},
             PubStep(p, run, <<Call(kind, p)>>), kind = "pubFinished" <=> run = "done",
             run = "done" =>
               pubs[p].todo = << >> \/ pubs[p].stop \/ "connectFailure" \in Allowed
      PROVE  PublishFits'
  <2> DEFINE th == [pubs[p] EXCEPT !.run = run]
             call == Call(kind, p)
  <2>1. th.run = run /\ th.stop = pubs[p].stop /\ th.quit = pubs[p].quit /\ th.todo = pubs[p].todo
    BY <1>1 DEF PubThreads, ThreadRecords
  <2>2. /\ pubs' = [pubs EXCEPT ![p] = th] /\ Emit(<<call>>) /\ UNCHANGED <<db, ctl, mq, halt>>
    BY <1>3 DEF PubStep
  <2>3. call \in Calls /\ call.kind = kind /\ call.of = p /\ kind \in AtWork
    BY <1>2
  <2> HIDE DEF th, call
  <2>4. Reports(pubs[p], th, call)
    BY <1>3, <2>1, <2>3 DEF Reports
  <2>5. Live(Situation, p) /\ th.run \in {"connecting", "sending", "trying", "sent", "done"}
    BY <1>1, <1>3, <2>1
  <2> QED
    BY <1>0, <1>3, <2>1, <2>2, <2>3, <2>4, <2>5, ReportPublishes
<1>4. ASSUME NEW kind \in {"published", "failed"}, PubNext(p, kind),
             pubs[p].run \in {"trying", "sent"}, pubs[p].todo # << >>
      PROVE  PublishFits'
  <2> DEFINE th == [pubs[p] EXCEPT !.run = "sending", !.todo = Tail(@)]
             call == Call(kind, Head(pubs[p].todo))
  <2>1. /\ th.run = "sending" /\ th.stop = pubs[p].stop /\ th.quit = pubs[p].quit
        /\ th.todo = Tail(pubs[p].todo) /\ pubs[p].todo \in Seq(Requests)
    <3>1. pubs[p].todo \in Seq(Requests)
      BY <1>1 DEF PubThreads, ThreadRecords
    <3>2. Tail(pubs[p].todo) \in Seq(Requests)
      BY <1>4, <3>1
    <3> QED
      BY <1>1, <3>1, <3>2 DEF PubThreads, ThreadRecords
  <2>2. /\ pubs' = [pubs EXCEPT ![p] = th] /\ Emit(<<call>>) /\ UNCHANGED <<db, ctl, mq, halt>>
    BY <1>4 DEF PubNext
  <2>3. Head(pubs[p].todo) \in Requests
    BY <1>4, <2>1
  <2>4. call \in Calls /\ call.kind = kind /\ call.of = Head(pubs[p].todo) /\ kind \in AtWork
    BY <1>2, <2>3
  <2> HIDE DEF th, call
  <2>5. Reports(pubs[p], th, call)
    BY <1>4, <2>1, <2>4 DEF Reports
  <2>6. Live(Situation, p) /\ call.kind # "pubFinished" /\ th.run # "done"
    BY <1>1, <1>4, <2>1, <2>4
  <2> QED
    BY <1>0, <1>4, <2>1, <2>2, <2>4, <2>5, <2>6, ReportPublishes
<1>5. CASE PubConnect(p)
  BY <1>3, <1>5 DEF PubConnect
<1>6. CASE PubConnectFails(p) \/ PubEnd(p)
  <2>1. /\ PubStep(p, "done", <<Call("pubFinished", p)>>)
        /\ pubs[p].run \in {"connecting", "sending"}
        /\ pubs[p].todo = << >> \/ pubs[p].stop \/ "connectFailure" \in Allowed
    BY <1>6 DEF PubConnectFails, PubEnd
  <2> QED
    BY <1>3, <2>1
<1>7. CASE PubSend(p)
  BY <1>0, <1>7, PubSendPublishes
<1>8. CASE PubEmit(p)
  BY <1>1, <1>4, <1>8 DEF PubEmit
<1>9. CASE PubFails(p)
  BY <1>1, <1>4, <1>9 DEF PubFails
<1>10. CASE PubExit(p)
  BY <1>0, <1>10, PubExitPublishes
<1>11. CASE PubLook(p)
  BY <1>0, <1>11, PubLookPublishes
<1> QED
  BY <1>5, <1>6, <1>7, <1>8, <1>9, <1>10, <1>11 DEF PubRuns

-----------------------------------------------------------------------------
(* The poll and the scan threads. *)

\* Calls that no publisher posts.
Aside(calls) == \A i \in DOMAIN calls : calls[i].kind \notin PubKinds

\* Nothing is new to the publishers.
Undisturbed(s, t) ==
  /\ \A i \in DOMAIN s.events : i \in DOMAIN t.events /\ t.events[i] = s.events[i]
  /\ \A i \in DOMAIN t.events : i \in DOMAIN s.events \/ t.events[i].kind \notin PubKinds
  /\ Told(t) = Told(s) /\ Handed(t) = Handed(s) /\ InHand(t) = InHand(s)
  /\ Unsent(t) = Unsent(s) /\ \A p : Live(t, p) <=> Live(s, p)

LEMMA AsideCalls ==
  ASSUME NEW s, Typed(s), NEW calls \in Seq(Calls), Aside(calls), NEW t,
         t.events = s.events \o calls, t.pubs = s.pubs
  PROVE  Undisturbed(s, t)
<1>1. s.events \in Seq(Calls)
  BY DEF Typed
<1>2. \A i \in DOMAIN s.events : i \in DOMAIN t.events /\ t.events[i] = s.events[i]
  BY <1>1
<1>3. ASSUME NEW i \in DOMAIN t.events, i \notin DOMAIN s.events
      PROVE  t.events[i].kind \notin PubKinds
  <2>1. i - Len(s.events) \in DOMAIN calls /\ t.events[i] = calls[i - Len(s.events)]
    BY <1>1, <1>3
  <2> QED
    BY <2>1 DEF Aside
<1>4. \A p : Live(t, p) <=> Live(s, p)
  BY DEF Live
<1>5. InHand(t) = InHand(s) /\ Todo(t) = Todo(s) /\ Unsent(t) = Unsent(s)
  <2>1. {p \in PubSlots : Live(t, p)} = {p \in PubSlots : Live(s, p)}
    BY <1>4
  <2> QED
    BY <2>1 DEF InHand, Todo, Unsent
<1>6. Told(t) = Told(s)
  BY <1>2, <1>3 DEF Told, PubKinds, AtWork
<1> QED
  BY <1>2, <1>3, <1>4, <1>5, <1>6 DEF Handed, Undisturbed

\* They change nothing for the publishers.
LEMMA AsideWired ==
  ASSUME NEW s, Typed(s), Wired(s), NEW calls \in Seq(Calls), Aside(calls), NEW t,
         t.events = s.events \o calls, t.pubs = s.pubs, t.ctl = s.ctl
  PROVE  Wired(t)
<1>0. Undisturbed(s, t)
  BY AsideCalls
<1>1. /\ \A i \in DOMAIN t.events : i \in DOMAIN s.events \/ t.events[i].kind \notin PubKinds
      /\ \A i \in DOMAIN s.events : i \in DOMAIN t.events /\ t.events[i] = s.events[i]
      /\ \A p : Live(t, p) <=> Live(s, p)
  BY <1>0 DEF Undisturbed
<1>2. Busy(t) <=> Busy(s)
  BY DEF Busy
<1>3. HasCall(t, AtWork) => HasCall(s, AtWork)
  BY <1>1 DEF HasCall, PubKinds
<1>4. ASSUME NEW i \in DOMAIN t.events PROVE InTurn(t, i)
  <2>1. CASE i \in DOMAIN s.events
    BY <1>1, <1>2, <2>1 DEF InTurn, Wired
  <2>2. CASE t.events[i].kind \notin PubKinds
    BY <2>2 DEF InTurn, PubKinds, AtWork
  <2> QED
    BY <1>1, <2>1, <2>2
<1> QED
  BY <1>1, <1>2, <1>3, <1>4 DEF Wired

\* A poll or a scan thread goes on and posts calls.
LEMMA AsidePublishes ==
  ASSUME PublishFits, SessionFits', NEW calls \in Seq(Calls), Aside(calls), Emit(calls),
         UNCHANGED <<db, ctl, pubs, halt>>, AtBroker' \subseteq AtBroker,
         Once => \A r \in BagToSet(mq') : mq'[r] = 1
  PROVE  PublishFits'
<1> DEFINE s == Situation
           t == [db |-> db, ctl |-> ctl, pubs |-> pubs, polls |-> polls',
                 scans |-> scans', events |-> events']
           B == AtBroker
           C == AtBroker'
<1>1. Situation' = t
  BY DEF Situation
<1>2. /\ t.db = s.db /\ t.ctl = s.ctl /\ t.pubs = s.pubs /\ t.events = s.events \o calls
  BY SituationParts DEF Emit
<1>3. Typed(s) /\ Referred(s) /\ Accounted(s, B)
  BY DEF PublishFits, SessionFits, Fit
<1>4. Typed(t)
  BY <1>1 DEF SessionFits, Fit
<1> HIDE DEF s, t, B, C
<1>5. Undisturbed(s, t)
  BY <1>2, <1>3, AsideCalls
<1>6. Referred(t)
  <2>1. ASSUME NEW i \in DOMAIN t.events,
               t.events[i].kind \in {"pubFinished", "pubThreadFinished"}
        PROVE  ~Live(t, t.events[i].of)
    <3>1. i \in DOMAIN s.events /\ t.events[i] = s.events[i]
      BY <1>5, <2>1 DEF Undisturbed, PubKinds, AtWork
    <3> QED
      BY <1>3, <1>5, <2>1, <3>1 DEF Undisturbed, Referred
  <2> QED
    BY <1>2, <1>3, <1>5, <2>1 DEF Undisturbed, Referred
<1>7. Accounted(t, C)
  <2>1. C \subseteq B /\ \A x \in C : x \notin Unsent(t)
    BY <1>3, <1>5 DEF B, C, Accounted, Undisturbed
  <2> QED
    BY <1>2, <1>3, <1>4, <1>5, <2>1, HandsAccounted DEF Undisturbed
<1>8. ASSUME Settled(s) PROVE Settled(t)
  BY <1>2, <1>3, <1>5, <1>8, AsideWired DEF Settled, Undisturbed
<1>9. NoneLeft(s) => NoneLeft(t)
  BY <1>2, <1>5 DEF NoneLeft, HasCall, Undisturbed
<1> QED
  BY <1>1, <1>6, <1>7, <1>8, <1>9, WorkerPublishes DEF s, C

\* The calls that these threads post are none of a publisher.
LEMMA AsideKinds ==
  /\ Aside(<< >>)
  /\ \A kind \in {"result", "pollCycle", "pollFinished", "scanCompleted", "scanStopped",
                  "scanFailed", "scanThreadFinished"} : \A of : Aside(<<Call(kind, of)>>)
<1>1. Aside(<< >>)
  BY DEF Aside
<1>2. ASSUME NEW kind \in {"result", "pollCycle", "pollFinished", "scanCompleted",
                           "scanStopped", "scanFailed", "scanThreadFinished"}, NEW of
      PROVE  Aside(<<Call(kind, of)>>)
  <2>1. kind \notin PubKinds /\ Call(kind, of).kind = kind
    BY DEF PubKinds, AtWork, Call
  <2> QED
    BY <2>1 DEF Aside
<1> QED
  BY <1>1, <1>2

\* The broker is left alone.
LEMMA SameBroker ==
  ASSUME PublishFits, mq' = mq
  PROVE  AtBroker' \subseteq AtBroker /\ (Once => \A r \in BagToSet(mq') : mq'[r] = 1)
BY DEF AtBroker, PublishFits

\* The poll threads.
LEMMA PollRunsPublish ==
  ASSUME PublishFits, NEW w \in PollSlots,
         PollStarts(w) \/ PollTick(w) \/ PollEnd(w)
  PROVE  PublishFits'
<1>0. SessionFits'
  BY PollRunsFits DEF PublishFits
<1>1. << >> \in Seq(Calls) /\ \A kind \in {"pollCycle", "pollFinished"} :
        <<Call(kind, w)>> \in Seq(Calls) /\ Aside(<<Call(kind, w)>>)
  BY CallsTyped, AsideKinds
<1>2. ASSUME NEW run, NEW calls \in Seq(Calls), Aside(calls), PollStep(w, run, calls)
      PROVE  PublishFits'
  <2>1. Emit(calls) /\ UNCHANGED <<db, ctl, pubs, halt>> /\ mq' = mq
    BY <1>2 DEF PollStep
  <2> QED
    BY <1>0, <1>2, <2>1, SameBroker, AsidePublishes
<1>3. CASE PollConnect(w)
  BY <1>1, <1>2, <1>3, AsideKinds DEF PollConnect
<1>4. CASE PollConnectFails(w)
  BY <1>1, <1>2, <1>4 DEF PollConnectFails
<1>5. CASE PollTick(w)
  BY <1>1, <1>2, <1>5 DEF PollTick
<1>6. CASE PollEnd(w)
  BY <1>1, <1>2, <1>6 DEF PollEnd
<1> QED
  BY <1>3, <1>4, <1>5, <1>6 DEF PollStarts

\* An answer.
LEMMA PollDeliverPublishes ==
  ASSUME PublishFits, NEW w \in PollSlots, NEW t \in BagToSet(mq), NEW v \in Verdicts,
         PollDeliver(w, t, v)
  PROVE  PublishFits'
<1> DEFINE call == Call("result", [task |-> t, verdict |-> v])
<1>0. SessionFits /\ SessionFits'
  BY PollDeliverFits DEF PublishFits
<1>1. <<call>> \in Seq(Calls) /\ Aside(<<call>>)
  <2>1. t \in Requests
    BY <1>0, VariablesTyped
  <2> QED
    BY <2>1, CallsTyped, AsideKinds
<1>2. Emit(<<call>>) /\ UNCHANGED <<db, ctl, pubs, halt>>
  BY DEF PollDeliver
<1> HIDE DEF call
<1>3. mq' = mq (-) SetToBag({t}) \/ mq' = mq
  BY DEF PollDeliver
<1>4. CASE mq' = mq
  BY <1>0, <1>1, <1>2, <1>4, SameBroker, AsidePublishes
<1>5. CASE mq' = mq (-) SetToBag({t})
  <2>1. BagToSet(mq') \subseteq BagToSet(mq)
    BY <1>5 DEF BagToSet, SetToBag, \ominus
  <2>2. Once => \A r \in BagToSet(mq) : mq[r] = 1
    BY DEF PublishFits
  <2>3. Once => \A r \in BagToSet(mq') : mq'[r] = 1
    BY <1>5, <2>1, <2>2 DEF BagToSet, SetToBag, \ominus
  <2>4. AtBroker' \subseteq AtBroker
    BY <2>1 DEF AtBroker
  <2> QED
    BY <1>0, <1>1, <1>2, <2>3, <2>4, AsidePublishes
<1> QED
  BY <1>3, <1>4, <1>5

\* A batch of images changes only the tables.
LEMMA ScanBatchPublishes ==
  ASSUME PublishFits, NEW k \in ScanSlots, ScanBatch(k) PROVE PublishFits'
<1> DEFINE q == scans[k].queue
           i == Head(scans[k].todo)
           N == NewRows(db, q, {i})
           e == Inserted(db, q, N)
           s == Situation
           t == [db |-> db', ctl |-> ctl, pubs |-> pubs, polls |-> polls,
                 scans |-> scans', events |-> events]
           B == AtBroker
<1>0. SessionFits /\ SessionFits' /\ ScanRuns(k)
  BY ScanRunsFits DEF PublishFits, ScanRuns
<1>1. db' = IF q \in Registered(db) THEN e ELSE db
  BY DEF ScanBatch, InsertBatch
<1>2. Situation' = t /\ halt' = halt /\ mq' = mq
  BY DEF Situation, ScanBatch
<1>3. /\ t.db = db' /\ t.ctl = s.ctl /\ t.pubs = s.pubs /\ t.events = s.events /\ s.db = db
  BY SituationParts
<1>4. Typed(s) /\ Referred(s) /\ Accounted(s, B)
  BY DEF PublishFits, SessionFits, Fit
<1>5. Typed(t)
  BY <1>0, <1>2 DEF SessionFits, Fit
<1>6. B \in SUBSET Requests
  BY <1>0, VariablesTyped DEF AtBroker
<1>7. Gentle(db, db')
  <2>1. Sound(db)
    BY <1>0, VariablesTyped
  <2>2. e.tasks = WithRows(db, N) /\ e.gen = db.gen /\ e.held = db.held
    BY <2>1 DEF Inserted, Sound, TypedTables, HasColumns
  <2> HIDE DEF q, i, e
  <2>3. Gentle(db, e)
    BY <2>1, <2>2, NewRowsGentle
  <2>4. Gentle(db, db)
    BY <2>1, SameGentle
  <2> QED
    BY <1>1, <2>3, <2>4
<1> HIDE DEF s, t, e
<1>8. Keeps(s, t)
  BY <1>3, <1>7 DEF Keeps
<1>9. Referred(t) /\ Accounted(t, B) /\ (Settled(s) => Settled(t))
  BY <1>4, <1>5, <1>6, <1>8, KeepsReferred, KeepsAccounted, KeepsSettled
<1>10. AtBroker' = B /\ (Once => \A r \in BagToSet(mq') : mq'[r] = 1)
  BY <1>2 DEF AtBroker, PublishFits
<1>11. NoneLeft(s) => NoneLeft(t)
  BY <1>3 DEF NoneLeft, HasCall
<1> QED
  BY <1>0, <1>2, <1>9, <1>10, <1>11, WorkerPublishes DEF s

\* The scan threads.
LEMMA ScanRunsPublish ==
  ASSUME PublishFits, NEW k \in ScanSlots, ScanRuns(k) PROVE PublishFits'
<1>0. SessionFits'
  BY ScanRunsFits DEF PublishFits
<1>1. << >> \in Seq(Calls) /\
      \A kind \in {"scanCompleted", "scanStopped", "scanFailed", "scanThreadFinished"} :
        <<Call(kind, k)>> \in Seq(Calls) /\ Aside(<<Call(kind, k)>>)
  BY CallsTyped, AsideKinds
<1>2. ASSUME NEW run, NEW calls \in Seq(Calls), Aside(calls), ScanStep(k, run, calls)
      PROVE  PublishFits'
  <2>1. Emit(calls) /\ UNCHANGED <<db, ctl, pubs, halt>> /\ mq' = mq
    BY <1>2 DEF ScanStep
  <2> QED
    BY <1>0, <1>2, <2>1, SameBroker, AsidePublishes
<1>3. CASE ScanBatch(k)
  BY <1>3, ScanBatchPublishes
<1>4. CASE ScanCompletes(k)
  BY <1>1, <1>2, <1>4 DEF ScanCompletes
<1>5. CASE ScanStops(k)
  BY <1>1, <1>2, <1>5 DEF ScanStops
<1>6. CASE ScanFails(k)
  BY <1>1, <1>2, <1>6 DEF ScanFails
<1>7. CASE ScanExit(k)
  BY <1>1, <1>2, <1>7, AsideKinds DEF ScanExit
<1> QED
  BY <1>3, <1>4, <1>5, <1>6, <1>7 DEF ScanRuns

-----------------------------------------------------------------------------
(* The user: folders. *)

\* Other tables, fit for the situation.
LEMMA OtherTables ==
  ASSUME NEW s, NEW B, Tidy(s, B), NEW d, Gentle(s.db, d), Fit([s EXCEPT !.db = d])
  PROVE  Tidy([s EXCEPT !.db = d], B)
<1> DEFINE t == [s EXCEPT !.db = d]
<1>1. /\ t.db = d /\ t.ctl = s.ctl /\ t.pubs = s.pubs /\ t.events = s.events
  BY DEF Tidy, Fit, Typed, Parts
<1>2. Fit(t)
  OBVIOUS
<1> HIDE DEF t
<1>3. Keeps(s, t)
  BY <1>1 DEF Keeps
<1>4. Tidy(t, B)
  BY <1>2, <1>3, KeepsTidy
<1> QED
  BY <1>4 DEF t

\* A registration is gentle.
LEMMA RegisteredGentle ==
  ASSUME NEW d, Sound(d), NEW q PROVE Gentle(d, Register(PrepareSession(d), q))
<1> DEFINE p == PrepareSession(d)
           m == Register(p, q)
<1>1. d.gen \in Nat
  BY DEF Sound, TypedTables, HasColumns
<1>2. \/ p = d
      \/ Rows(p) = {} /\ p.gen = d.gen + 1 /\ \A r \in Queues : ~p.held[r]
  BY DEF PrepareSession, NewSession, EmptyTables, Rows
<1>3. m.tasks = p.tasks /\ m.gen = p.gen /\ m.held = p.held
  <2>1. Sound(p)
    BY NewSessionKept DEF Kept
  <2> HIDE DEF p
  <2> QED
    BY <2>1 DEF Register, Sound, TypedTables, HasColumns
<1> HIDE DEF p, m
<1>4. Rows(m) = Rows(p)
  BY <1>3 DEF Rows
<1>5. Gentle(d, m)
  BY <1>1, <1>2, <1>3, <1>4 DEF Gentle
<1> QED
  BY <1>5 DEF m, p

\* add
LEMMA AddFolderPublishes ==
  ASSUME Orderly, PublishFits, NEW q \in Queues, AddFolder(q) PROVE PublishFits'
<1> DEFINE d == Register(PrepareSession(db), q)
           s == [Situation EXCEPT !.db = d]
           c == [s.ctl EXCEPT !.preparing = TRUE]
           t == [s EXCEPT !.ctl = c]
<1>1. GuiTurn(s) \/ GuiTurn(Inventory(t))
  BY DEF AddFolder, UserTurn
<1>2. Tidy(Situation, AtBroker)
  BY <1>1, TurnAtRest
<1>3. Fit(s) /\ Gentle(Situation.db, d)
  BY RegisteredFit, RegisteredGentle, VariablesTyped, SituationParts DEF PublishFits
<1> HIDE DEF d
<1>4. Tidy(s, AtBroker)
  BY <1>2, <1>3, OtherTables
<1> HIDE DEF s
<1>5. /\ Attributes(c) /\ c.active = s.ctl.active /\ c.pub = s.ctl.pub
      /\ c.pubDone = s.ctl.pubDone /\ c.open \subseteq s.ctl.open
  BY <1>3 DEF Fit, Typed, Attributes
<1> HIDE DEF c
<1>6. Tidy(t, AtBroker)
  BY <1>4, <1>5, CtlTidy
<1> HIDE DEF t
<1>7. Tidy(Inventory(t), AtBroker)
  BY <1>6, InventoryTidy
<1> QED
  BY <1>1, <1>4, <1>7, TidyTurn

\* start
LEMMA StartPublishes == ASSUME Orderly, PublishFits, Start PROVE PublishFits'
<1> DEFINE d == ResumeByUser(db)
           s == [Situation EXCEPT !.db = d]
<1>1. GuiTurn(StartSession(s)) \/ GuiTurn(StartSession(Situation))
  BY DEF Start, UserTurn
<1>2. /\ Fit(Situation) /\ Situation.db = db /\ Situation.ctl = ctl /\ Sound(db)
      /\ ~Situation.ctl.active
  BY SituationParts, VariablesTyped DEF PublishFits, SessionFits, Start
<1>3. NoneLeft(Situation)
  <2>1. FreePubs(Situation) = PubSlots /\ events = << >>
    <3>1. events = << >> /\ Cardinality(FreePubs(Situation)) >= 2
      BY DEF Start, RoomToStart, UserTurn, Patient, Orderly
    <3>2. PICK a \in PubSlots, b \in PubSlots : a # b /\ PubSlots = {a, b}
      BY DEF Orderly
    <3>3. FreePubs(Situation) \subseteq PubSlots
      BY <1>2 DEF FreePubs, Free, Fit, Typed
    <3>4. ASSUME NEW k \in PubSlots, FreePubs(Situation) \subseteq {k} PROVE FALSE
      <4>1. IsFiniteSet({k}) /\ Cardinality({k}) = 1
        BY FS_Singleton
      <4>2. Cardinality(FreePubs(Situation)) \in Nat /\ Cardinality(FreePubs(Situation)) <= 1
        BY <3>4, <4>1, FS_Subset, FS_CardinalityType
      <4> QED
        BY <3>1, <4>2
    <3>5. a \in FreePubs(Situation) /\ b \in FreePubs(Situation)
      BY <3>2, <3>3, <3>4
    <3> QED
      BY <3>1, <3>2, <3>3, <3>5
  <2>2. \A p \in PubSlots : ~Running(Situation.pubs[p])
    BY <2>1 DEF FreePubs, Free
  <2>3. ~HasCall(Situation, PubKinds)
    BY <2>1, SituationParts DEF HasCall
  <2> QED
    BY <2>2, <2>3 DEF NoneLeft
<1>4. Tidy(Situation, AtBroker)
  BY <1>1, TurnAtRest
<1>5. Kept(db, d)
  BY <1>2, ResumeKept
<1>6. d.session = "ACTIVE" /\ d.tasks = db.tasks /\ d.gen = db.gen /\ d.held = db.held
  BY <1>2 DEF Sound, TypedTables, HasColumns, ResumeByUser
<1> HIDE DEF d
<1>7. Fit(s)
  BY <1>2, <1>5, <1>6, InactiveFit DEF Kept
<1>8. Tidy(s, AtBroker)
  BY <1>2, <1>4, <1>6, <1>7, SameGentle, OtherTables
<1>9. ~s.ctl.active /\ NoneLeft(s)
  <2>1. s.ctl = Situation.ctl /\ s.pubs = Situation.pubs /\ s.events = Situation.events
    BY DEF Situation
  <2> HIDE DEF s
  <2> QED
    BY <1>2, <1>3, <2>1 DEF NoneLeft, HasCall
<1> HIDE DEF s
<1>10. Tidy(StartSession(Situation), AtBroker) /\ Tidy(StartSession(s), AtBroker)
  BY <1>2, <1>3, <1>4, <1>8, <1>9, StartSessionTidy
<1> QED
  BY <1>1, <1>10, TidyTurn

\* move up and down
LEMMA MoveFoldersPublishes ==
  ASSUME PublishFits, NEW S, NEW op \in Operations, MoveFolders(S, op) PROVE PublishFits'
<1> DEFINE d == Reorder(db, S \ UnderWay(Situation), op)
           s == [Situation EXCEPT !.db = d]
<1>1. GuiTurn(s)
  BY DEF MoveFolders, UserTurn
<1>2. Fit(Situation) /\ Situation.db = db /\ Sound(db)
  BY SituationParts, VariablesTyped DEF PublishFits, SessionFits
<1>3. Kept(db, d)
  BY <1>2, ReorderKept
<1>4. /\ d.session = db.session /\ d.resume = db.resume /\ d.tasks = db.tasks
      /\ d.gen = db.gen /\ d.held = db.held
  BY <1>2 DEF Sound, TypedTables, HasColumns, Reorder
<1>5. Claims(d) = Claims(db)
  BY <1>4 DEF Claims, RowsIn, Rows
<1> HIDE DEF d
<1>6. Calm(Situation, s)
  BY <1>2, <1>3, <1>4, <1>5, TablesCalm DEF Kept, Fit
<1>7. Gentle(Situation.db, d)
  BY <1>2, <1>4, SameGentle
<1>8. Tidy(s, AtBroker)
  BY <1>1, <1>6, <1>7, TurnAtRest, TablesTidy
<1> HIDE DEF s
<1> QED
  BY <1>1, <1>8, TidyTurn

\* The rows of deleted queues go with their generation.
LEMMA DeletedGentle == ASSUME NEW d, Sound(d), NEW S PROVE Gentle(d, Delete(d, S))
<1> DEFINE D == {q \in S \cap Registered(d) : Deletable(d, q)}
           m == WithoutQueues(d, D)
<1>1. Delete(d, S) \in {d, m}
  BY DEF Delete
<1> HIDE DEF D
<1>2. d.gen \in Nat
  BY DEF Sound, TypedTables, HasColumns
<1>3. /\ m.gen = d.gen + 1 /\ \A q \in Queues : m.held[q] => d.held[q]
      /\ m.tasks = [t \in {u \in Rows(d) : u.queue \notin D} |-> d.tasks[t]]
  BY DEF Sound, TypedTables, HasColumns, WithoutQueues
<1> HIDE DEF m
<1>4. /\ Rows(m) \subseteq Rows(d) /\ \A t \in Rows(m) : m.tasks[t] = d.tasks[t]
  BY <1>3 DEF Rows
<1>5. Gentle(d, m)
  BY <1>2, <1>3, <1>4 DEF Gentle
<1>6. Gentle(d, d)
  BY SameGentle
<1> QED
  BY <1>1, <1>5, <1>6

\* What a deletion leaves open.
LEMMA PrunedTidy == ASSUME NEW s, NEW B, Tidy(s, B), NEW D PROVE Tidy(Pruned(s, D), B)
<1> DEFINE r == IF s.ctl.active THEN PubChecked(s) ELSE s
           c == [r.ctl EXCEPT !.opened = IF s.ctl.active THEN {} ELSE @ \ D,
                              !.open = IF s.ctl.active THEN {} ELSE @ \ D]
<1>1. Tidy(r, B)
  BY PubCheckedTidy
<1>2. Pruned(s, D) = [r EXCEPT !.ctl = c]
  BY DEF Pruned
<1> HIDE DEF r
<1>3. /\ Attributes(c) /\ c.active = r.ctl.active /\ c.pub = r.ctl.pub
      /\ c.pubDone = r.ctl.pubDone /\ c.open \subseteq r.ctl.open
  BY <1>1 DEF Tidy, Fit, Typed, Attributes
<1> HIDE DEF c
<1> QED
  BY <1>1, <1>2, <1>3, CtlTidy

\* delete
LEMMA DeleteFoldersPublishes ==
  ASSUME PublishFits, NEW S, DeleteFolders(S) PROVE PublishFits'
<1> DEFINE d == Delete(db, S)
           s == [Situation EXCEPT !.db = d]
           D == Registered(db) \ Registered(d)
<1>1. GuiTurn(Pruned(s, D))
  BY DEF DeleteFolders, UserTurn
<1>2. Fit(Situation) /\ Situation.db = db /\ Sound(db)
  BY SituationParts, VariablesTyped DEF PublishFits, SessionFits
<1>3. Kept(db, d)
  BY <1>2, DeleteKept
<1>4. d.session = db.session /\ d.resume = db.resume /\ Claims(d) \subseteq Claims(db)
  BY <1>2, DeleteFields
<1>5. Gentle(Situation.db, d)
  BY <1>2, DeletedGentle
<1> HIDE DEF d
<1>6. Calm(Situation, s)
  BY <1>2, <1>3, <1>4, TablesCalm DEF Kept, Fit
<1>7. Tidy(s, AtBroker)
  BY <1>1, <1>5, <1>6, TurnAtRest, TablesTidy
<1> HIDE DEF s, D
<1>8. Tidy(Pruned(s, D), AtBroker)
  BY <1>7, PrunedTidy
<1> QED
  BY <1>1, <1>8, TidyTurn

\* Nothing of the queues newly held is open, out or handed out.
Untouched(s, q) ==
  /\ q \notin s.ctl.open
  /\ OwnSources => \A r \in Rows(s.db) : r.queue = q => r \notin OutRows(s.db) \cup Handed(s)

\* Holding such queues, and releasing any.
LEMMA HeldTidy ==
  ASSUME NEW s, NEW B, Tidy(s, B), NEW d, d.tasks = s.db.tasks, d.gen = s.db.gen,
         Fit([s EXCEPT !.db = d]),
         \A q \in Queues : d.held[q] => s.db.held[q] \/ Untouched(s, q)
  PROVE  Tidy([s EXCEPT !.db = d], B)
<1> DEFINE t == [s EXCEPT !.db = d]
<1>1. /\ t.db = d /\ t.ctl = s.ctl /\ t.pubs = s.pubs /\ t.events = s.events
  BY DEF Tidy, Fit, Typed, Parts
<1>2. Fit(t)
  OBVIOUS
<1>3. Fit(s) /\ Typed(s) /\ Referred(s) /\ Accounted(s, B) /\ Settled(s) /\ B \subseteq Requests
  BY DEF Tidy, Fit
<1> HIDE DEF t
<1>4. /\ Told(t) = Told(s) /\ Handed(t) = Handed(s) /\ InHand(t) = InHand(s)
      /\ Unsent(t) = Unsent(s) /\ \A p : Live(t, p) <=> Live(s, p)
  BY <1>1, SameHanded
<1>5. Rows(t.db) = Rows(s.db) /\ OutRows(t.db) = OutRows(s.db) /\ Claims(t.db) = Claims(s.db)
  BY <1>1 DEF Rows, OutRows, Claims, RowsIn
<1>6. \A X : RowsIn(t.db, X) = RowsIn(s.db, X)
  BY <1>1 DEF Rows, RowsIn
<1>7. Back(t) = Back(s)
  BY <1>4, <1>6 DEF Back
<1>8. Referred(t)
  BY <1>1, <1>3, <1>4 DEF Referred
<1>9. \A q \in t.ctl.open : ~t.db.held[q]
  <2>1. s.ctl.open \subseteq Queues
    BY <1>3 DEF Typed, Attributes
  <2> QED
    BY <1>1, <1>3, <2>1 DEF Accounted, Untouched
<1>10. OwnSources => \A r \in OutRows(t.db) \cup (Handed(t) \cap Rows(t.db)) : ~t.db.held[r.queue]
  <2> SUFFICES ASSUME OwnSources, NEW r \in OutRows(s.db) \cup (Handed(s) \cap Rows(s.db))
               PROVE  ~d.held[r.queue]
    BY <1>1, <1>4, <1>5
  <2>1. r \in Rows(s.db) /\ r \in OutRows(s.db) \cup Handed(s)
    BY DEF OutRows, RowsIn
  <2>2. r.queue \in Queues
    BY <1>3, <2>1 DEF Typed, Sound, TypedTables, Requests
  <2>3. ~s.db.held[r.queue]
    BY <1>3 DEF Accounted
  <2> QED
    BY <2>1, <2>2, <2>3 DEF Untouched
<1>11. Accounted(t, B)
  BY <1>1, <1>3, <1>4, <1>5, <1>6, <1>7, <1>9, <1>10 DEF Accounted
<1>12. Wired(s) => Wired(t)
  <2>1. Busy(t) <=> Busy(s)
    BY <1>1 DEF Busy
  <2>2. HasCall(t, AtWork) <=> HasCall(s, AtWork)
    BY <1>1 DEF HasCall
  <2>3. \A i \in DOMAIN s.events : InTurn(s, i) => InTurn(t, i)
    BY <1>1, <2>1 DEF InTurn
  <2> QED
    BY <1>1, <1>4, <2>1, <2>2, <2>3 DEF Wired
<1>13. Settled(t)
  BY <1>1, <1>3, <1>4, <1>5, <1>12 DEF Settled
<1>14. Tidy(t, B)
  BY <1>2, <1>3, <1>8, <1>11, <1>13 DEF Tidy
<1> QED
  BY <1>14 DEF t

\* A queue of which nothing has left PENDING, by its rows.
LEMMA ControllableRows ==
  ASSUME NEW d, Sound(d), CountersMatch(d), NEW q \in Queues, Controllable(d, q)
  PROVE  \A r \in Rows(d) : r.queue = q => d.tasks[r] = "PENDING"
<1> SUFFICES ASSUME NEW r \in Rows(d), r.queue = q, d.tasks[r] # "PENDING" PROVE FALSE
  OBVIOUS
<1> DEFINE st == d.tasks[r]
<1>1. st \in Statuses \ {"PENDING"} /\ IsFiniteSet(Rows(d))
  BY DEF Sound, TypedTables
<1>2. d.count[q][st] = 0 /\ d.count[q][st] = Cardinality(Tally(d, q, st))
  BY <1>1 DEF Controllable, CountersMatch, Counted
<1>3. r \in Tally(d, q, st) /\ Tally(d, q, st) \subseteq Rows(d)
  BY DEF Tally
<1>4. IsFiniteSet(Tally(d, q, st))
  BY <1>1, <1>3, FS_Subset
<1>5. Tally(d, q, st) = {}
  BY <1>2, <1>4, FS_EmptySet
<1> QED
  BY <1>3, <1>5

\* When nothing is handed out that was given back, such a queue is untouched.
LEMMA ControllableUntouched ==
  ASSUME NEW s, NEW B, Tidy(s, B), s.ctl.active \/ s.events = << >>,
         NEW q \in Queues, Controllable(s.db, q), q \notin s.ctl.open
  PROVE  Untouched(s, q)
<1> SUFFICES ASSUME OwnSources, NEW r \in Rows(s.db), r.queue = q,
                    r \in OutRows(s.db) \cup Handed(s)
             PROVE  FALSE
  BY DEF Untouched
<1>1. s.db.tasks[r] = "PENDING"
  BY ControllableRows DEF Tidy, Fit, Typed
<1>2. r \in Back(s)
  BY <1>1 DEF OutRows, RowsIn, Back
<1>3. ~s.ctl.active /\ \A p \in PubSlots : ~Live(s, p)
  BY <1>2 DEF Tidy, Accounted
<1>4. Handed(s) = {}
  BY <1>3 DEF Handed, Told, Todo
<1> QED
  BY <1>2, <1>4 DEF Back

\* hold and release
LEMMA HoldFoldersPublishes ==
  ASSUME Orderly, PublishFits, NEW S, NEW held \in BOOLEAN, HoldFolders(S, held)
  PROVE  PublishFits'
<1> DEFINE C == S \ UnderWay(Situation)
           d == SetHeld(db, C, held)
           s == [Situation EXCEPT !.db = d]
<1>1. GuiTurn(s) \/ GuiTurn(Dispatch(s))
  BY DEF HoldFolders, UserTurn
<1>2. /\ Fit(Situation) /\ Situation.db = db /\ Sound(db)
      /\ Situation.ctl = ctl /\ Situation.events = events
  BY SituationParts, VariablesTyped DEF PublishFits, SessionFits
<1>3. Tidy(Situation, AtBroker)
  BY <1>1, TurnAtRest
<1>4. Kept(db, d)
  BY <1>2, SetHeldKept
<1>5. /\ d.session = db.session /\ d.resume = db.resume /\ d.tasks = db.tasks /\ d.gen = db.gen
      /\ d.held = [q \in Queues |->
           IF q \in C \cap Registered(db) /\ Controllable(db, q) THEN held ELSE db.held[q]]
  BY <1>2 DEF Sound, TypedTables, HasColumns, SetHeld
<1>6. Claims(d) = Claims(db)
  BY <1>5 DEF Claims, RowsIn, Rows
<1>7. \A q \in C : q \notin ctl.open
  BY <1>2 DEF UnderWay
<1> HIDE DEF d, C
<1>8. \A q \in Queues : d.held[q] => Situation.db.held[q] \/ Untouched(Situation, q)
  <2>1. ASSUME NEW q \in Queues, d.held[q], ~db.held[q] PROVE Untouched(Situation, q)
    <3>1. q \in C /\ Controllable(db, q)
      BY <1>5, <2>1
    <3>2. ctl.active \/ events = << >>
      BY DEF HoldFolders, UserTurn, Patient, Orderly
    <3> QED
      BY <1>2, <1>3, <1>7, <3>1, <3>2, ControllableUntouched
  <2> QED
    BY <1>2, <2>1
<1>9. Calm(Situation, s)
  BY <1>2, <1>4, <1>5, <1>6, TablesCalm DEF Kept, Fit
<1>10. Fit(s)
  BY <1>2, <1>9, CalmFit
<1>11. Tidy(s, AtBroker)
  BY <1>2, <1>3, <1>5, <1>8, <1>10, HeldTidy
<1> HIDE DEF s
<1> QED
  BY <1>1, <1>11, DispatchTidy, TidyTurn

-----------------------------------------------------------------------------
(* Stops, crashes and restarts. *)

\* What keeps the invariant when halt changes.
LEMMA HaltPublishes ==
  ASSUME PublishFits, SessionFits', halt' \in Halts, NEW s, Parts(s), Become(s), UNCHANGED mq,
         Referred(s), Accounted(s, AtBroker),
         halt'.at \in {"none", "scans"} => Settled(s),
         halt'.at = "down" => NoneLeft(s),
         Once => halt'.at # "down" /\ halt'.then # "exit"
  PROVE  PublishFits'
<1>1. Situation' = s
  BY Became
<1>2. AtBroker' = AtBroker
  BY DEF AtBroker
<1>3. Referred(Situation)' /\ Accounted(Situation, AtBroker)'
  BY <1>1, <1>2
<1>4. /\ (halt.at \in {"none", "scans"} => Settled(Situation))'
      /\ (halt.at = "down" => NoneLeft(Situation))'
  BY <1>1
<1>5. (Once => halt.at # "down" /\ halt.then # "exit" /\ \A t \in BagToSet(mq) : mq[t] = 1)'
  BY DEF PublishFits
<1> QED
  BY <1>3, <1>4, <1>5 DEF PublishFits

\* The stop begins.
LEMMA StopBeginsPublishes ==
  ASSUME PublishFits, NEW then \in {"pause", "decline", "reset", "exit"},
         then = "exit" => ~Once, StopBegins(then)
  PROVE  PublishFits'
<1> DEFINE c == [Situation.ctl EXCEPT !.asking = FALSE]
           s == [Situation EXCEPT !.ctl = c]
           t == StopScans(s)
           B == AtBroker
<1>0. SessionFits'
  BY StopBeginsFits DEF PublishFits
<1>1. /\ Become(t) /\ UNCHANGED mq /\ halt' \in Halts
      /\ halt'.at = "scans" /\ halt'.then = then
  BY DEF StopBegins, Halts
<1>2. Tidy(Situation, B)
  BY TidyAtRest DEF StopBegins, NotHalted
<1>3. /\ Attributes(c) /\ c.active = Situation.ctl.active /\ c.pub = Situation.ctl.pub
      /\ c.pubDone = Situation.ctl.pubDone /\ c.open \subseteq Situation.ctl.open
  BY <1>2 DEF Tidy, Fit, Typed, Attributes
<1> HIDE DEF c
<1>4. Tidy(s, B)
  BY <1>2, <1>3, CtlTidy
<1> HIDE DEF s
<1>5. Calm(s, t)
  BY <1>4, StopScansCalm DEF Tidy, Fit
<1>6. t.db = s.db /\ t.pubs = s.pubs /\ t.events = s.events /\ t.ctl = s.ctl
  BY <1>4 DEF StopScans, Tidy, Fit, Typed, Parts
<1> HIDE DEF t
<1>7. Tidy(t, B)
  BY <1>4, <1>5, <1>6, SidesTidy
<1>8. Parts(t) /\ Referred(t) /\ Accounted(t, B) /\ Settled(t)
  BY <1>7 DEF Tidy, Fit, Typed
<1> QED
  BY <1>0, <1>1, <1>8, HaltPublishes

\* Publishers keep what they have to do, whatever they are told.
LEMMA SameLoops ==
  ASSUME NEW s, NEW t, t.events = s.events,
         \A k \in PubSlots : t.pubs[k].run = s.pubs[k].run /\ t.pubs[k].todo = s.pubs[k].todo
  PROVE  /\ Told(t) = Told(s) /\ Handed(t) = Handed(s) /\ InHand(t) = InHand(s)
         /\ Unsent(t) = Unsent(s) /\ \A k \in PubSlots : Live(t, k) <=> Live(s, k)
<1>1. \A k \in PubSlots : Live(t, k) <=> Live(s, k)
  BY DEF Live
<1>2. {k \in PubSlots : Live(t, k)} = {k \in PubSlots : Live(s, k)}
  BY <1>1
<1>3. Todo(t) = Todo(s)
  <2>1. \A k \in {r \in PubSlots : Live(s, r)} : Range(t.pubs[k].todo) = Range(s.pubs[k].todo)
    OBVIOUS
  <2> QED
    BY <1>2, <2>1 DEF Todo
<1>4. Unsent(t) = Unsent(s)
  <2>1. \A k \in {r \in PubSlots : Live(s, r)} : Left(t.pubs[k]) = Left(s.pubs[k])
    BY DEF Left
  <2> QED
    BY <1>2, <2>1 DEF Unsent
<1>5. InHand(t) = InHand(s)
  <2>1. {k \in PubSlots : t.pubs[k].run = "sent"} = {k \in PubSlots : s.pubs[k].run = "sent"}
    OBVIOUS
  <2> QED
    BY <2>1 DEF InHand
<1>6. Told(t) = Told(s)
  BY DEF Told
<1> QED
  BY <1>1, <1>3, <1>4, <1>5, <1>6 DEF Handed

\* The stop goes on with publisher and poller.
LEMMA StopMessagingPublishes ==
  ASSUME PublishFits, StopMessagingNext PROVE PublishFits'
<1> DEFINE s == Situation
           t == StopMessaging(s)
           B == AtBroker
<1>0. SessionFits'
  BY StopMessagingFits DEF PublishFits
<1>1. Become(t) /\ UNCHANGED mq /\ halt' = [halt EXCEPT !.at = "messaging"]
  BY DEF StopMessagingNext
<1>2. Tidy(s, B) /\ halt.at = "scans"
  BY TidyAtRest DEF StopMessagingNext
<1>3. /\ halt' \in Halts /\ halt'.at = "messaging"
      /\ Once => halt'.then # "exit"
  BY <1>1 DEF PublishFits, Halts
<1>4. /\ t.db = s.db /\ t.events = s.events /\ t.ctl.pub = s.ctl.pub
      /\ t.ctl.active = s.ctl.active /\ t.ctl.open = s.ctl.open /\ Parts(t)
  BY <1>2 DEF StopMessaging, Tidy, Fit, Typed, Parts, Attributes
<1>5. \A k \in PubSlots : t.pubs[k].run = s.pubs[k].run /\ t.pubs[k].todo = s.pubs[k].todo
  <2>1. s.pubs \in [PubSlots -> PubThreads]
    BY <1>2 DEF Tidy, Fit, Typed
  <2>2. t.pubs = Halted(s.pubs, s.ctl.pub, LAMBDA th : [th EXCEPT !.quit = TRUE])
    BY <1>2 DEF StopMessaging, Tidy, Fit, Typed, Parts
  <2> DEFINE th == [[s.pubs[s.ctl.pub] EXCEPT !.stop = TRUE] EXCEPT !.quit = TRUE]
  <2>3. t.pubs = s.pubs \/ t.pubs = [s.pubs EXCEPT ![s.ctl.pub] = th]
    BY <2>2 DEF Halted
  <2>4. ASSUME s.ctl.pub \in PubSlots
        PROVE  th.run = s.pubs[s.ctl.pub].run /\ th.todo = s.pubs[s.ctl.pub].todo
    BY <2>1, <2>4 DEF PubThreads, ThreadRecords
  <2> HIDE DEF th, t
  <2> QED
    BY <2>1, <2>3, <2>4
<1> HIDE DEF s, t, B
<1>6. /\ Told(t) = Told(s) /\ Handed(t) = Handed(s) /\ InHand(t) = InHand(s)
      /\ Unsent(t) = Unsent(s) /\ \A k \in PubSlots : Live(t, k) <=> Live(s, k)
  BY <1>4, <1>5, SameLoops
<1>7. Referred(t)
  BY <1>2, <1>4, <1>5, <1>6, CallOf DEF Referred, Tidy, Fit, Typed
<1>8. Accounted(t, B)
  <2>1. Back(t) = Back(s)
    BY <1>4, <1>6 DEF Back
  <2> QED
    BY <1>2, <1>4, <1>6, <2>1 DEF Tidy, Accounted
<1> QED
  BY <1>0, <1>1, <1>3, <1>4, <1>7, <1>8, HaltPublishes DEF B

\* The process is gone: nobody publishes, and what the broker keeps is not looked at.
LEMMA KilledPublishes ==
  ASSUME PublishFits, SessionFits', NEW d, Killed(d), UNCHANGED mq, ~Once,
         NEW s, Typed(s), s.db = d, Accounted(s, {})
  PROVE  PublishFits'
<1> DEFINE t == [db |-> d, ctl |-> FreshController, pubs |-> Idle(pubs, NoThread),
                 polls |-> Idle(polls, NoThread), scans |-> Idle(scans, NoScan),
                 events |-> << >>]
<1>1. Become(t) /\ halt' \in Halts /\ halt'.at = "down"
  BY DEF Killed, Become, Down, Halts
<1>2. Parts(t) /\ t.db = d /\ t.ctl = FreshController /\ t.events = << >>
      /\ t.pubs = Idle(pubs, NoThread)
  BY DEF Parts
<1> HIDE DEF t
<1>3. \A p \in PubSlots : t.pubs[p] = NoThread
  BY <1>2, VariablesTyped DEF Idle, PublishFits
<1>4. NoneLeft(t)
  BY <1>2, <1>3 DEF NoneLeft, Running, NoThread, HasCall
<1>5. Handed(t) = {} /\ \A p \in PubSlots : ~Live(t, p)
  BY <1>4, NoneLeftFacts
<1>6. Referred(t)
  BY <1>2, <1>5 DEF Referred
<1>7. Typed(t)
  BY <1>1, Became, <1>2 DEF SessionFits, Fit
<1>8. t.ctl.open = {} /\ Back(t) = {}
  BY <1>2, <1>5 DEF FreshController, Back
<1>9. Cardinality(OutRows(t.db) \cup Back(t)) <= Fallback
  <2>1. OutRows(t.db) \cup Back(t) \subseteq OutRows(s.db) \cup Back(s)
    BY <1>2, <1>8
  <2> QED
    BY <1>7, <2>1, FewerCounted DEF Accounted
<1>10. Accounted(t, {})
  BY <1>2, <1>5, <1>8, <1>9 DEF Accounted
<1>11. AtBroker = {}
  BY DEF AtBroker
<1> QED
  BY <1>1, <1>2, <1>4, <1>6, <1>10, <1>11, HaltPublishes

\* When the waits of a stop are over, no publisher is left in its loop.
LEMMA StopEndsSilent ==
  ASSUME Orderly, PublishFits, StopEnds PROVE \A p \in PubSlots : ~Live(Situation, p)
<1> DEFINE s == Situation
<1>1. ~PubRunning(s) /\ Referred(s)
  BY DEF StopEnds, Orderly, MessagingEnded, PublishFits
<1> HIDE DEF s
<1>2. ASSUME NEW p \in PubSlots, Live(s, p) PROVE FALSE
  BY <1>1, <1>2, LiveRuns, ControllerAssumption DEF Referred, PubRunning, NoSlot
<1> QED
  BY <1>2 DEF s

\* What follows the waits leaves it tidy.
LEMMA StoppedTidy ==
  ASSUME Orderly, PublishFits, StopEnds PROVE Tidy(Stopped(Situation), AtBroker)
<1> DEFINE s == Situation
           B == AtBroker
           t == Stopped(s)
<1>1. Fit(t) /\ ~t.ctl.active /\ Claims(t.db) = {}
  BY StoppedFit, EndsSilent DEF PublishFits, SessionFits
<1>2. Fit(s) /\ Typed(s) /\ Typed(t) /\ Referred(s) /\ Accounted(s, B) /\ B \in SUBSET Requests
  BY <1>1, VariablesTyped DEF PublishFits, SessionFits, Fit, AtBroker
<1>3. \A p \in PubSlots : ~Live(s, p)
  BY StopEndsSilent
<1>4. /\ t.db = ReleaseClaimed(s.db) /\ t.pubs = s.pubs /\ t.events = s.events
      /\ t.ctl.open = {} /\ t.ctl.active = FALSE
  <2> DEFINE c == [s.ctl EXCEPT !.preparing = FALSE, !.opened = {}, !.open = {},
                     !.pub = NoSlot, !.poll = NoSlot, !.active = FALSE, !.pubDone = TRUE]
             d == ReleaseClaimed(s.db)
             u == [s EXCEPT !.ctl = c, !.db = d]
  <2>1. Parts(s) /\ Attributes(s.ctl)
    BY <1>2 DEF Typed
  <2>2. t = u
    BY <2>1 DEF Stopped, ResetSchedule, Parts, Attributes
  <2>3. c.open = {} /\ c.active = FALSE
    BY <2>1 DEF Attributes
  <2> HIDE DEF c, d
  <2>4. u.ctl = c /\ u.db = d /\ u.pubs = s.pubs /\ u.events = s.events
    BY <2>1 DEF Parts
  <2> HIDE DEF t, u
  <2> QED
    BY <2>2, <2>3, <2>4 DEF d
<1> HIDE DEF s, B, t
<1>5. GivenBack(s.db, t.db)
  BY <1>2, <1>4, ReleaseGives DEF Typed
<1>6. Accounted(t, B)
  BY <1>1, <1>2, <1>3, <1>4, <1>5, GivenBackAccounted
<1>7. \A p \in PubSlots : ~Live(t, p)
  BY <1>3, <1>4 DEF Live
<1>8. Referred(t)
  <2>1. \A i \in DOMAIN t.events :
          t.events[i].kind \in {"pubFinished", "pubThreadFinished"} => t.events[i].of \in PubSlots
    BY <1>2, CallOf
  <2> QED
    BY <1>7, <2>1 DEF Referred
<1>9. Settled(t)
  BY <1>1 DEF Settled
<1>10. Tidy(t, B)
  BY <1>1, <1>2, <1>6, <1>8, <1>9 DEF Tidy
<1> QED
  BY <1>10 DEF t, s, B

\* Claims given back when there is none are no change.
LEMMA NoneGiven ==
  ASSUME NEW d, Sound(d), Claims(d) = {}, NEW e, GivenBack(d, e) PROVE Gentle(d, e)
<1>1. d.gen \in Nat
  BY DEF Sound, TypedTables, HasColumns
<1>2. \A t \in Rows(d) : d.tasks[t] # "CLAIMED"
  BY DEF Claims, RowsIn
<1> QED
  BY <1>1, <1>2 DEF Gentle, GivenBack

\* What a stop writes at its end.
LEMMA EndedGentle ==
  ASSUME NEW d, Sound(d), Claims(d) = {}
  PROVE  Gentle(d, PauseByUser(d)) /\ Gentle(d, ClearSession(d)) /\ Gentle(d, d)
<1>1. d.gen \in Nat
  BY DEF Sound, TypedTables, HasColumns
<1>2. Gentle(d, d)
  BY SameGentle
<1>3. Gentle(d, PauseByUser(d))
  <2> DEFINE r == ReleaseClaimed(d)
             m == PauseByUser(d)
  <2>1. GivenBack(d, r) /\ Sound(r)
    BY ReleaseGives, Released DEF Kept
  <2>2. m.tasks = r.tasks /\ m.gen = r.gen /\ m.held = r.held
    BY <2>1 DEF PauseByUser, Sound, TypedTables, HasColumns
  <2> HIDE DEF r, m
  <2>3. GivenBack(d, m)
    BY <2>1, <2>2 DEF GivenBack, Rows
  <2>4. Gentle(d, m)
    BY <2>3, NoneGiven
  <2> QED
    BY <2>4 DEF m
<1>4. Gentle(d, ClearSession(d))
  <2> DEFINE m == [d EXCEPT !.session = "ACTIVE", !.resume = FALSE]
             n == NewSession(d)
  <2>1. m.tasks = d.tasks /\ m.gen = d.gen /\ m.held = d.held
    BY DEF Sound, TypedTables, HasColumns
  <2>2. Rows(n) = {} /\ n.gen = d.gen + 1 /\ \A r \in Queues : ~n.held[r]
    BY DEF NewSession, EmptyTables, Rows
  <2>3. ClearSession(d) \in {m, n}
    BY DEF ClearSession
  <2> HIDE DEF m, n
  <2>4. Gentle(d, m)
    BY <2>1, SameGentle
  <2>5. Gentle(d, n)
    BY <1>1, <2>2 DEF Gentle
  <2> QED
    BY <2>3, <2>4, <2>5
<1> QED
  BY <1>2, <1>3, <1>4

\* The stop ends.
LEMMA StopEndsPublishes ==
  ASSUME Orderly, PublishFits, StopEnds PROVE PublishFits'
<1> DEFINE s == Stopped(Situation)
           d == CASE halt.then = "pause" /\ HasResumable(s.db) -> PauseByUser(s.db)
                  [] halt.then = "decline" -> PauseByUser(s.db)
                  [] halt.then = "reset"   -> ClearSession(s.db)
                  [] OTHER                 -> s.db
           t == [s EXCEPT !.db = d]
           B == AtBroker
<1>0. SessionFits'
  BY StopEndsFits DEF PublishFits
<1>1. /\ Fit(s) /\ Silent(s) /\ ~s.ctl.active /\ Claims(s.db) = {}
      /\ Tidy(s, B)
  BY StoppedFit, StoppedTidy, EndsSilent DEF PublishFits, SessionFits
<1>2. \/ Killed(d) /\ halt.then = "exit"
      \/ Become(t) /\ halt' = NotHalted
  BY DEF StopEnds
<1>3. UNCHANGED mq
  BY DEF StopEnds
<1> HIDE DEF s
<1>4. d \in {PauseByUser(s.db), ClearSession(s.db), s.db}
  <2>1. CASE halt.then = "pause" /\ HasResumable(s.db)
    BY <2>1
  <2>2. CASE halt.then = "decline"
    BY <2>2
  <2>3. CASE halt.then = "reset"
    BY <2>3
  <2>4. CASE ~(halt.then = "pause" /\ HasResumable(s.db)) /\ halt.then # "decline"
             /\ halt.then # "reset"
    BY <2>4
  <2> QED
    BY <2>1, <2>2, <2>3, <2>4
<1> HIDE DEF d
<1>5. Kept(s.db, d) /\ (d.session = "PAUSED_BY_USER" => Claims(d) = {})
  <2>1. CASE d = PauseByUser(s.db)
    BY <1>1, <2>1, PausedFields DEF Fit, Typed
  <2>2. CASE d = ClearSession(s.db)
    BY <1>1, <2>2, ClearFields DEF Fit, Typed
  <2>3. CASE d = s.db
    BY <1>1, <2>3, KeptSame DEF Fit, Typed
  <2> QED
    BY <1>4, <2>1, <2>2, <2>3
<1>6. Fit(t)
  BY <1>1, <1>5, InactiveFit DEF Kept
<1>7. Gentle(s.db, d)
  BY <1>1, <1>4, EndedGentle DEF Fit, Typed
<1>8. Tidy(t, B)
  BY <1>1, <1>6, <1>7, OtherTables
<1>9. t.db = d
  BY <1>1 DEF Fit, Typed, Parts
<1> HIDE DEF t
<1>10. CASE Killed(d) /\ halt.then = "exit"
  <2>1. ~Once /\ B = {}
    BY <1>10 DEF PublishFits, AtBroker
  <2>2. Typed(t) /\ Accounted(t, {})
    BY <1>8, <2>1 DEF Tidy, Fit
  <2> QED
    BY <1>0, <1>3, <1>9, <1>10, <2>1, <2>2, KilledPublishes
<1>11. CASE Become(t) /\ halt' = NotHalted
  <2>1. Parts(t) /\ Referred(t) /\ Accounted(t, B) /\ Settled(t)
    BY <1>8 DEF Tidy, Fit, Typed
  <2>2. halt' \in Halts /\ halt'.at = "none" /\ halt'.then = "none"
    BY <1>11 DEF NotHalted, Halts
  <2> QED
    BY <1>0, <1>3, <1>11, <2>1, <2>2, HaltPublishes
<1> QED
  BY <1>2, <1>10, <1>11

\* A crash.
LEMMA CrashPublishes == ASSUME PublishFits, SessionFits', Crash PROVE PublishFits'
<1>1. Killed(db) /\ UNCHANGED mq /\ ~Once
  BY DEF Crash, Once
<1>2. Typed(Situation) /\ Situation.db = db /\ Accounted(Situation, {})
  BY <1>1, SituationParts DEF PublishFits, SessionFits, Fit, AtBroker
<1> QED
  BY <1>1, <1>2, KilledPublishes

\* A situation with other tables.
LEMMA WithTables ==
  ASSUME NEW s, Typed(s), NEW d, Sound(d)
  PROVE  LET t == [s EXCEPT !.db = d]
         IN  /\ Typed(t) /\ t.db = d /\ t.ctl = s.ctl /\ t.pubs = s.pubs /\ t.events = s.events
<1> DEFINE t == [s EXCEPT !.db = d]
<1>1. /\ Parts(t) /\ t.ctl = s.ctl /\ t.db = d /\ t.pubs = s.pubs
      /\ t.polls = s.polls /\ t.scans = s.scans /\ t.events = s.events
  BY DEF Typed, Parts
<1> HIDE DEF t
<1>2. Typed(t)
  BY <1>1 DEF Typed
<1> QED
  BY <1>1, <1>2 DEF t

\* Opening the database again keeps the account, when nothing is handed out.
LEMMA ReopenAccounted ==
  ASSUME NEW s, Typed(s), Handed(s) = {}, Accounted(s, {})
  PROVE  Accounted([s EXCEPT !.db = Reopen(s.db)], {})
<1> DEFINE d == s.db
           p == PrepareSession(d)
           r == ReleaseClaimed(p)
           m == RecoverScans(r)
           u == [s EXCEPT !.db = p]
           v == [s EXCEPT !.db = r]
           w == [s EXCEPT !.db = m]
<1>1. Sound(d) /\ {} \in SUBSET Requests
  BY DEF Typed
<1>2. Sound(p) /\ Sound(r) /\ Sound(m)
  <2>1. Kept(d, p) /\ Kept(d, Reopen(d)) /\ Reopen(d) = m
    BY <1>1, NewSessionKept, ReopenKept DEF Reopen
  <2> HIDE DEF p
  <2>2. Sound(p) /\ Kept(p, r)
    BY <2>1, Released DEF Kept
  <2> QED
    BY <2>1, <2>2 DEF Kept
<1>3. Gentle(d, p)
  <2>1. \/ p = d
        \/ Rows(p) = {} /\ p.gen = d.gen + 1 /\ \A q \in Queues : ~p.held[q]
    BY DEF PrepareSession, NewSession, EmptyTables, Rows
  <2>2. d.gen \in Nat
    BY <1>1 DEF Sound, TypedTables, HasColumns
  <2>3. Gentle(d, d)
    BY <1>1, SameGentle
  <2> HIDE DEF p
  <2> QED
    BY <2>1, <2>2, <2>3 DEF Gentle
<1> HIDE DEF p
<1>4. GivenBack(p, r)
  BY <1>2, ReleaseGives
<1> HIDE DEF r
<1>5. m.tasks = r.tasks /\ m.gen = r.gen /\ m.held = r.held
  BY <1>2 DEF RecoverScans, Sound, TypedTables, HasColumns
<1>6. w = [s EXCEPT !.db = Reopen(s.db)]
  BY DEF Reopen, p, r
<1> HIDE DEF m
<1>7. Gentle(r, m)
  BY <1>2, <1>5, SameGentle
<1>8. /\ Typed(u) /\ u.db = p /\ u.ctl = s.ctl /\ u.pubs = s.pubs /\ u.events = s.events
      /\ Typed(v) /\ v.db = r /\ v.ctl = s.ctl /\ v.pubs = s.pubs /\ v.events = s.events
      /\ Typed(w) /\ w.db = m /\ w.ctl = s.ctl /\ w.pubs = s.pubs /\ w.events = s.events
  BY <1>2, WithTables
<1> HIDE DEF u, v, w, d
<1>9. Keeps(s, u) /\ Keeps(v, w)
  BY <1>3, <1>7, <1>8 DEF Keeps, d
<1>10. Accounted(u, {})
  BY <1>1, <1>8, <1>9, KeepsAccounted
<1>11. Handed(u) = {} /\ v.ctl.open \subseteq u.ctl.open
  BY <1>8, SameHanded
<1>12. Accounted(v, {})
  BY <1>1, <1>4, <1>8, <1>10, <1>11, GivenBackAccounted
<1>13. Accounted(w, {})
  BY <1>1, <1>8, <1>9, <1>12, KeepsAccounted
<1> QED
  BY <1>6, <1>13

\* The program starts again.
LEMMA RestartPublishes ==
  ASSUME Orderly, PublishFits, NEW accept, Restart(accept) PROVE PublishFits'
<1> DEFINE d == Reopen(db)
           s == [Situation EXCEPT !.db = d]
           e == ResumeByUser(s.db)
           t == [s EXCEPT !.db = e]
           B == AtBroker
<1>0. SessionFits'
  BY RestartFits DEF PublishFits
<1>1. Become(s) \/ Become(ResumePersisted(s)) \/ Become(ResumePersisted(t))
  BY DEF Restart
<1>2. /\ Fit(Situation) /\ Silent(Situation) /\ ~Situation.ctl.active /\ Typed(Situation)
      /\ Situation.db = db /\ Sound(db) /\ UNCHANGED mq /\ halt' = NotHalted
  BY SituationParts, VariablesTyped DEF PublishFits, SessionFits, Fit, Restart, Down
<1>3. B = {} /\ NoneLeft(Situation) /\ Accounted(Situation, {})
  BY DEF PublishFits, Restart, Down, AtBroker
<1>4. Handed(Situation) = {} /\ \A p \in PubSlots : ~Live(Situation, p)
  BY <1>3, NoneLeftFacts
<1>5. Kept(db, d) /\ Claims(d) = {}
  BY <1>2, ReopenFields
<1>6. Accounted(s, {})
  BY <1>2, <1>3, <1>4, ReopenAccounted
<1> HIDE DEF d
<1>7. Fit(s)
  BY <1>2, <1>5, InactiveFit DEF Kept
<1>8. /\ s.db = d /\ s.ctl = Situation.ctl /\ s.pubs = Situation.pubs
      /\ s.events = Situation.events
  BY <1>2, <1>5, WithTables DEF Kept
<1> HIDE DEF s
<1>9. ~s.ctl.active /\ NoneLeft(s)
  BY <1>2, <1>3, <1>8 DEF NoneLeft, HasCall
<1>10. Tidy(s, B)
  <2>1. \A p \in PubSlots : ~Live(s, p)
    BY <1>9, NoneLeftFacts
  <2>2. Referred(s)
    BY <1>9, <2>1 DEF Referred, NoneLeft, HasCall, PubKinds, AtWork
  <2>3. Settled(s)
    BY <1>5, <1>8, <1>9 DEF Settled
  <2> QED
    BY <1>3, <1>6, <1>7, <2>2, <2>3 DEF Tidy
<1>11. /\ Kept(s.db, e) /\ e.session = "ACTIVE"
       /\ e.tasks = s.db.tasks /\ e.gen = s.db.gen /\ e.held = s.db.held
  <2>1. Sound(s.db)
    BY <1>7 DEF Fit, Typed
  <2>2. Kept(s.db, e)
    BY <2>1, ResumeKept
  <2> QED
    BY <2>1, <2>2 DEF Sound, TypedTables, HasColumns, ResumeByUser
<1> HIDE DEF e
<1>12. Fit(t)
  BY <1>7, <1>9, <1>11, InactiveFit DEF Kept
<1>13. Tidy(t, B)
  <2>1. Gentle(s.db, e)
    BY <1>7, <1>11, SameGentle DEF Fit, Typed
  <2> QED
    BY <1>10, <1>12, <2>1, OtherTables
<1>14. ~t.ctl.active /\ NoneLeft(t)
  <2>1. Typed(s) /\ Sound(e)
    BY <1>7, <1>11 DEF Fit, Kept
  <2>2. t.ctl = s.ctl /\ t.pubs = s.pubs /\ t.events = s.events
    BY <2>1, WithTables
  <2> HIDE DEF t
  <2> QED
    BY <1>9, <2>2 DEF NoneLeft, HasCall
<1> HIDE DEF t
<1>15. Tidy(ResumePersisted(s), B) /\ Tidy(ResumePersisted(t), B)
  BY <1>9, <1>10, <1>13, <1>14, ResumePersistedTidy
<1>16. halt' \in Halts /\ halt'.at = "none" /\ halt'.then = "none"
  BY <1>2 DEF NotHalted, Halts
<1>17. ASSUME NEW u, Tidy(u, B), Become(u) PROVE PublishFits'
  <2>1. Parts(u) /\ Referred(u) /\ Accounted(u, B) /\ Settled(u)
    BY <1>17 DEF Tidy, Fit, Typed
  <2> QED
    BY <1>0, <1>2, <1>16, <1>17, <2>1, HaltPublishes
<1> QED
  BY <1>1, <1>10, <1>15, <1>17

-----------------------------------------------------------------------------
(* The theorems. *)

\* The invariant holds at first.
LEMMA InitPublishes == Init => PublishFits
<1> SUFFICES ASSUME Init PROVE PublishFits
  OBVIOUS
<1> DEFINE s == Situation
<1>1. SessionFits
  BY InitFits
<1>2. /\ s.db = EmptyTables(0) /\ s.ctl = FreshController /\ s.events = << >>
      /\ s.pubs = [k \in PubSlots |-> NoThread] /\ halt = NotHalted
  BY DEF Situation, Init
<1>3. BagToSet(mq) = {}
  BY DEF Init, EmptyBag, SetToBag, BagToSet
<1>4. Typed(s)
  BY <1>1 DEF SessionFits, Fit
<1> HIDE DEF s
<1>5. NoneLeft(s) /\ ~s.ctl.active /\ s.ctl.open = {}
  BY <1>2 DEF NoneLeft, Running, NoThread, HasCall, FreshController
<1>6. Handed(s) = {} /\ \A p \in PubSlots : ~Live(s, p)
  BY <1>5, NoneLeftFacts
<1>7. Rows(s.db) = {}
  BY <1>2 DEF EmptyTables, Rows
<1>8. OutRows(s.db) = {} /\ Back(s) = {} /\ Claims(s.db) = {}
  BY <1>6, <1>7 DEF OutRows, Back, Claims, RowsIn
<1>9. Cardinality(OutRows(s.db) \cup Back(s)) <= Fallback
  <2>1. OutRows(s.db) \cup Back(s) = {}
    BY <1>8
  <2>2. Cardinality(OutRows(s.db) \cup Back(s)) = 0
    BY <2>1, FS_EmptySet
  <2> QED
    BY <2>2, ControllerAssumption
<1>10. AtBroker = {}
  BY <1>3 DEF AtBroker
<1>11. Accounted(s, AtBroker)
  BY <1>5, <1>6, <1>7, <1>8, <1>9, <1>10 DEF Accounted
<1>12. Referred(s) /\ Settled(s)
  BY <1>2, <1>5, <1>6, <1>8 DEF Referred, Settled
<1>13. halt \in Halts /\ halt.at # "down" /\ halt.then # "exit"
  BY <1>2 DEF NotHalted, Halts
<1> QED
  BY <1>1, <1>3, <1>11, <1>12, <1>13 DEF PublishFits, s

\* Every step keeps it.
LEMMA NextPublishes == Orderly /\ PublishFits /\ [Next]_vars => PublishFits'
<1> SUFFICES ASSUME Orderly, PublishFits, [Next]_vars PROVE PublishFits'
  OBVIOUS
<1>0. SessionFits'
  BY NextFits DEF PublishFits
<1>1. CASE UNCHANGED vars
  <2>1. Situation' = Situation /\ AtBroker' = AtBroker /\ halt' = halt /\ mq' = mq
    BY <1>1 DEF vars, Situation, AtBroker
  <2>2. Once => \A r \in BagToSet(mq') : mq'[r] = 1
    BY <2>1 DEF PublishFits
  <2> QED
    BY <1>0, <2>1, <2>2, WorkerPublishes DEF PublishFits
<1>2. ASSUME NEW q \in Queues, AddFolder(q) PROVE PublishFits'
  BY <1>2, AddFolderPublishes
<1>3. ASSUME NEW S, \/ \E held \in BOOLEAN : HoldFolders(S, held)
                    \/ \E op \in Operations : MoveFolders(S, op)
                    \/ DeleteFolders(S)
      PROVE  PublishFits'
  BY <1>3, HoldFoldersPublishes, MoveFoldersPublishes, DeleteFoldersPublishes
<1>4. CASE Start
  BY <1>4, StartPublishes
<1>5. CASE Confirm
  BY <1>5, ConfirmPublishes
<1>6. CASE Stop \/ Refuse \/ Reset \/ Exit
  BY <1>6, StopBeginsPublishes DEF Stop, Refuse, Reset, Exit, Once
<1>7. CASE StopMessagingNext
  BY <1>7, StopMessagingPublishes
<1>8. CASE StopEnds
  BY <1>8, StopEndsPublishes
<1>9. CASE Crash
  BY <1>0, <1>9, CrashPublishes
<1>10. ASSUME NEW accept \in BOOLEAN, Restart(accept) PROVE PublishFits'
  BY <1>10, RestartPublishes
<1>11. CASE HandleCall
  BY <1>11, HandleCallPublishes
<1>12. CASE RetryTimer \/ RefreshTimer \/ \E r \in Readings : Metrics(r)
  BY <1>12, TimersPublish
<1>13. ASSUME NEW p \in PubSlots, PubRuns(p) PROVE PublishFits'
  BY <1>13, PubRunsPublishes
<1>14. ASSUME NEW w \in PollSlots, PollStarts(w) \/ PollTick(w) \/ PollEnd(w)
       PROVE  PublishFits'
  BY <1>14, PollRunsPublish
<1>15. ASSUME NEW w \in PollSlots, NEW t \in BagToSet(mq), NEW v \in Verdicts,
              PollDeliver(w, t, v)
       PROVE  PublishFits'
  BY <1>15, PollDeliverPublishes
<1>16. ASSUME NEW k \in ScanSlots, ScanRuns(k) PROVE PublishFits'
  BY <1>16, ScanRunsPublish
<1> QED
  BY <1>1, <1>2, <1>3, <1>4, <1>5, <1>6, <1>7, <1>8, <1>9, <1>10, <1>11, <1>12, <1>13,
     <1>14, <1>15, <1>16 DEF Next

\* The inductive invariant holds in every behaviour in which waits are long enough
\* and nobody clicks before the queued calls of the last run have been taken, with
\* every other action of the user and every other fault.
THEOREM PublishAlwaysFits == Orderly => (Spec => []PublishFits)
<1> SUFFICES ASSUME Orderly PROVE Spec => []PublishFits
  OBVIOUS
<1>1. Init => PublishFits
  BY InitPublishes
<1>2. PublishFits /\ [Next]_vars => PublishFits'
  BY NextPublishes
<1> QED
  BY <1>1, <1>2, PTL DEF Spec

\* What is claimed, sent or running never exceeds fallback_max_queued_messages,
\* although a stop gives claims back whose requests are still to be reported as
\* sent.
THEOREM AlwaysWithinLimit == Orderly => (Spec => []WithinLimit)
<1> SUFFICES ASSUME Orderly PROVE Spec => []WithinLimit
  OBVIOUS
<1>1. ASSUME PublishFits PROVE WithinLimit
  <2> DEFINE s == Situation
             X == OutRows(s.db)
             Y == OutRows(s.db) \cup Back(s)
  <2>1. Typed(s) /\ Cardinality(Y) <= Fallback /\ s.db = db
    BY <1>1, SituationParts DEF PublishFits, SessionFits, Fit, Accounted
  <2> HIDE DEF s
  <2>2. IsFiniteSet(Y) /\ Cardinality(Y) \in Nat
    BY <2>1, CountedFinite
  <2>3. IsFiniteSet(X) /\ Cardinality(X) <= Cardinality(Y)
    BY <2>2, FS_Subset
  <2>4. Cardinality(X) \in Nat
    BY <2>3, FS_CardinalityType
  <2>5. Outstanding(db) = Cardinality(X)
    BY <2>1 DEF Outstanding, OutRows
  <2> HIDE DEF X, Y
  <2> QED
    BY <2>1, <2>2, <2>3, <2>4, <2>5, ControllerAssumption DEF WithinLimit
<1> QED
  BY <1>1, PublishAlwaysFits, PTL

\* A held queue is not open for publication and none of its requests is out, when
\* no two queues share a source folder: a queue that may be held by its counters
\* then has no request that is claimed, out, or still to be reported.
THEOREM HeldAlwaysQuiet == Orderly /\ OwnSources => (Spec => []HeldIsQuiet)
<1> SUFFICES ASSUME Orderly, OwnSources PROVE Spec => []HeldIsQuiet
  OBVIOUS
<1>1. ASSUME PublishFits PROVE HeldIsQuiet
  <2> SUFFICES ASSUME NEW q \in Queues, db.held[q]
               PROVE  /\ q \notin ctl.open
                      /\ RowsOf(db, q) \cap RowsIn(db, {"CLAIMED", "SENT", "RUNNING"}) = {}
    BY DEF HeldIsQuiet
  <2>1. /\ \A r \in ctl.open : ~db.held[r]
        /\ \A t \in OutRows(db) : ~db.held[t.queue]
    BY <1>1, SituationParts DEF PublishFits, Accounted
  <2>2. \A t \in RowsOf(db, q) : t.queue = q
    BY DEF RowsOf
  <2> QED
    BY <2>1, <2>2 DEF OutRows
<1> QED
  BY <1>1, PublishAlwaysFits, PTL

\* No request is with the broker twice, while the process lives: what is sent was
\* claimed for this publisher alone, and claims are given back only when it has
\* come to its end and all it has sent is marked SENT or still to be reported.
THEOREM AlwaysPublishedOnce == Orderly /\ Once => (Spec => []PublishedOnce)
<1> SUFFICES ASSUME Orderly, Once PROVE Spec => []PublishedOnce
  OBVIOUS
<1>1. PublishFits => PublishedOnce
  BY DEF PublishFits, PublishedOnce
<1> QED
  BY <1>1, PublishAlwaysFits, PTL

\* Outside of a stop there are claims only while the controller refers to the
\* publisher they were made for, if publishers can connect.
THEOREM ClaimsAlwaysOwned ==
  Orderly /\ "connectFailure" \notin Allowed => (Spec => []ClaimsHaveOwner)
<1> SUFFICES ASSUME Orderly, "connectFailure" \notin Allowed PROVE Spec => []ClaimsHaveOwner
  OBVIOUS
<1>1. ASSUME PublishFits PROVE ClaimsHaveOwner
  <2> DEFINE s == Situation
  <2> SUFFICES ASSUME halt = NotHalted, Claims(s.db) # {} PROVE s.ctl.pub # NoSlot
    BY SituationParts DEF ClaimsHaveOwner, Resting, Claims
  <2>1. Settled(s)
    BY <1>1 DEF PublishFits, NotHalted
  <2> HIDE DEF s
  <2>2. Handed(s) # {} /\ Wired(s)
    BY <2>1 DEF Settled
  <2>3. Busy(s)
    BY <2>2, NothingHanded
  <2> QED
    BY <2>3, ControllerAssumption DEF Busy, NoSlot
<1> QED
  BY <1>1, PublishAlwaysFits, PTL

=============================================================================
