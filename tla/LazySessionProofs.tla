------------------------- MODULE LazySessionProofs -------------------------
(***************************************************************************)
(* Proofs about module LazySession, of the controller and its threads: the *)
(* types of its state and the promise the tables keep in every run, then   *)
(* what the scans have found.  Module PublishProofs goes on from here.     *)
(***************************************************************************)
EXTENDS LazySession, TaskTablesProofs

(* Situations with their types.  The references to thread slots are left    *)
(* untyped here: that there is always a free slot is another matter.        *)

Attributes(c) ==
  c \in [active : BOOLEAN, pubDone : BOOLEAN, preparing : BOOLEAN, confirmed : BOOLEAN,
         asking : BOOLEAN, opened : SUBSET Queues, open : SUBSET Queues,
         scanning : {c.scanning}, pub : {c.pub}, poll : {c.poll},
         workers : Nat \cup {Unknown}, queued : Nat \cup {Unknown}, retry : BOOLEAN]

Parts(s) ==
  s \in [db : {s.db}, ctl : {s.ctl}, pubs : {s.pubs}, polls : {s.polls},
         scans : {s.scans}, events : {s.events}]

Typed(s) ==
  /\ Parts(s) /\ Sound(s.db) /\ Attributes(s.ctl)
  /\ s.pubs \in [PubSlots -> PubThreads] /\ s.polls \in [PollSlots -> PollThreads]
  /\ s.scans \in [ScanSlots -> ScanThreads] /\ s.events \in Seq(Calls)

PublishingRuns == {"connecting", "sending", "trying", "sent"}

\* Every wait of a stop lasts until the threads have ended.
Waits == "waitTimeout" \notin Allowed

\* Publisher p would still send.  One that is told to stop may still be at its
\* attempts; where the stops wait for it, it counts until it has ended.
WouldSend(th) == th.run \in PublishingRuns /\ (th.stop => Waits)
Sends(s, p) == WouldSend(s.pubs[p])
Silent(s) == \A p \in PubSlots : ~Sends(s, p)
Claims(d) == RowsIn(d, {"CLAIMED"})

OwnSources == \A q, r \in Queues : SourceOf[q] = SourceOf[r] => q = r

\* A slot that starts nothing: no publisher more, no claim more, the run not
\* made active and the row of the session as it was.
Calm(s, t) ==
  /\ Typed(t)
  /\ \A p \in PubSlots : Sends(t, p) => Sends(s, p)
  /\ t.ctl.pub = s.ctl.pub \/ Silent(t)
  /\ t.ctl.active = s.ctl.active
  /\ t.db.session = s.db.session /\ t.db.resume = s.db.resume
  /\ Claims(t.db) \subseteq Claims(s.db)
  /\ OwnSources => (CountersMatch(s.db) => CountersMatch(t.db))

\* What a situation keeps to.
Fit(s) ==
  /\ Typed(s)
  /\ \A p \in PubSlots : Sends(s, p) => s.ctl.pub = p
  /\ s.ctl.active => s.db.session = "ACTIVE" /\ s.db.resume
  /\ s.db.session = "PAUSED_BY_USER" => Claims(s.db) = {} /\ Silent(s)
  /\ OwnSources => CountersMatch(s.db)

\* Calm slots compose.
LEMMA CalmTrans ==
  ASSUME NEW s, NEW t, NEW u, Calm(s, t), Calm(t, u) PROVE Calm(s, u)
<1>1. t.ctl.pub # s.ctl.pub => Silent(u)
  BY DEF Calm, Silent
<1> QED
  BY <1>1 DEF Calm

\* A slot that does nothing is calm.
LEMMA CalmSame == ASSUME NEW s, Typed(s) PROVE Calm(s, s)
BY DEF Calm

\* A calm slot keeps the situation fit.
LEMMA CalmFit ==
  ASSUME NEW s, NEW t, Fit(s), Calm(s, t) PROVE Fit(t)
<1>1. s.db.session = "PAUSED_BY_USER" => Claims(t.db) = {} /\ Silent(t)
  BY DEF Fit, Calm, Silent
<1>2. \A p \in PubSlots : Sends(t, p) => t.ctl.pub = p
  BY DEF Fit, Calm, Silent
<1> QED
  BY <1>1, <1>2 DEF Fit, Calm

-----------------------------------------------------------------------------
(* Changes of one field. *)

\* Changes that leave the tables and the publish threads alone.
LEMMA SidesCalm ==
  ASSUME NEW s, Typed(s), NEW t, Parts(t), t.db = s.db, t.pubs = s.pubs,
         Attributes(t.ctl), t.ctl.active = s.ctl.active,
         t.ctl.pub = s.ctl.pub \/ Silent(s),
         t.polls \in [PollSlots -> PollThreads], t.scans \in [ScanSlots -> ScanThreads],
         t.events \in Seq(Calls)
  PROVE  Calm(s, t)
<1>1. Typed(t)
  BY DEF Typed
<1>2. \A p \in PubSlots : Sends(t, p) <=> Sends(s, p)
  BY DEF Sends
<1> QED
  BY <1>1, <1>2 DEF Calm, Silent

\* Changes of the controller's attributes alone.
LEMMA CtlCalm ==
  ASSUME NEW s, Typed(s), NEW c, Attributes(c),
         c.active = s.ctl.active, c.pub = s.ctl.pub \/ Silent(s)
  PROVE  Calm(s, [s EXCEPT !.ctl = c])
<1> DEFINE t == [s EXCEPT !.ctl = c]
<1>1. /\ Parts(t) /\ t.ctl = c /\ t.db = s.db /\ t.pubs = s.pubs
      /\ t.polls = s.polls /\ t.scans = s.scans /\ t.events = s.events
  BY DEF Typed, Parts
<1> HIDE DEF t
<1>2. Calm(s, t)
  BY <1>1, SidesCalm DEF Typed
<1> QED
  BY <1>2 DEF t

\* Changes of the tables alone.
LEMMA TablesCalm ==
  ASSUME NEW s, Typed(s), NEW d, Sound(d),
         d.session = s.db.session, d.resume = s.db.resume, Claims(d) \subseteq Claims(s.db),
         OwnSources => (CountersMatch(s.db) => CountersMatch(d))
  PROVE  Calm(s, [s EXCEPT !.db = d])
<1> DEFINE t == [s EXCEPT !.db = d]
<1>1. /\ Parts(t) /\ t.ctl = s.ctl /\ t.db = d /\ t.pubs = s.pubs
      /\ t.polls = s.polls /\ t.scans = s.scans /\ t.events = s.events
  BY DEF Typed, Parts
<1> HIDE DEF t
<1>2. Typed(t)
  BY <1>1 DEF Typed
<1>3. \A p \in PubSlots : Sends(t, p) <=> Sends(s, p)
  BY <1>1 DEF Sends
<1>4. Calm(s, t)
  BY <1>1, <1>2, <1>3 DEF Calm
<1> QED
  BY <1>4 DEF t

-----------------------------------------------------------------------------
(* Threads. *)

\* When the publisher referred to has ended, nobody sends.
LEMMA EndedSilent ==
  ASSUME NEW s, Fit(s), ~PubRunning(s) PROVE Silent(s)
<1> SUFFICES ASSUME NEW p \in PubSlots, Sends(s, p) PROVE FALSE
  BY DEF Silent
<1>1. s.ctl.pub = p /\ p # NoSlot
  BY ControllerAssumption DEF Fit, NoSlot
<1> QED
  BY <1>1 DEF PubRunning, Running, Sends, WouldSend, PublishingRuns

\* A look at the publisher.
LEMMA PubCheckedCalm == ASSUME NEW s, Fit(s) PROVE Calm(s, PubChecked(s))
<1> DEFINE c == [s.ctl EXCEPT !.pub = NoSlot]
<1>1. Attributes(c) /\ c.active = s.ctl.active
  BY DEF Fit, Typed, Attributes
<1>2. [s EXCEPT !.ctl.pub = NoSlot] = [s EXCEPT !.ctl = c]
  OBVIOUS
<1>3. Typed(s) /\ (~PubRunning(s) => Silent(s))
  BY EndedSilent DEF Fit
<1> HIDE DEF c
<1> QED
  BY <1>1, <1>2, <1>3, CtlCalm, CalmSame DEF PubChecked

\* A look at the poller.
LEMMA PollCheckedCalm == ASSUME NEW s, Typed(s) PROVE Calm(s, PollChecked(s))
<1> DEFINE c == [s.ctl EXCEPT !.poll = NoSlot]
<1>1. Attributes(c) /\ c.active = s.ctl.active /\ c.pub = s.ctl.pub
  BY DEF Typed, Attributes
<1>2. [s EXCEPT !.ctl.poll = NoSlot] = [s EXCEPT !.ctl = c]
  OBVIOUS
<1> HIDE DEF c
<1> QED
  BY <1>1, <1>2, CtlCalm, CalmSame DEF PollChecked

\* The threads that have just been made.
LEMMA NewThreads ==
  /\ [NoThread EXCEPT !.run = "connecting"] \in PollThreads
  /\ NoThread \in PollThreads /\ NoThread \in PubThreads /\ NoScan \in ScanThreads
  /\ \A todo \in Seq(Requests) :
       LET t == [NoThread EXCEPT !.run = "connecting", !.todo = todo]
       IN  t \in PubThreads
<1>1. << >> \in Seq(Requests) /\ << >> \in Seq(Images)
  OBVIOUS
<1>2. NoScan \in ScanThreads
  BY <1>1 DEF NoScan, ScanThreads
<1>3. NoThread \in PollThreads /\ NoThread \in PubThreads
  BY <1>1 DEF NoThread, PollThreads, PubThreads, ThreadRecords
<1>4. [NoThread EXCEPT !.run = "connecting"] \in PollThreads
  BY <1>1 DEF NoThread, PollThreads, ThreadRecords
<1>5. ASSUME NEW todo \in Seq(Requests)
      PROVE  [NoThread EXCEPT !.run = "connecting", !.todo = todo] \in PubThreads
  BY DEF NoThread, PubThreads, ThreadRecords
<1> QED
  BY <1>2, <1>3, <1>4, <1>5

\* A new poll thread.
LEMMA StartPollerCalm == ASSUME NEW s, Typed(s) PROVE Calm(s, StartPoller(s))
<1> DEFINE w == Lowest(FreePolls(s))
           th == [NoThread EXCEPT !.run = "connecting"]
           t == StartPoller(s)
<1>1. t = [s EXCEPT !.ctl.poll = w, !.polls[w] = th]
  BY DEF StartPoller
<1> HIDE DEF w, th, t
<1>2. th \in PollThreads
  BY NewThreads DEF th
<1> DEFINE c == [s.ctl EXCEPT !.poll = w]
           ps == [s.polls EXCEPT ![w] = th]
<1>3. Attributes(c) /\ c.active = s.ctl.active /\ c.pub = s.ctl.pub
  BY DEF Typed, Attributes
<1>4. ps \in [PollSlots -> PollThreads]
  BY <1>2 DEF Typed
<1>5. t = [s EXCEPT !.ctl = c, !.polls = ps]
  BY <1>1
<1> HIDE DEF c, ps
<1>6. /\ Parts(t) /\ t.ctl = c /\ t.db = s.db /\ t.pubs = s.pubs
      /\ t.polls = ps /\ t.scans = s.scans /\ t.events = s.events
  BY <1>5 DEF Typed, Parts
<1>7. Calm(s, t)
  BY <1>3, <1>4, <1>6, SidesCalm DEF Typed
<1> QED
  BY <1>7 DEF t

\* A poll thread where there is none.
LEMMA EnsurePollerCalm == ASSUME NEW s, Typed(s) PROVE Calm(s, EnsurePoller(s))
BY StartPollerCalm, CalmSame DEF EnsurePoller

\* The request to stop polling.
LEMMA StopPollingCalm == ASSUME NEW s, Typed(s) PROVE Calm(s, StopPolling(s))
<1> DEFINE w == s.ctl.poll
           ps == [s.polls EXCEPT ![w].stop = TRUE]
           t == [s EXCEPT !.polls = ps]
<1>1. ps \in [PollSlots -> PollThreads]
  BY DEF Typed, PollThreads, ThreadRecords
<1>2. StopPolling(s) = IF s.ctl.poll = NoSlot THEN s ELSE t
  BY DEF StopPolling
<1> HIDE DEF ps
<1>3. /\ Parts(t) /\ t.ctl = s.ctl /\ t.db = s.db /\ t.pubs = s.pubs
      /\ t.polls = ps /\ t.scans = s.scans /\ t.events = s.events
  BY DEF Typed, Parts
<1> HIDE DEF t
<1>4. Calm(s, t)
  BY <1>1, <1>3, SidesCalm DEF Typed
<1> QED
  BY <1>2, <1>4, CalmSame


\* The pictures of a folder, in their order.
LEMMA ImagesListed == ASSUME NEW q \in Queues PROVE Ascending(ImagesIn(q)) \in Seq(Images)
<1>1. ImagesIn(q) \in SUBSET Images
  BY TablesAssumption DEF ImagesIn
<1>2. IsFiniteSet(Images) /\ Images \subseteq Int
  BY TablesAssumption
<1>3. IsFiniteSet(ImagesIn(q)) /\ ImagesIn(q) \in SUBSET Int
  BY <1>1, <1>2, FS_Subset
<1>4. Enumerates(Ascending(ImagesIn(q)), ImagesIn(q))
  BY <1>3, AscendingFacts
<1> QED
  BY <1>1, <1>4 DEF Enumerates

\* A scan that begins.
LEMMA StartScanCalm ==
  ASSUME NEW s, Typed(s), NEW q \in Queues PROVE Calm(s, StartScan(s, q))
<1> DEFINE k == Lowest(FreeScans(s))
           todo == Ascending(ImagesIn(q))
           th == [NoScan EXCEPT !.run = "scanning", !.queue = q, !.todo = todo]
           t == StartScan(s, q)
<1>1. t = [s EXCEPT !.ctl.scanning[q] = k, !.scans[k] = th]
  BY DEF StartScan
<1>2. todo \in Seq(Images)
  BY ImagesListed
<1> HIDE DEF k, todo, t
<1>3. th \in ScanThreads
  BY <1>2 DEF NoScan, ScanThreads
<1> HIDE DEF th
<1> DEFINE c == [s.ctl EXCEPT !.scanning[q] = k]
           ss == [s.scans EXCEPT ![k] = th]
<1>4. Attributes(c) /\ c.active = s.ctl.active /\ c.pub = s.ctl.pub
  BY DEF Typed, Attributes
<1>5. ss \in [ScanSlots -> ScanThreads]
  BY <1>3 DEF Typed
<1>6. t = [s EXCEPT !.ctl = c, !.scans = ss]
  BY <1>1
<1> HIDE DEF c, ss
<1>7. /\ Parts(t) /\ t.ctl = c /\ t.db = s.db /\ t.pubs = s.pubs
      /\ t.polls = s.polls /\ t.scans = ss /\ t.events = s.events
  BY <1>6 DEF Typed, Parts
<1>8. Calm(s, t)
  BY <1>4, <1>5, <1>7, SidesCalm DEF Typed
<1> QED
  BY <1>8 DEF t

-----------------------------------------------------------------------------
(* Opening queues. *)

\* The members of the order that are in C.
LEMMA OrderPart ==
  ASSUME NEW d, Sound(d), NEW C \in SUBSET Queues
  PROVE  /\ Only(d.order, C) \in Seq(C)
         /\ Enumerates(Only(d.order, C), Registered(d) \cap C)
<1>1. Enumerates(d.order, Registered(d)) /\ d.order \in Seq(Registered(d))
  BY DEF Sound, CompleteOrder, Enumerates
<1>2. Enumerates(Only(d.order, C), Registered(d) \cap C)
  BY <1>1, OnlyFacts
<1>3. Only(d.order, C) \in Seq(Registered(d) \cap C)
  BY <1>2 DEF Enumerates
<1> QED
  BY <1>2, <1>3

\* The smaller and the larger of two numbers.
LEMMA OfTwo ==
  ASSUME NEW i \in Int, NEW j \in Int
  PROVE  /\ Min({i, j}) = IF i <= j THEN i ELSE j
         /\ Max({i, j}) = IF i <= j THEN j ELSE i
<1>1. Min({i, j}) \in {i, j} /\ \A k \in {i, j} : Min({i, j}) <= k
  <2>1. \E x \in {i, j} : \A k \in {i, j} : x <= k
    BY DEF Min
  <2> QED
    BY <2>1 DEF Min
<1>2. Max({i, j}) \in {i, j} /\ \A k \in {i, j} : Max({i, j}) >= k
  <2>1. \E x \in {i, j} : \A k \in {i, j} : x >= k
    OBVIOUS
  <2> QED
    BY <2>1 DEF Max
<1> QED
  BY <1>1, <1>2

\* Opening the next queues.
LEMMA OpenNextCalm ==
  ASSUME NEW s, Typed(s), NEW count \in Int PROVE Calm(s, OpenNext(s, count))
<1> DEFINE C == {q \in Queues \ s.ctl.opened : s.db.total[q] > 0 /\ ~FolderDone(s.db, q)}
           A == ActiveCandidates(s.db)
           next == Only(A, C)
           picked == {next[k] : k \in 1..Min({count, Len(next)})}
           c == [s.ctl EXCEPT !.opened = @ \cup picked, !.open = @ \cup picked]
<1>1. C \in SUBSET Queues
  OBVIOUS
<1>2. A \in Seq(Queues)
  <2> DEFINE D == {q \in Queues : s.db.scan[q] \in {"SCANNING", "SCANNED"} /\ ~s.db.held[q]}
  <2>1. D \in SUBSET Queues /\ A = Only(s.db.order, D)
    BY DEF ActiveCandidates
  <2> HIDE DEF D, A
  <2>2. A \in Seq(D)
    BY <2>1, OrderPart DEF Typed
  <2> QED
    BY <2>1, <2>2
<1> HIDE DEF C, A
<1>3. next \in Seq(Queues \cap C)
  BY <1>2, OnlyFacts
<1> HIDE DEF next
<1>4. picked \subseteq Queues
  <2>1. Len(next) \in Nat /\ \A k \in 1..Len(next) : next[k] \in Queues
    BY <1>3
  <2>2. Min({count, Len(next)}) <= Len(next) /\ Min({count, Len(next)}) \in Int
    BY <2>1, OfTwo
  <2> QED
    BY <2>1, <2>2
<1>5. OpenNext(s, count) = [s EXCEPT !.ctl = c]
  BY DEF OpenNext, next, A, C
<1> HIDE DEF picked
<1>6. Attributes(c) /\ c.active = s.ctl.active /\ c.pub = s.ctl.pub
  BY <1>4 DEF Typed, Attributes
<1> HIDE DEF c
<1> QED
  BY <1>5, <1>6, CtlCalm

\* The open queues and the room for more.
LEMMA OpenSlotsInt == ASSUME NEW s, Typed(s) PROVE OpenSlots(s) \in Int
<1>1. s.ctl.open \in SUBSET Queues /\ IsFiniteSet(Queues) /\ MaxActive \in Int
  BY TablesAssumption, ControllerAssumption DEF Typed, Attributes
<1>2. Cardinality(s.ctl.open) \in Int
  BY <1>1, FS_Subset, FS_CardinalityType
<1> DEFINE n == MaxActive - Cardinality(s.ctl.open)
<1>3. n \in Int /\ OpenSlots(s) = Max({0, n})
  BY <1>1, <1>2 DEF OpenSlots
<1> HIDE DEF n
<1>4. Max({0, n}) = IF 0 <= n THEN n ELSE 0
  BY <1>3, OfTwo
<1> QED
  BY <1>3, <1>4

\* Queues that are done leave and others are opened.
LEMMA RefreshCalm == ASSUME NEW s, Typed(s) PROVE Calm(s, Refresh(s))
<1> DEFINE over == {q \in s.ctl.open :
                      \/ s.db.scan[q] \in {"EMPTY", "ERROR"}
                      \/ s.db.scan[q] = "SCANNED" /\ FolderDone(s.db, q)}
           c == [s.ctl EXCEPT !.open = @ \ over]
           left == [s EXCEPT !.ctl = c]
           count == Min({Cardinality(over), OpenSlots(left)})
<1>1. s.ctl.open \in SUBSET Queues /\ over \in SUBSET s.ctl.open
  BY DEF Typed, Attributes
<1>2. Refresh(s) = OpenNext(left, count)
  BY DEF Refresh
<1> HIDE DEF over
<1>3. Attributes(c) /\ c.active = s.ctl.active /\ c.pub = s.ctl.pub
  BY <1>1 DEF Typed, Attributes
<1> HIDE DEF c
<1>4. Calm(s, left)
  BY <1>3, CtlCalm
<1> HIDE DEF left
<1>5. Typed(left)
  BY <1>4 DEF Calm
<1>6. Cardinality(over) \in Int
  <2>1. over \in SUBSET Queues /\ IsFiniteSet(Queues)
    BY <1>1, TablesAssumption
  <2> QED
    BY <2>1, FS_Subset, FS_CardinalityType
<1>7. count \in Int
  BY <1>5, <1>6, OpenSlotsInt, OfTwo
<1> HIDE DEF count
<1> QED
  BY <1>2, <1>4, <1>5, <1>7, OpenNextCalm, CalmTrans

\* One more queue is opened.
LEMMA ExpandCalm == ASSUME NEW s, Typed(s) PROVE Calm(s, Expand(s))
BY OpenNextCalm, CalmSame DEF Expand

-----------------------------------------------------------------------------
(* The inventory. *)

\* A change of a scan state.
LEMMA SetScanCalm ==
  ASSUME NEW s, Typed(s), NEW q \in Queues, NEW state \in ScanStates \ {"NONE"}
  PROVE  Calm(s, [s EXCEPT !.db = SetScan(s.db, q, state)])
<1> DEFINE d == SetScan(s.db, q, state)
<1>1. Sound(d) /\ (CountersMatch(s.db) => CountersMatch(d))
  BY SetScanKept DEF Typed, Kept
<1>2. d.session = s.db.session /\ d.resume = s.db.resume /\ d.tasks = s.db.tasks
  BY DEF Typed, Sound, TypedTables, HasColumns, SetScan
<1>3. Claims(d) = Claims(s.db)
  BY <1>2 DEF Claims, RowsIn, Rows
<1> HIDE DEF d
<1>4. Calm(s, [s EXCEPT !.db = d])
  BY <1>1, <1>2, <1>3, TablesCalm
<1> QED
  BY <1>4 DEF d

\* The rows copied from another queue are not claimed.
LEMMA PopulateFields ==
  ASSUME NEW d, Sound(d), NEW q \in Queues
  PROVE  LET m == Populate(d, q)
         IN  /\ m.session = d.session /\ m.resume = d.resume
             /\ Claims(m) \subseteq Claims(d)
<1> DEFINE r == Head(Siblings(d, q))
           N == NewRows(d, q, {t.image : t \in RowsOf(d, r)})
           m == Populated(d, q, N)
           e == SetScan(d, q, "EMPTY")
<1>1. e.session = d.session /\ e.resume = d.resume /\ Claims(e) = Claims(d)
  BY DEF Sound, TypedTables, HasColumns, SetScan, Claims, RowsIn, Rows
<1>2. Populate(d, q) \in {d, e, m}
  BY DEF Populate
<1> HIDE DEF N, r, e
<1>3. m.session = d.session /\ m.resume = d.resume /\ m.tasks = WithRows(d, N)
  BY DEF Sound, TypedTables, HasColumns, Populated
<1>4. Claims(m) \subseteq Claims(d)
  BY <1>3 DEF Claims, RowsIn, Rows, WithRows
<1> HIDE DEF m
<1> QED
  BY <1>1, <1>2, <1>3, <1>4

\* A queue with a sibling has a source that is not its own.
LEMMA NoSibling ==
  ASSUME NEW d, Sound(d), NEW q \in Queues, OwnSources PROVE ~CanPopulate(d, q)
<1> DEFINE C == {r \in Queues \ {q} : /\ SourceOf[r] = SourceOf[q]
                                      /\ d.scan[r] \in {"SCANNED", "EMPTY"}}
<1>1. C = {} /\ Siblings(d, q) = Only(d.order, C)
  BY DEF OwnSources, Siblings
<1> HIDE DEF C
<1>2. Siblings(d, q) \in Seq({})
  BY <1>1, OrderPart
<1>3. Siblings(d, q) = << >>
  BY <1>2
<1> QED
  BY <1>3 DEF CanPopulate

\* A visit to a waiting queue.
LEMMA VisitCalm ==
  ASSUME NEW s, Typed(s), NEW q \in Queues PROVE Calm(s, Visit(s, q))
<1>1. ASSUME CanPopulate(s.db, q)
      PROVE  Calm(s, [s EXCEPT !.db = Populate(s.db, q)])
  <2>1. Sound(Populate(s.db, q))
    BY PopulateKept DEF Typed
  <2>2. LET m == Populate(s.db, q)
        IN  /\ m.session = s.db.session /\ m.resume = s.db.resume
            /\ Claims(m) \subseteq Claims(s.db)
    BY PopulateFields DEF Typed
  <2>3. ~OwnSources
    BY <1>1, NoSibling DEF Typed
  <2> QED
    BY <2>1, <2>2, <2>3, TablesCalm
<1>2. Calm(s, StartScan([s EXCEPT !.db = SetScan(s.db, q, "SCANNING")], q))
  <2> DEFINE r == [s EXCEPT !.db = SetScan(s.db, q, "SCANNING")]
  <2>1. Calm(s, r)
    BY SetScanCalm DEF ScanStates
  <2> HIDE DEF r
  <2>2. Calm(r, StartScan(r, q))
    BY <2>1, StartScanCalm DEF Calm
  <2>3. Calm(s, StartScan(r, q))
    BY <2>1, <2>2, CalmTrans
  <2> QED
    BY <2>3 DEF r
<1> QED
  BY <1>1, <1>2, CalmSame DEF Visit

\* f[i] is the situation after the first i visits to the queues of list.
Visits(f, n, s, list) ==
  f = [i \in 0..n |-> IF i = 0 THEN s ELSE Visit(f[i-1], list[i])]

\* The recursion over the waiting queues has a solution.
LEMMA VisitsExist ==
  ASSUME NEW n \in Nat, NEW s, NEW list PROVE \E f : Visits(f, n, s, list)
<1> DEFINE G == {m \in 0..n : \E f : Visits(f, m, s, list)}
<1>1. 0 \in G
  <2>1. Visits([i \in 0..0 |-> s], 0, s, list)
    BY DEF Visits
  <2> QED
    BY <2>1
<1>2. ASSUME NEW m \in 0..n, m < n, m \in G PROVE m + 1 \in G
  <2>1. PICK f : Visits(f, m, s, list)
    BY <1>2
  <2> DEFINE last == Visit(f[m], list[m + 1])
             g == [i \in 0..m+1 |-> IF i = m + 1 THEN last ELSE f[i]]
  <2>2. \A i \in 0..m : g[i] = f[i]
    OBVIOUS
  <2>3. g[m + 1] = Visit(f[m], list[m + 1])
    OBVIOUS
  <2>4. DOMAIN g = 0..m+1 /\ g = [i \in 0..m+1 |-> g[i]]
    OBVIOUS
  <2> HIDE DEF g, last
  <2>5. \A i \in 0..m : f[i] = IF i = 0 THEN s ELSE Visit(f[i-1], list[i])
    BY <2>1 DEF Visits
  <2>6. ASSUME NEW i \in 0..m+1
        PROVE  g[i] = IF i = 0 THEN s ELSE Visit(g[i-1], list[i])
    <3>1. CASE i = m + 1
      <4>1. i - 1 = m /\ g[i-1] = f[m] /\ i # 0
        BY <2>2, <3>1
      <4> QED
        BY <2>3, <3>1, <4>1
    <3>2. CASE i = 0
      BY <2>2, <2>5, <3>2
    <3>3. CASE i # m + 1 /\ i # 0
      <4>1. i \in 0..m /\ i - 1 \in 0..m
        BY <3>3
      <4>2. g[i] = f[i] /\ g[i-1] = f[i-1]
        BY <2>2, <4>1
      <4> QED
        BY <2>5, <3>3, <4>1, <4>2
    <3> QED
      BY <3>1, <3>2, <3>3
  <2>7. Visits(g, m + 1, s, list)
    BY <2>4, <2>6 DEF Visits
  <2>8. m + 1 \in 0..n
    BY <1>2
  <2> QED
    BY <2>7, <2>8
<1>3. 0..n \subseteq G
  <2> HIDE DEF G
  <2> QED
    BY <1>1, <1>2, Upward
<1>4. n \in G
  BY <1>3
<1> QED
  BY <1>4

\* The round over the waiting queues.
LEMMA SweepCalm == ASSUME NEW s, Typed(s) PROVE Calm(s, Sweep(s))
<1> DEFINE waiting == Waiting(s.db)
           n == Len(waiting)
           after[i \in 0..Len(waiting)] ==
             IF i = 0 THEN s ELSE Visit(after[i-1], waiting[i])
<1>1. waiting \in Seq(Queues)
  <2> DEFINE C == {q \in Queues : s.db.scan[q] \in {"WAITING"}}
  <2>1. C \in SUBSET Queues /\ waiting = Only(s.db.order, C)
    BY DEF Waiting, InState
  <2> HIDE DEF C, waiting
  <2>2. waiting \in Seq(C)
    BY <2>1, OrderPart DEF Typed
  <2> QED
    BY <2>1, <2>2
<1>2. Sweep(s) = after[n]
  BY DEF Sweep
<1> HIDE DEF waiting
<1>3. n \in Nat /\ \A i \in 1..n : waiting[i] \in Queues
  BY <1>1
<1>4. PICK f : Visits(f, n, s, waiting)
  BY <1>3, VisitsExist
<1>5. f = [i \in 0..n |-> IF i = 0 THEN s ELSE Visit(f[i-1], waiting[i])]
  BY <1>4 DEF Visits
<1> HIDE DEF after
<1>6. after = [i \in 0..n |-> IF i = 0 THEN s ELSE Visit(after[i-1], waiting[i])]
  BY <1>5 DEF after
<1> HIDE DEF n
<1> DEFINE G == {i \in 0..n : Calm(s, after[i])}
<1>7. 0 \in G
  <2>1. after[0] = s
    BY <1>3, <1>6
  <2> QED
    BY <1>3, <2>1, CalmSame
<1>8. ASSUME NEW i \in 0..n, i < n, i \in G PROVE i + 1 \in G
  <2>1. i + 1 \in 0..n /\ i + 1 # 0 /\ (i + 1) - 1 = i /\ waiting[i + 1] \in Queues
    BY <1>3, <1>8
  <2>2. after[i + 1] = Visit(after[i], waiting[i + 1])
    BY <1>6, <2>1
  <2>3. Calm(s, after[i]) /\ Typed(after[i])
    BY <1>8 DEF Calm
  <2>4. Calm(after[i], after[i + 1])
    BY <2>1, <2>2, <2>3, VisitCalm
  <2>5. Calm(s, after[i + 1])
    BY <2>3, <2>4, CalmTrans
  <2> QED
    BY <2>1, <2>5
<1>9. n \in G
  <2> HIDE DEF G
  <2>1. 0..n \subseteq G
    BY <1>3, <1>7, <1>8, Upward
  <2> QED
    BY <1>3, <2>1
<1> QED
  BY <1>2, <1>9

-----------------------------------------------------------------------------
(* The dispatcher. *)

\* What keeps a situation fit when the tables and the attributes change.
LEMMA SetFit ==
  ASSUME NEW s, Fit(s), NEW t, Parts(t), t.pubs = s.pubs, t.polls = s.polls,
         t.scans = s.scans, t.events = s.events, Attributes(t.ctl), Sound(t.db),
         t.ctl.pub = s.ctl.pub \/ Silent(s),
         t.ctl.active => t.db.session = "ACTIVE" /\ t.db.resume,
         t.db.session = "PAUSED_BY_USER" => Claims(t.db) = {} /\ Silent(s),
         OwnSources => (CountersMatch(s.db) => CountersMatch(t.db))
  PROVE  Fit(t) /\ (Silent(s) => Silent(t))
<1>1. Typed(t)
  BY DEF Fit, Typed
<1>2. \A p \in PubSlots : Sends(t, p) <=> Sends(s, p)
  BY DEF Sends
<1> QED
  BY <1>1, <1>2 DEF Fit, Silent

\* The claims after their release.
LEMMA Released ==
  ASSUME NEW d, Sound(d)
  PROVE  LET m == ReleaseClaimed(d)
         IN  /\ Kept(d, m) /\ m.session = d.session /\ m.resume = d.resume
             /\ Claims(m) = {}
<1> DEFINE m == ReleaseClaimed(d)
           T == RowsIn(d, {"CLAIMED"})
<1>1. Kept(d, m)
  BY ReleaseKept
<1>2. TypedTables(d)
  BY DEF Sound
<1>3. m = Move(d, T, "PENDING")
  BY DEF ReleaseClaimed
<1> HIDE DEF T, m
<1>4. /\ m.session = d.session /\ m.resume = d.resume
      /\ m.tasks = MovedTasks(d, T, "PENDING") /\ Rows(m) = Rows(d)
  BY <1>2, <1>3, MoveFields, MoveRows
<1>5. Claims(m) = {}
  BY <1>4 DEF Claims, RowsIn, MovedTasks, Rows, T
<1> QED
  BY <1>1, <1>4, <1>5 DEF m

\* The claims of a paused session.
LEMMA PausedFields ==
  ASSUME NEW d, Sound(d)
  PROVE  LET m == PauseByUser(d)
         IN  Kept(d, m) /\ m.session = "PAUSED_BY_USER" /\ Claims(m) = {}
<1> DEFINE r == ReleaseClaimed(d)
           m == PauseByUser(d)
<1>1. Kept(d, m) /\ Sound(r) /\ Claims(r) = {}
  BY PauseKept, Released DEF Kept
<1>2. m = [r EXCEPT !.session = "PAUSED_BY_USER", !.resume = TRUE]
  BY DEF PauseByUser
<1> HIDE DEF r, m
<1>3. m.session = "PAUSED_BY_USER" /\ m.tasks = r.tasks
  BY <1>1, <1>2 DEF Sound, TypedTables, HasColumns
<1>4. Claims(m) = Claims(r)
  BY <1>3 DEF Claims, RowsIn, Rows
<1> QED
  BY <1>1, <1>3, <1>4 DEF m

\* A completed session.
LEMMA CompletedFields ==
  ASSUME NEW d, Sound(d)
  PROVE  LET m == CompleteSession(d)
         IN  Kept(d, m) /\ m.session = "COMPLETED" /\ Claims(m) = Claims(d)
<1> DEFINE m == CompleteSession(d)
<1>1. m.session = "COMPLETED" /\ m.tasks = d.tasks
  BY DEF Sound, TypedTables, HasColumns, CompleteSession
<1>2. Claims(m) = Claims(d)
  BY <1>1 DEF Claims, RowsIn, Rows
<1> QED
  BY <1>1, <1>2, CompleteKept

\* The run ends because the session is paused or completed.
LEMMA EndedFit ==
  ASSUME NEW s, Fit(s), NEW d, Sound(d), OwnSources => (CountersMatch(s.db) => CountersMatch(d)),
         d.session = "PAUSED_BY_USER" => Claims(d) = {} /\ Silent(s)
  PROVE  Fit([Deactivated(s) EXCEPT !.db = d])
<1> DEFINE c == [s.ctl EXCEPT !.active = FALSE, !.pubDone = TRUE]
           t == [s EXCEPT !.ctl = c, !.db = d]
<1>1. Attributes(c) /\ c.active = FALSE /\ c.pub = s.ctl.pub
  BY DEF Fit, Typed, Attributes
<1>2. [Deactivated(s) EXCEPT !.db = d] = t
  BY DEF Deactivated
<1> HIDE DEF c
<1>3. /\ Parts(t) /\ t.ctl = c /\ t.db = d /\ t.pubs = s.pubs
      /\ t.polls = s.polls /\ t.scans = s.scans /\ t.events = s.events
  BY DEF Fit, Typed, Parts
<1> HIDE DEF t
<1>4. Fit(t)
  BY <1>1, <1>3, SetFit
<1> QED
  BY <1>2, <1>4

\* Nothing could be claimed.
LEMMA NothingToClaimFit ==
  ASSUME NEW s, Fit(s), Silent(s) PROVE Fit(NothingToClaim(s))
<1> DEFINE a == [Deactivated(s) EXCEPT !.db = PauseByUser(s.db)]
           c == [s.ctl EXCEPT !.pubDone = TRUE]
           e == [s EXCEPT !.ctl = c]
           r == PollChecked(e)
           z == [Deactivated(r) EXCEPT !.db = CompleteSession(r.db)]
<1>1. Fit(StopPolling(PollChecked(a)))
  <2>1. Fit(a)
    BY PausedFields, EndedFit DEF Fit, Typed, Kept
  <2> HIDE DEF a
  <2> QED
    BY <2>1, PollCheckedCalm, StopPollingCalm, CalmFit DEF Fit
<1>2. Attributes(c) /\ c.active = s.ctl.active /\ c.pub = s.ctl.pub
  BY DEF Fit, Typed, Attributes
<1>3. NothingToClaim(s) \in {s, StopPolling(PollChecked(a)), StopPolling(r), z}
  BY DEF NothingToClaim
<1> HIDE DEF c, a
<1>4. Calm(s, e)
  BY <1>2, CtlCalm DEF Fit
<1> HIDE DEF e
<1>5. Fit(e)
  BY <1>4, CalmFit
<1>6. Fit(r)
  BY <1>5, PollCheckedCalm, CalmFit DEF Fit
<1> HIDE DEF r
<1>7. Fit(StopPolling(r))
  BY <1>6, StopPollingCalm, CalmFit DEF Fit
<1>8. Fit(z)
  BY <1>6, CompletedFields, EndedFit DEF Fit, Typed, Kept
<1> HIDE DEF z
<1> QED
  BY <1>1, <1>3, <1>7, <1>8

\* A publisher is started when nobody sends.
LEMMA StartPublisherFit ==
  ASSUME NEW s, Fit(s), Silent(s), s.ctl.active, NEW todo \in Seq(Requests)
  PROVE  Fit(StartPublisher(s, todo))
<1> DEFINE p == Lowest(FreePubs(s))
           th == [NoThread EXCEPT !.run = "connecting", !.todo = todo]
           c == [s.ctl EXCEPT !.pub = p, !.pubDone = FALSE]
           ps == [s.pubs EXCEPT ![p] = th]
           t == StartPublisher(s, todo)
<1>1. t = [s EXCEPT !.ctl.pub = p, !.ctl.pubDone = FALSE, !.pubs[p] = th]
  BY DEF StartPublisher
<1>2. th \in PubThreads
  BY NewThreads
<1> HIDE DEF p, th, t
<1>3. Attributes(c) /\ c.active = s.ctl.active /\ c.pub = p
  BY DEF Fit, Typed, Attributes
<1>4. ps \in [PubSlots -> PubThreads]
  BY <1>2 DEF Fit, Typed
<1>5. \A k \in PubSlots : k # p => ps[k] = s.pubs[k]
  BY DEF Fit, Typed
<1>6. t = [s EXCEPT !.ctl = c, !.pubs = ps]
  BY <1>1
<1> HIDE DEF c, ps
<1>7. /\ Parts(t) /\ t.ctl = c /\ t.db = s.db /\ t.pubs = ps
      /\ t.polls = s.polls /\ t.scans = s.scans /\ t.events = s.events
  BY <1>6 DEF Fit, Typed, Parts
<1>8. Typed(t)
  BY <1>3, <1>4, <1>7 DEF Fit, Typed
<1>9. \A k \in PubSlots : Sends(t, k) => t.ctl.pub = k
  BY <1>3, <1>5, <1>7 DEF Silent, Sends
<1>10. Fit(t)
  BY <1>3, <1>7, <1>8, <1>9 DEF Fit
<1> QED
  BY <1>10 DEF t

\* The rows claimed are among those that are pending.
LEMMA ClaimFields ==
  ASSUME NEW d, Sound(d), NEW F, NEW limit
  PROVE  LET T == ClaimBatch(d, F, limit)
             m == Claim(d, T)
         IN  /\ T \in SUBSET Rows(d) /\ Listed(d, T) \in Seq(Requests)
             /\ Kept(d, m) /\ m.session = d.session /\ m.resume = d.resume
<1> DEFINE T == ClaimBatch(d, F, limit)
           m == Claim(d, T)
<1>1. T \in SUBSET Rows(d)
  BY DEF ClaimBatch, RowsIn
<1> HIDE DEF T
<1>2. Listed(d, T) \in Seq(Requests)
  BY <1>1, ListedFacts
<1>3. Kept(d, m)
  BY <1>1, MoveKept DEF Claim, Statuses, Unfinished
<1>4. m.session = d.session /\ m.resume = d.resume
  BY MoveFields DEF Claim, Sound
<1> QED
  BY <1>1, <1>2, <1>3, <1>4 DEF T

\* A chunk is claimed and its publisher started.
LEMMA ClaimAndPublishFit ==
  ASSUME NEW s, Fit(s), Silent(s), s.ctl.active PROVE Fit(ClaimAndPublish(s))
<1> DEFINE T == ClaimBatch(s.db, s.ctl.open, Capacity(s))
           d == Claim(s.db, T)
           t == [s EXCEPT !.db = d]
           todo == Listed(s.db, T)
<1>1. /\ todo \in Seq(Requests) /\ Kept(s.db, d)
      /\ d.session = s.db.session /\ d.resume = s.db.resume
  BY ClaimFields DEF Fit, Typed
<1>2. ClaimAndPublish(s) \in {s, NothingToClaim(s), StartPublisher(t, todo)}
  BY DEF ClaimAndPublish
<1> HIDE DEF T, d, todo
<1>3. /\ Parts(t) /\ t.ctl = s.ctl /\ t.db = d /\ t.pubs = s.pubs
      /\ t.polls = s.polls /\ t.scans = s.scans /\ t.events = s.events
  BY DEF Fit, Typed, Parts
<1> HIDE DEF t
<1>4. t.db.session = "ACTIVE" /\ t.db.resume
  BY <1>1, <1>3 DEF Fit
<1>5. Fit(t) /\ Silent(t) /\ t.ctl.active
  BY <1>1, <1>3, <1>4, SetFit DEF Kept, Fit, Typed
<1>6. Fit(StartPublisher(t, todo))
  BY <1>1, <1>5, StartPublisherFit
<1> QED
  BY <1>2, <1>6, NothingToClaimFit

\* The dispatcher, from whatever it is called.
LEMMA DispatchFit == ASSUME NEW s, Fit(s) PROVE Fit(Dispatch(s))
<1> DEFINE a == PubChecked(s)
           b == Refresh(a)
           e == Expand(b)
<1>1. CASE ~s.ctl.active \/ s.ctl.preparing \/ PubRunning(s)
  BY <1>1 DEF Dispatch
<1>2. CASE s.ctl.active /\ ~s.ctl.preparing /\ ~PubRunning(s)
  <2>1. Silent(s)
    BY <1>2, EndedSilent
  <2>2. Calm(s, a)
    BY PubCheckedCalm
  <2>3. Dispatch(s) = ClaimAndPublish(e)
    BY <1>2 DEF Dispatch
  <2> HIDE DEF a
  <2>4. Calm(a, b) /\ Calm(b, e)
    BY <2>2, RefreshCalm, ExpandCalm DEF Calm
  <2> HIDE DEF b, e
  <2>5. Calm(s, e)
    BY <2>2, <2>4, CalmTrans
  <2>6. Fit(e) /\ Silent(e)
    BY <2>1, <2>5, CalmFit DEF Calm, Silent
  <2>7. e.ctl.active
    BY <1>2, <2>5 DEF Calm
  <2> QED
    BY <2>3, <2>6, <2>7, ClaimAndPublishFit
<1> QED
  BY <1>1, <1>2

-----------------------------------------------------------------------------
(* The inventory and the start of a run. *)

\* What follows the inventory.
LEMMA PreparedFit == ASSUME NEW s, Fit(s) PROVE Fit(Prepared(s))
<1> DEFINE c == [s.ctl EXCEPT !.confirmed = TRUE]
           e == [s EXCEPT !.ctl = c]
           t == OpenNext(e, MaxInitial)
<1>1. Attributes(c) /\ c.active = s.ctl.active /\ c.pub = s.ctl.pub
  BY DEF Fit, Typed, Attributes
<1>2. Prepared(s) = Dispatch(t)
  BY DEF Prepared
<1> HIDE DEF c
<1>3. Calm(s, e)
  BY <1>1, CtlCalm DEF Fit
<1> HIDE DEF e
<1>4. MaxInitial \in Int
  BY ControllerAssumption
<1>5. Calm(e, t)
  BY <1>3, <1>4, OpenNextCalm DEF Calm
<1> HIDE DEF t
<1> QED
  BY <1>2, <1>3, <1>5, CalmFit, DispatchFit

\* The inventory goes on.
LEMMA InventoryFit == ASSUME NEW s, Fit(s) PROVE Fit(Inventory(s))
<1> DEFINE swept == Sweep(s)
           c == [swept.ctl EXCEPT !.preparing = FALSE]
           ready == [swept EXCEPT !.ctl = c]
           e == [ready.ctl EXCEPT !.asking = TRUE]
           asked == [ready EXCEPT !.ctl = e]
<1>1. Inventory(s) \in {s, swept, asked, Prepared(ready)}
  BY DEF Inventory
<1>2. Calm(s, swept)
  BY SweepCalm DEF Fit
<1> HIDE DEF swept
<1>3. Fit(swept)
  BY <1>2, CalmFit
<1>4. Attributes(c) /\ c.active = swept.ctl.active /\ c.pub = swept.ctl.pub
  BY <1>3 DEF Fit, Typed, Attributes
<1> HIDE DEF c
<1>5. Fit(ready)
  BY <1>3, <1>4, CtlCalm, CalmFit DEF Fit
<1> HIDE DEF ready
<1>6. Attributes(e) /\ e.active = ready.ctl.active /\ e.pub = ready.ctl.pub
  BY <1>5 DEF Fit, Typed, Attributes
<1> HIDE DEF e
<1>7. Fit(asked)
  BY <1>5, <1>6, CtlCalm, CalmFit DEF Fit
<1> HIDE DEF asked
<1> QED
  BY <1>1, <1>3, <1>5, <1>7, PreparedFit

\* The settings saved at the start of a run.
LEMMA SavedFields ==
  ASSUME NEW d, Sound(d)
  PROVE  LET m == SaveSettings(d)
         IN  /\ Kept(d, m) /\ m.session = "ACTIVE" /\ m.resume
             /\ Claims(m) = Claims(d)
<1> DEFINE m == SaveSettings(d)
<1>1. m.session = "ACTIVE" /\ m.resume = TRUE /\ m.tasks = d.tasks
  BY DEF Sound, TypedTables, HasColumns, SaveSettings
<1>2. Claims(m) = Claims(d)
  BY <1>1 DEF Claims, RowsIn, Rows
<1> QED
  BY <1>1, <1>2, SaveKept

\* The run has begun: its settings are saved and its schedule is empty.
RunBegun(s) ==
  [s EXCEPT !.db = SaveSettings(s.db),
            !.ctl = [s.ctl EXCEPT !.preparing = FALSE, !.opened = {}, !.open = {},
                       !.confirmed = HasInflight(s.db), !.active = TRUE, !.pubDone = TRUE]]
\* The poller is there if anything is out.
RunPolled(s) ==
  IF HasInflight(s.db) THEN EnsurePoller(PollChecked(RunBegun(s))) ELSE RunBegun(s)

\* The start of a run, step by step.
LEMMA RunBegins ==
  ASSUME NEW s, Fit(s)
  PROVE  StartSession(s) \in {s, Inventory([RunPolled(s) EXCEPT !.ctl.preparing = TRUE])}
<1> DEFINE inflight == HasInflight(s.db)
           d == SaveSettings(s.db)
           c == [s.ctl EXCEPT !.preparing = FALSE, !.opened = {}, !.open = {},
                   !.confirmed = inflight, !.active = TRUE, !.pubDone = TRUE]
           r == [s EXCEPT !.db = d, !.ctl = c]
           e0 == [ResetSchedule(s) EXCEPT !.db = SaveSettings(s.db),
                    !.ctl.confirmed = inflight, !.ctl.active = TRUE, !.ctl.pubDone = TRUE]
           p0 == IF inflight THEN EnsurePoller(PollChecked(e0)) ELSE e0
<1>1. StartSession(s) \in {s, Inventory([p0 EXCEPT !.ctl.preparing = TRUE])}
  BY DEF StartSession
<1>2. r = RunBegun(s)
  BY DEF RunBegun
<1> HIDE DEF inflight
<1>3. e0 = r
  <2> DEFINE c0 == [s.ctl EXCEPT !.preparing = FALSE, !.opened = {}, !.open = {}]
             s0 == [s EXCEPT !.ctl = c0]
  <2>1. ResetSchedule(s) = s0
    BY DEF ResetSchedule
  <2>2. s0.ctl = c0
    BY DEF Fit, Typed, Parts
  <2> DEFINE c1 == [s0.ctl EXCEPT !.confirmed = inflight, !.active = TRUE, !.pubDone = TRUE]
  <2>3. e0 = [s0 EXCEPT !.db = d, !.ctl = c1]
    BY <2>1
  <2>4. c1 = c
    BY <2>2 DEF Fit, Typed, Attributes
  <2> HIDE DEF c1, c
  <2>5. [s0 EXCEPT !.db = d, !.ctl = c1] = [s EXCEPT !.db = d, !.ctl = c]
    BY <2>4 DEF Fit, Typed, Parts
  <2> QED
    BY <2>3, <2>5
<1> HIDE DEF e0, r
<1>4. p0 = RunPolled(s)
  BY <1>2, <1>3 DEF RunPolled, inflight
<1> HIDE DEF p0
<1> QED
  BY <1>1, <1>4

LEMMA RunBegunFit ==
  ASSUME NEW s, Fit(s)
  PROVE  LET r == RunBegun(s)
         IN  /\ Fit(r) /\ r.db = SaveSettings(s.db) /\ r.pubs = s.pubs /\ r.events = s.events
             /\ r.ctl.active /\ r.ctl.pubDone /\ r.ctl.open = {} /\ r.ctl.pub = s.ctl.pub
<1> DEFINE inflight == HasInflight(s.db)
           c == [s.ctl EXCEPT !.preparing = FALSE, !.opened = {}, !.open = {},
                   !.confirmed = inflight, !.active = TRUE, !.pubDone = TRUE]
           d == SaveSettings(s.db)
           r == [s EXCEPT !.db = d, !.ctl = c]
<1>1. r = RunBegun(s)
  BY DEF RunBegun
<1>2. inflight \in BOOLEAN
  BY DEF HasInflight
<1> HIDE DEF inflight
<1>3. /\ Attributes(c) /\ c.pub = s.ctl.pub /\ c.active = TRUE /\ c.pubDone = TRUE
      /\ c.open = {}
  BY <1>2 DEF Fit, Typed, Attributes
<1>4. Kept(s.db, d) /\ d.session = "ACTIVE" /\ d.resume
  BY SavedFields DEF Fit, Typed
<1> HIDE DEF c, d
<1>5. /\ Parts(r) /\ r.ctl = c /\ r.db = d /\ r.pubs = s.pubs
      /\ r.polls = s.polls /\ r.scans = s.scans /\ r.events = s.events
  BY DEF Fit, Typed, Parts
<1> HIDE DEF r
<1>6. Fit(r)
  BY <1>3, <1>4, <1>5, SetFit DEF Kept
<1> QED
  BY <1>1, <1>3, <1>5, <1>6 DEF d

\* The start of a run.
LEMMA StartSessionFit == ASSUME NEW s, Fit(s) PROVE Fit(StartSession(s))
<1> DEFINE polled == RunPolled(s)
           e == [polled.ctl EXCEPT !.preparing = TRUE]
           t == [polled EXCEPT !.ctl = e]
<1>1. StartSession(s) \in {s, Inventory(t)}
  <2>1. StartSession(s) \in {s, Inventory([polled EXCEPT !.ctl.preparing = TRUE])}
    BY RunBegins
  <2>2. [polled EXCEPT !.ctl.preparing = TRUE] = t
    OBVIOUS
  <2> HIDE DEF t, polled
  <2> QED
    BY <2>1, <2>2
<1>2. Fit(RunBegun(s))
  BY RunBegunFit
<1>3. Fit(EnsurePoller(PollChecked(RunBegun(s))))
  BY <1>2, PollCheckedCalm, EnsurePollerCalm, CalmFit DEF Fit
<1>4. Fit(polled)
  BY <1>2, <1>3 DEF RunPolled
<1> HIDE DEF polled
<1>5. Attributes(e) /\ e.active = polled.ctl.active /\ e.pub = polled.ctl.pub
  BY <1>4 DEF Fit, Typed, Attributes
<1> HIDE DEF e
<1>6. Fit(t)
  BY <1>4, <1>5, CtlCalm, CalmFit DEF Fit
<1> HIDE DEF t
<1> QED
  BY <1>1, <1>6, InventoryFit

\* The resumption of a run after a start of the program.
LEMMA ResumePersistedFit == ASSUME NEW s, Fit(s) PROVE Fit(ResumePersisted(s))
BY StartSessionFit DEF ResumePersisted

-----------------------------------------------------------------------------
(* The slots that the signals reach. *)

\* Rows that take a status other than CLAIMED.
LEMMA MovedCalm ==
  ASSUME NEW s, Typed(s), NEW T \in SUBSET Rows(s.db),
         NEW target \in Statuses \ {"CLAIMED"}
  PROVE  Calm(s, [s EXCEPT !.db = Move(s.db, T, target)])
<1> DEFINE d == Move(s.db, T, target)
<1>1. Sound(d) /\ (CountersMatch(s.db) => CountersMatch(d))
  BY MoveKept DEF Typed, Kept
<1>2. /\ d.session = s.db.session /\ d.resume = s.db.resume
      /\ d.tasks = MovedTasks(s.db, T, target) /\ Rows(d) = Rows(s.db)
  BY MoveFields, MoveRows DEF Typed, Sound
<1>3. Claims(d) \subseteq Claims(s.db)
  BY <1>2 DEF Claims, RowsIn, Rows, MovedTasks
<1> HIDE DEF d
<1>4. Calm(s, [s EXCEPT !.db = d])
  BY <1>1, <1>2, <1>3, TablesCalm
<1> QED
  BY <1>4 DEF d

\* The tables put in place of themselves.
LEMMA SameTables == ASSUME NEW s, Typed(s) PROVE [s EXCEPT !.db = s.db] = s
BY DEF Typed, Parts

\* One row that takes a status other than CLAIMED, if it may.
LEMMA TransitionCalm ==
  ASSUME NEW s, Typed(s), NEW t, NEW target \in Statuses \ {"CLAIMED"}, NEW allowed
  PROVE  Calm(s, [s EXCEPT !.db = Transition(s.db, t, target, allowed)])
<1>1. CASE t \in RowsIn(s.db, allowed)
  <2>1. {t} \in SUBSET Rows(s.db)
    BY <1>1 DEF RowsIn
  <2>2. Transition(s.db, t, target, allowed) = Move(s.db, {t}, target)
    BY <1>1 DEF Transition
  <2> QED
    BY <2>1, <2>2, MovedCalm
<1>2. CASE t \notin RowsIn(s.db, allowed)
  <2>1. Transition(s.db, t, target, allowed) = s.db
    BY <1>2 DEF Transition
  <2> QED
    BY <2>1, SameTables, CalmSame
<1> QED
  BY <1>1, <1>2

\* The statuses that requests take from the signals.
LEMMA Targets ==
  {"SENT", "ERROR", "RUNNING", "TIMEOUT", "SUCCESS", "FAIL", "PENDING"}
    \subseteq Statuses \ {"CLAIMED"}
BY DEF Statuses, Unfinished, Terminal

\* queue_ready
LEMMA OnQueueReadyCalm == ASSUME NEW s, Typed(s) PROVE Calm(s, OnQueueReady(s))
<1>1. Calm(s, PollChecked(s))
  BY PollCheckedCalm
<1>2. Calm(PollChecked(s), OnQueueReady(s))
  BY <1>1, EnsurePollerCalm DEF Calm, OnQueueReady
<1> QED
  BY <1>1, <1>2, CalmTrans

\* message_published
LEMMA OnPublishedCalm == ASSUME NEW s, Typed(s), NEW t PROVE Calm(s, OnPublished(s, t))
<1> DEFINE r == [s EXCEPT !.db = MarkSent(s.db, t)]
           n == IF s.ctl.queued = Unknown THEN s.ctl.queued
                                          ELSE Min({s.ctl.queued + 1, Fallback})
           c == [r.ctl EXCEPT !.queued = n]
<1>1. OnPublished(s, t) = [r EXCEPT !.ctl = c]
  <2>1. r.ctl = s.ctl
    BY DEF Typed, Parts
  <2> HIDE DEF n
  <2>2. [s EXCEPT !.db = MarkSent(s.db, t), !.ctl.queued = n] = [r EXCEPT !.ctl = c]
    BY <2>1
  <2>3. OnPublished(s, t) = [s EXCEPT !.db = MarkSent(s.db, t), !.ctl.queued = n]
    BY DEF OnPublished, n
  <2> QED
    BY <2>2, <2>3
<1>2. Calm(s, r)
  BY TransitionCalm, Targets DEF MarkSent
<1>3. n \in Nat \cup {Unknown}
  <2>1. s.ctl.queued \in Nat \cup {Unknown} /\ Fallback \in Nat
    BY ControllerAssumption DEF Typed, Attributes
  <2>2. CASE s.ctl.queued = Unknown
    BY <2>1, <2>2
  <2>3. CASE s.ctl.queued # Unknown
    <3>1. s.ctl.queued + 1 \in Nat
      BY <2>1, <2>3
    <3>2. Min({s.ctl.queued + 1, Fallback}) \in Nat
      <4> DEFINE i == s.ctl.queued + 1
      <4> HIDE DEF i
      <4>1. Min({i, Fallback}) = IF i <= Fallback THEN i ELSE Fallback
        BY <2>1, <3>1, OfTwo DEF i
      <4>2. Min({i, Fallback}) \in Nat
        BY <2>1, <3>1, <4>1 DEF i
      <4> QED
        BY <4>2 DEF i
    <3> QED
      BY <2>3, <3>2
  <2> QED
    BY <2>2, <2>3
<1> HIDE DEF r, n
<1>4. Attributes(c) /\ c.active = r.ctl.active /\ c.pub = r.ctl.pub
  BY <1>2, <1>3 DEF Calm, Typed, Attributes
<1> HIDE DEF c
<1>5. Calm(r, [r EXCEPT !.ctl = c])
  BY <1>2, <1>4, CtlCalm DEF Calm
<1> QED
  BY <1>1, <1>2, <1>5, CalmTrans

\* message_failed
LEMMA OnFailedCalm == ASSUME NEW s, Typed(s), NEW t PROVE Calm(s, OnFailed(s, t))
BY TransitionCalm, Targets DEF OnFailed, MarkError

\* result_received
LEMMA OnResultFit ==
  ASSUME NEW s, Fit(s), NEW t, NEW verdict \in Verdicts PROVE Fit(OnResult(s, t, verdict))
<1> DEFINE r == [s EXCEPT !.db = ApplyResult(s.db, t, verdict)]
<1>1. verdict \in Statuses \ {"CLAIMED"}
  BY SessionAssumption, Targets
<1>2. Calm(s, r)
  BY <1>1, TransitionCalm DEF ApplyResult, Fit
<1>3. OnResult(s, t, verdict) \in {s, Dispatch(r)}
  BY DEF OnResult
<1> HIDE DEF r
<1> QED
  BY <1>2, <1>3, CalmFit, DispatchFit

\* poll_cycle
LEMMA OnPollCycleFit ==
  ASSUME NEW s, Fit(s), NEW T PROVE Fit(OnPollCycle(s, T))
<1> DEFINE a == [s EXCEPT !.db = MarkInflightRunning(s.db)]
           r == Dispatch(a)
           aged == [r EXCEPT !.db = MarkTimeouts(r.db, T)]
<1>1. OnPollCycle(s, T) \in {aged, StopPolling(aged)}
  BY DEF OnPollCycle
<1>2. RowsIn(s.db, {"SENT"}) \in SUBSET Rows(s.db)
  BY DEF RowsIn
<1>3. Calm(s, a)
  BY <1>2, MovedCalm, Targets DEF MarkInflightRunning, Fit
<1> HIDE DEF a
<1>4. Fit(r)
  BY <1>3, CalmFit, DispatchFit
<1> HIDE DEF r
<1>5. T \cap RowsIn(r.db, {"SENT", "RUNNING"}) \in SUBSET Rows(r.db)
  BY DEF RowsIn
<1>6. Calm(r, aged)
  BY <1>4, <1>5, MovedCalm, Targets DEF MarkTimeouts, Fit
<1> HIDE DEF aged
<1>7. Fit(aged)
  BY <1>4, <1>6, CalmFit
<1>8. Fit(StopPolling(aged))
  BY <1>7, StopPollingCalm, CalmFit DEF Fit
<1> QED
  BY <1>1, <1>7, <1>8

\* Changes of the publish threads that make none of them send.
LEMMA PubsCalm ==
  ASSUME NEW s, Typed(s), NEW ps \in [PubSlots -> PubThreads],
         \A k \in PubSlots :
           WouldSend(ps[k]) => Sends(s, k)
  PROVE  Calm(s, [s EXCEPT !.pubs = ps])
<1> DEFINE t == [s EXCEPT !.pubs = ps]
<1>1. /\ Parts(t) /\ t.ctl = s.ctl /\ t.db = s.db /\ t.pubs = ps
      /\ t.polls = s.polls /\ t.scans = s.scans /\ t.events = s.events
  BY DEF Typed, Parts
<1> HIDE DEF t
<1>2. Typed(t)
  BY <1>1 DEF Typed
<1>3. \A k \in PubSlots : Sends(t, k) => Sends(s, k)
  BY <1>1 DEF Sends
<1>4. Calm(s, t)
  BY <1>1, <1>2, <1>3 DEF Calm
<1> QED
  BY <1>4 DEF t

\* Scan threads that are told to stop or to quit are scan threads.
LEMMA ScanThreadTold ==
  ASSUME NEW x \in ScanThreads
  PROVE  /\ [x EXCEPT !.quit = TRUE] \in ScanThreads
         /\ [x EXCEPT !.stop = TRUE, !.quit = TRUE] \in ScanThreads
  BY DEF ScanThreads, ThreadRecords

LEMMA ScansTold ==
  ASSUME NEW old \in [ScanSlots -> ScanThreads], NEW k, NEW S
  PROVE  /\ [old EXCEPT ![k].quit = TRUE] \in [ScanSlots -> ScanThreads]
         /\ [n \in DOMAIN old |-> IF n \in S THEN [old[n] EXCEPT !.stop = TRUE, !.quit = TRUE]
                                 ELSE old[n]] \in [ScanSlots -> ScanThreads]
<1> DEFINE told(n) == [old[n] EXCEPT !.quit = TRUE]
           asked(n) == [old[n] EXCEPT !.stop = TRUE, !.quit = TRUE]
<1>1. \A n \in ScanSlots : told(n) \in ScanThreads /\ asked(n) \in ScanThreads
  <2> TAKE n \in ScanSlots
  <2>1. old[n] \in ScanThreads
    OBVIOUS
  <2> QED
    BY <2>1, ScanThreadTold
<1> HIDE DEF told, asked
<1>2. [old EXCEPT ![k] = told(k)] \in [ScanSlots -> ScanThreads]
  BY <1>1
<1>3. [n \in ScanSlots |-> IF n \in S THEN asked(n) ELSE old[n]] \in [ScanSlots -> ScanThreads]
  BY <1>1
<1>4. DOMAIN old = ScanSlots
  OBVIOUS
<1> QED
  BY <1>2, <1>3, <1>4, Zenon DEF told, asked

\* Changes of the scan threads.
LEMMA ScansCalm ==
  ASSUME NEW s, Typed(s), NEW ss \in [ScanSlots -> ScanThreads]
  PROVE  Calm(s, [s EXCEPT !.scans = ss])
<1> DEFINE t == [s EXCEPT !.scans = ss]
<1>1. /\ Parts(t) /\ t.ctl = s.ctl /\ t.db = s.db /\ t.pubs = s.pubs
      /\ t.polls = s.polls /\ t.scans = ss /\ t.events = s.events
  BY DEF Typed, Parts
<1> HIDE DEF t
<1>2. Calm(s, t)
  BY <1>1, SidesCalm DEF Typed
<1> QED
  BY <1>2 DEF t

\* finished, of the publish worker
LEMMA OnPubFinishedCalm ==
  ASSUME NEW s, Typed(s), NEW p \in PubSlots, NEW known
  PROVE  Calm(s, OnPubFinished(s, p, known))
<1> DEFINE c == [s.ctl EXCEPT !.pubDone = TRUE]
           e == [s EXCEPT !.ctl = c]
           r == IF known /\ s.ctl.pub # p THEN s ELSE e
           ps == [r.pubs EXCEPT ![p].quit = TRUE]
<1>1. OnPubFinished(s, p, known) = [r EXCEPT !.pubs = ps]
  BY DEF OnPubFinished
<1>2. Attributes(c) /\ c.active = s.ctl.active /\ c.pub = s.ctl.pub
  BY DEF Typed, Attributes
<1> HIDE DEF c
<1>3. Calm(s, e)
  BY <1>2, CtlCalm
<1> HIDE DEF e
<1>4. Calm(s, r)
  BY <1>3, CalmSame
<1> HIDE DEF r
<1>5. r.pubs \in [PubSlots -> PubThreads]
  BY <1>4 DEF Calm, Typed
<1>6. ps \in [PubSlots -> PubThreads]
  BY <1>5 DEF PubThreads, ThreadRecords
<1>7. \A k \in PubSlots : ps[k].run = r.pubs[k].run /\ ps[k].stop = r.pubs[k].stop
  BY <1>5 DEF PubThreads, ThreadRecords
<1> HIDE DEF ps
<1>8. Calm(r, [r EXCEPT !.pubs = ps])
  BY <1>4, <1>6, <1>7, PubsCalm DEF Calm, Sends, WouldSend
<1> QED
  BY <1>1, <1>4, <1>8, CalmTrans

\* finished, of the publish thread: claims are given back when it was the one
\* referred to, and then nobody sends.
LEMMA OnPubThreadFinishedFit ==
  ASSUME NEW s, Fit(s), NEW p \in PubSlots PROVE Fit(OnPubThreadFinished(s, p))
<1> DEFINE ps == [s.pubs EXCEPT ![p] = NoThread]
           gone == [s EXCEPT !.pubs = ps]
           d == ReleaseClaimed(s.db)
           c == [s.ctl EXCEPT !.pub = NoSlot]
           mine == [gone EXCEPT !.ctl = c, !.db = d]
           e == [c EXCEPT !.retry = TRUE]
           later == [mine EXCEPT !.ctl = e]
<1>1. /\ s.ctl.pub # p => OnPubThreadFinished(s, p) = gone
      /\ s.ctl.pub = p => OnPubThreadFinished(s, p) \in {later, Dispatch(mine)}
  <2> DEFINE g0 == [s EXCEPT !.pubs[p] = NoThread]
             m0 == [g0 EXCEPT !.ctl.pub = NoSlot, !.db = d]
             l0 == [m0 EXCEPT !.ctl.retry = TRUE]
  <2>1. /\ s.ctl.pub # p => OnPubThreadFinished(s, p) = g0
        /\ s.ctl.pub = p => OnPubThreadFinished(s, p) \in {l0, Dispatch(m0)}
    BY DEF OnPubThreadFinished
  <2>2. g0 = gone
    OBVIOUS
  <2>3. m0 = mine
    BY <2>2 DEF Fit, Typed, Parts
  <2>4. mine.ctl = c
    BY DEF Fit, Typed, Parts
  <2>5. l0 = later
    BY <2>3, <2>4
  <2> HIDE DEF g0, m0, l0, gone, mine, later
  <2> QED
    BY <2>1, <2>2, <2>3, <2>5
<1>2. ps \in [PubSlots -> PubThreads] /\ ps[p] = NoThread
  BY NewThreads DEF Fit, Typed
<1>3. \A k \in PubSlots : k # p => ps[k] = s.pubs[k]
  BY DEF Fit, Typed
<1> HIDE DEF ps
<1>4. Calm(s, gone) /\ gone.pubs = ps /\ gone.ctl = s.ctl /\ gone.db = s.db
  <2>1. \A k \in PubSlots :
          WouldSend(ps[k]) => Sends(s, k)
    BY <1>2, <1>3 DEF Sends, WouldSend, PublishingRuns, NoThread
  <2>2. Calm(s, gone)
    BY <1>2, <2>1, PubsCalm DEF Fit
  <2> QED
    BY <2>2 DEF Fit, Typed, Parts
<1> HIDE DEF gone
<1>5. Fit(gone)
  BY <1>4, CalmFit
<1>6. ASSUME s.ctl.pub = p PROVE Silent(gone)
  <2> SUFFICES ASSUME NEW k \in PubSlots, Sends(gone, k) PROVE FALSE
    BY DEF Silent
  <2>1. k = p
    BY <1>4, <1>5, <1>6 DEF Fit
  <2> QED
    BY <1>2, <1>4, <2>1 DEF Sends, WouldSend, PublishingRuns, NoThread
<1>7. Kept(s.db, d) /\ d.session = s.db.session /\ d.resume = s.db.resume /\ Claims(d) = {}
  BY Released DEF Fit, Typed
<1>8. /\ Attributes(c) /\ c.active = s.ctl.active
      /\ Attributes(e) /\ e.active = s.ctl.active /\ e.pub = c.pub
  BY DEF Fit, Typed, Attributes
<1> HIDE DEF d, c, e
<1>9. /\ Parts(mine) /\ mine.ctl = c /\ mine.db = d /\ mine.pubs = gone.pubs
      /\ mine.polls = gone.polls /\ mine.scans = gone.scans /\ mine.events = gone.events
  BY <1>5 DEF Fit, Typed, Parts
<1> HIDE DEF mine
<1>10. ASSUME s.ctl.pub = p PROVE Fit(mine)
  BY <1>4, <1>5, <1>6, <1>7, <1>8, <1>9, <1>10, SetFit DEF Kept, Fit
<1>11. ASSUME s.ctl.pub = p PROVE Fit(later)
  BY <1>8, <1>9, <1>10, <1>11, CtlCalm, CalmFit DEF Fit
<1> HIDE DEF later
<1> QED
  BY <1>1, <1>5, <1>10, <1>11, DispatchFit

\* A poll thread told to quit.
LEMMA QuitTyped == ASSUME NEW th \in PollThreads PROVE Quit(th) \in PollThreads
<1>1. [th EXCEPT !.quit = TRUE] \in PollThreads
  BY DEF PollThreads, ThreadRecords
<1> QED
  BY <1>1, NewThreads DEF Quit

\* finished, of the poll worker
LEMMA OnPollFinishedFit ==
  ASSUME NEW s, Fit(s), NEW w \in PollSlots PROVE Fit(OnPollFinished(s, w))
<1> DEFINE c == [s.ctl EXCEPT !.poll = NoSlot]
           ps == [s.polls EXCEPT ![w] = Quit(@)]
           r == [s EXCEPT !.ctl = c, !.polls = ps]
           e == [r.ctl EXCEPT !.active = FALSE]
           d == IF AllTerminal(r.db) THEN CompleteSession(r.db) ELSE r.db
           t == [r EXCEPT !.ctl = e, !.db = d]
<1>1. OnPollFinished(s, w) \in {r, t}
  <2>1. [s EXCEPT !.ctl.poll = NoSlot, !.polls[w] = Quit(@)] = r
    OBVIOUS
  <2> HIDE DEF r
  <2>2. OnPollFinished(s, w) \in
          {r, [r EXCEPT !.ctl.active = FALSE,
                 !.db = IF AllTerminal(@) THEN CompleteSession(@) ELSE @]}
    BY <2>1 DEF OnPollFinished
  <2>3. [r EXCEPT !.ctl.active = FALSE,
           !.db = IF AllTerminal(@) THEN CompleteSession(@) ELSE @] = t
    OBVIOUS
  <2> QED
    BY <2>2, <2>3
<1>2. ps \in [PollSlots -> PollThreads]
  BY QuitTyped DEF Fit, Typed
<1>3. Attributes(c) /\ c.active = s.ctl.active /\ c.pub = s.ctl.pub
  BY DEF Fit, Typed, Attributes
<1> HIDE DEF c, ps
<1>4. /\ Parts(r) /\ r.ctl = c /\ r.db = s.db /\ r.pubs = s.pubs
      /\ r.polls = ps /\ r.scans = s.scans /\ r.events = s.events
  BY DEF Fit, Typed, Parts
<1> HIDE DEF r
<1>5. Calm(s, r)
  BY <1>2, <1>3, <1>4, SidesCalm DEF Fit, Typed
<1>6. Fit(r)
  BY <1>5, CalmFit
<1>7. Attributes(e) /\ e.active = FALSE /\ e.pub = r.ctl.pub
  BY <1>6 DEF Fit, Typed, Attributes
<1>8. /\ Kept(r.db, d)
      /\ d.session = "PAUSED_BY_USER" => Claims(d) = {} /\ Silent(r)
  <2>1. CASE AllTerminal(r.db)
    BY <1>6, <2>1, CompletedFields DEF Fit, Typed
  <2>2. CASE ~AllTerminal(r.db)
    BY <1>6, <2>2, KeptSame DEF Fit, Typed
  <2> QED
    BY <2>1, <2>2
<1> HIDE DEF e, d
<1>9. /\ Parts(t) /\ t.ctl = e /\ t.db = d /\ t.pubs = r.pubs
      /\ t.polls = r.polls /\ t.scans = r.scans /\ t.events = r.events
  BY <1>6 DEF Fit, Typed, Parts
<1> HIDE DEF t
<1>10. Fit(t)
  BY <1>6, <1>7, <1>8, <1>9, SetFit DEF Kept
<1> QED
  BY <1>1, <1>6, <1>10

\* The quit of a scan thread.
LEMMA QuittingCalm == ASSUME NEW s, Typed(s), NEW k PROVE Calm(s, Quitting(s, k))
<1> DEFINE ss == [s.scans EXCEPT ![k].quit = TRUE]
<1>1. Quitting(s, k) = [s EXCEPT !.scans = ss]
  BY DEF Quitting
<1>2. ss \in [ScanSlots -> ScanThreads]
  <2>1. s.scans \in [ScanSlots -> ScanThreads]
    BY DEF Typed
  <2> QED
    BY <2>1, ScansTold
<1> HIDE DEF ss
<1> QED
  BY <1>1, <1>2, ScansCalm

\* A scan state set for whatever a scan thread names as its queue.
LEMMA ScanStateCalm ==
  ASSUME NEW s, Typed(s), NEW q, NEW state \in ScanStates \ {"NONE"}
  PROVE  Calm(s, [s EXCEPT !.db = SetScan(s.db, q, state)])
<1>1. CASE q \in Queues
  BY <1>1, SetScanCalm
<1>2. CASE q \notin Queues
  <2>1. SetScan(s.db, q, state) = s.db
    BY <1>2 DEF SetScan, Registered
  <2> QED
    BY <2>1, SameTables, CalmSame
<1> QED
  BY <1>1, <1>2

\* A scan state set, and the queue q no longer open.
LEMMA LeavesCalm ==
  ASSUME NEW s, Typed(s), NEW q, NEW state \in ScanStates \ {"NONE"}
  PROVE  Calm(s, [s EXCEPT !.db = SetScan(s.db, q, state), !.ctl.open = @ \ {q}])
<1> DEFINE r == [s EXCEPT !.db = SetScan(s.db, q, state)]
           c == [s.ctl EXCEPT !.open = @ \ {q}]
           t == [r EXCEPT !.ctl = c]
<1>1. [s EXCEPT !.db = SetScan(s.db, q, state), !.ctl.open = @ \ {q}] = t
  OBVIOUS
<1>2. Calm(s, r) /\ r.ctl = s.ctl
  BY ScanStateCalm DEF Typed, Parts
<1> HIDE DEF r
<1>3. Attributes(c) /\ c.active = s.ctl.active /\ c.pub = s.ctl.pub
  BY DEF Typed, Attributes
<1> HIDE DEF c
<1>4. Calm(r, t)
  BY <1>2, <1>3, CtlCalm DEF Calm
<1> HIDE DEF t
<1> QED
  BY <1>1, <1>2, <1>4, CalmTrans

\* completed, of a scan
LEMMA OnScanCompletedFit ==
  ASSUME NEW s, Fit(s), NEW k PROVE Fit(OnScanCompleted(s, k))
<1> DEFINE q == s.scans[k].queue
           state == IF s.scans[k].found > 0 \/ s.db.total[q] > 0 THEN "SCANNED" ELSE "EMPTY"
           e == [s EXCEPT !.db = SetScan(s.db, q, state)]
           r == Quitting(e, k)
<1>1. OnScanCompleted(s, k) \in {r, Dispatch(r)}
  BY DEF OnScanCompleted
<1>2. state \in ScanStates \ {"NONE"}
  BY DEF ScanStates
<1> HIDE DEF q, state
<1>3. Fit(e)
  BY <1>2, ScanStateCalm, CalmFit DEF Fit
<1> HIDE DEF e
<1>4. Fit(r)
  BY <1>3, QuittingCalm, CalmFit DEF Fit
<1> HIDE DEF r
<1> QED
  BY <1>1, <1>4, DispatchFit

\* stopped, of a scan
LEMMA OnScanStoppedFit ==
  ASSUME NEW s, Fit(s), NEW k PROVE Fit(OnScanStopped(s, k))
<1> DEFINE q == s.scans[k].queue
           e == [s EXCEPT !.db = SetScan(s.db, q, "WAITING"), !.ctl.open = @ \ {q}]
<1>1. OnScanStopped(s, k) = Quitting(e, k)
  BY DEF OnScanStopped
<1> HIDE DEF q
<1>2. Fit(e)
  BY LeavesCalm, CalmFit DEF Fit, ScanStates
<1> HIDE DEF e
<1> QED
  BY <1>1, <1>2, QuittingCalm, CalmFit DEF Fit

\* failed, of a scan
LEMMA OnScanFailedFit ==
  ASSUME NEW s, Fit(s), NEW k PROVE Fit(OnScanFailed(s, k))
<1> DEFINE q == s.scans[k].queue
           e == [s EXCEPT !.db = SetScan(s.db, q, "ERROR"), !.ctl.open = @ \ {q}]
           r == Quitting(e, k)
<1>1. OnScanFailed(s, k) \in {r, OpenNext(r, OpenSlots(r))}
  BY DEF OnScanFailed
<1> HIDE DEF q
<1>2. Fit(e)
  BY LeavesCalm, CalmFit DEF Fit, ScanStates
<1> HIDE DEF e
<1>3. Fit(r)
  BY <1>2, QuittingCalm, CalmFit DEF Fit
<1> HIDE DEF r
<1>4. Fit(OpenNext(r, OpenSlots(r)))
  BY <1>3, OpenSlotsInt, OpenNextCalm, CalmFit DEF Fit
<1> QED
  BY <1>1, <1>3, <1>4

\* finished, of a scan thread
LEMMA OnScanThreadFinishedFit ==
  ASSUME NEW s, Fit(s), NEW k PROVE Fit(OnScanThreadFinished(s, k))
<1> DEFINE q == s.scans[k].queue
           ss == [s.scans EXCEPT ![k] = NoScan]
           gone == [s EXCEPT !.scans = ss]
           c == [gone.ctl EXCEPT !.scanning[q] = NoSlot]
           t == [gone EXCEPT !.ctl = c]
<1>1. OnScanThreadFinished(s, k) \in {gone, Inventory(t)}
  BY DEF OnScanThreadFinished
<1>2. ss \in [ScanSlots -> ScanThreads]
  BY NewThreads DEF Fit, Typed
<1> HIDE DEF ss, q
<1>3. Fit(gone)
  BY <1>2, ScansCalm, CalmFit DEF Fit
<1> HIDE DEF gone
<1>4. Attributes(c) /\ c.active = gone.ctl.active /\ c.pub = gone.ctl.pub
  BY <1>3 DEF Fit, Typed, Attributes
<1> HIDE DEF c
<1>5. Fit(t)
  BY <1>3, <1>4, CtlCalm, CalmFit DEF Fit
<1> HIDE DEF t
<1> QED
  BY <1>1, <1>3, <1>5, InventoryFit

\* The refresh timer.
LEMMA ReconcileScansFit == ASSUME NEW s, Fit(s) PROVE Fit(ReconcileScans(s))
<1> DEFINE stale == {q \in Scanning(s) : ~Running(s.scans[s.ctl.scanning[q]])}
           scanning == [q \in Queues |-> IF q \in stale THEN NoSlot ELSE s.ctl.scanning[q]]
           c == [s.ctl EXCEPT !.scanning = scanning]
           r == [s EXCEPT !.ctl = c]
<1>1. ReconcileScans(s) \in {s, Inventory(r)}
  BY DEF ReconcileScans
<1> HIDE DEF scanning
<1>2. Attributes(c) /\ c.active = s.ctl.active /\ c.pub = s.ctl.pub
  BY DEF Fit, Typed, Attributes
<1> HIDE DEF c
<1>3. Fit(r)
  BY <1>2, CtlCalm, CalmFit DEF Fit
<1> HIDE DEF r
<1> QED
  BY <1>1, <1>3, InventoryFit

\* The broker's metrics.
LEMMA OnMetricsFit ==
  ASSUME NEW s, Fit(s), NEW workers \in Nat \cup {Unknown}, NEW queued \in Nat \cup {Unknown}
  PROVE  Fit(OnMetrics(s, workers, queued))
<1> DEFINE c == [s.ctl EXCEPT !.workers = workers, !.queued = queued]
           t == [s EXCEPT !.ctl = c]
<1>1. OnMetrics(s, workers, queued) = Dispatch(t)
  BY DEF OnMetrics
<1>2. Attributes(c) /\ c.active = s.ctl.active /\ c.pub = s.ctl.pub
  BY DEF Fit, Typed, Attributes
<1> HIDE DEF c
<1>3. Fit(t)
  BY <1>2, CtlCalm, CalmFit DEF Fit
<1> HIDE DEF t
<1> QED
  BY <1>1, <1>3, DispatchFit

\* The retry timer.
LEMMA OnRetryFit == ASSUME NEW s, Fit(s) PROVE Fit(OnRetry(s))
<1> DEFINE c == [s.ctl EXCEPT !.retry = FALSE]
           t == [s EXCEPT !.ctl = c]
<1>1. OnRetry(s) = Dispatch(t)
  BY DEF OnRetry
<1>2. Attributes(c) /\ c.active = s.ctl.active /\ c.pub = s.ctl.pub
  BY DEF Fit, Typed, Attributes
<1> HIDE DEF c
<1>3. Fit(t)
  BY <1>2, CtlCalm, CalmFit DEF Fit
<1> HIDE DEF t
<1> QED
  BY <1>1, <1>3, DispatchFit

-----------------------------------------------------------------------------
(* Stopping. *)

\* Scans are asked to stop.
LEMMA StopScansCalm == ASSUME NEW s, Typed(s) PROVE Calm(s, StopScans(s))
<1> DEFINE S == {k \in DOMAIN s.scans : \E q \in Queues : s.ctl.scanning[q] = k}
           ss == [k \in DOMAIN s.scans |->
                    IF k \in S THEN [s.scans[k] EXCEPT !.stop = TRUE, !.quit = TRUE]
                    ELSE s.scans[k]]
<1>1. StopScans(s) = [s EXCEPT !.scans = ss]
  BY DEF StopScans
<1> HIDE DEF S
<1>2. ss \in [ScanSlots -> ScanThreads]
  <2>1. s.scans \in [ScanSlots -> ScanThreads]
    BY DEF Typed
  <2> QED
    BY <2>1, ScansTold
<1> HIDE DEF ss
<1> QED
  BY <1>1, <1>2, ScansCalm

\* Publisher and poller are asked to stop: nobody more sends.
LEMMA StopMessagingCalm ==
  ASSUME NEW s, Fit(s)
  PROVE  Calm(s, StopMessaging(s)) /\ (~Waits => Silent(StopMessaging(s)))
<1> DEFINE p == s.ctl.pub
           w == s.ctl.poll
           c == [s.ctl EXCEPT !.scanning = [q \in Queues |-> NoSlot]]
           th == [s.pubs[p] EXCEPT !.stop = TRUE, !.quit = TRUE]
           ps == IF p = NoSlot THEN s.pubs ELSE [s.pubs EXCEPT ![p] = th]
           pth == [s.polls[w] EXCEPT !.stop = TRUE]
           ws == IF w = NoSlot THEN s.polls ELSE [s.polls EXCEPT ![w] = Quit(pth)]
           e == [s EXCEPT !.ctl = c, !.polls = ws]
           t == [e EXCEPT !.pubs = ps]
<1>1. StopMessaging(s) = t
  BY DEF StopMessaging, Halted, Fit, Typed, Parts
<1>2. Attributes(c) /\ c.active = s.ctl.active /\ c.pub = s.ctl.pub
  BY DEF Fit, Typed, Attributes
<1>3. ws \in [PollSlots -> PollThreads]
  <2>1. ASSUME w \in PollSlots PROVE Quit(pth) \in PollThreads
    <3>1. s.polls[w] \in PollThreads
      BY <2>1 DEF Fit, Typed
    <3>2. \A x \in PollThreads : [x EXCEPT !.stop = TRUE] \in PollThreads
      BY DEF PollThreads, ThreadRecords
    <3>3. pth \in PollThreads
      BY <3>1, <3>2
    <3> HIDE DEF pth
    <3> QED
      BY <3>3, QuitTyped
  <2> HIDE DEF pth
  <2> QED
    BY <2>1 DEF Fit, Typed
<1>pubs. s.pubs \in [PubSlots -> PubThreads]
  BY DEF Fit, Typed
<1>th. p \in PubSlots => th \in PubThreads /\ th.stop = TRUE /\ th.run = s.pubs[p].run
  <2>1. ASSUME NEW x \in PubThreads
        PROVE  /\ [x EXCEPT !.stop = TRUE, !.quit = TRUE] \in PubThreads
               /\ [x EXCEPT !.stop = TRUE, !.quit = TRUE].stop = TRUE
               /\ [x EXCEPT !.stop = TRUE, !.quit = TRUE].run = x.run
    BY DEF PubThreads, ThreadRecords
  <2>2. p \in PubSlots => s.pubs[p] \in PubThreads
    BY <1>pubs
  <2> QED
    BY <2>1, <2>2
<1> HIDE DEF th
<1>4. ps \in [PubSlots -> PubThreads]
  BY <1>pubs, <1>th
<1>5. /\ \A k \in PubSlots : k # p => ps[k] = s.pubs[k]
      /\ p \in PubSlots => ps[p].stop /\ ps[p].run = s.pubs[p].run
  BY <1>pubs, <1>th, ControllerAssumption DEF NoSlot
<1> HIDE DEF c, ps, ws
<1>6. /\ Parts(e) /\ e.ctl = c /\ e.db = s.db /\ e.pubs = s.pubs
      /\ e.polls = ws /\ e.scans = s.scans /\ e.events = s.events
  BY DEF Fit, Typed, Parts
<1> HIDE DEF e
<1>7. Calm(s, e)
  BY <1>2, <1>3, <1>6, SidesCalm DEF Fit, Typed
<1>8. \A k \in PubSlots : WouldSend(ps[k]) => Waits /\ Sends(s, k)
  <2> TAKE k \in PubSlots
  <2>1. CASE k = p
    BY <1>5, <2>1 DEF Sends, WouldSend
  <2>2. CASE k # p
    <3>1. Sends(s, k) => k = p
      BY DEF Fit
    <3> QED
      BY <1>5, <2>2, <3>1 DEF Sends
  <2> QED
    BY <2>1, <2>2
<1>e. \A k \in PubSlots : Sends(e, k) <=> Sends(s, k)
  BY <1>6 DEF Sends
<1>9. Calm(e, t)
  BY <1>4, <1>7, <1>8, <1>e, PubsCalm DEF Calm
<1>10. t.pubs = ps
  BY <1>7 DEF Calm, Typed, Parts
<1>11. ~Waits => Silent(t)
  BY <1>8, <1>10 DEF Silent, Sends
<1> HIDE DEF t
<1> QED
  BY <1>1, <1>7, <1>9, <1>11, CalmTrans

\* The queues that are gone are not open any more.
LEMMA PrunedCalm == ASSUME NEW s, Fit(s), NEW D PROVE Calm(s, Pruned(s, D))
<1> DEFINE a == PubChecked(s)
           c == [a.ctl EXCEPT !.opened = {}, !.open = {}]
           e == [s.ctl EXCEPT !.opened = @ \ D, !.open = @ \ D]
<1>1. Pruned(s, D) \in {[a EXCEPT !.ctl = c], [s EXCEPT !.ctl = e]}
  BY DEF Pruned
<1>2. Calm(s, a)
  BY PubCheckedCalm
<1> HIDE DEF a
<1>3. Attributes(c) /\ c.active = a.ctl.active /\ c.pub = a.ctl.pub
  BY <1>2 DEF Calm, Typed, Attributes
<1>4. Attributes(e) /\ e.active = s.ctl.active /\ e.pub = s.ctl.pub
  BY DEF Fit, Typed, Attributes
<1> HIDE DEF c, e
<1>5. Calm(a, [a EXCEPT !.ctl = c]) /\ Calm(s, [s EXCEPT !.ctl = e])
  BY <1>2, <1>3, <1>4, CtlCalm DEF Calm, Fit
<1> QED
  BY <1>1, <1>2, <1>5, CalmTrans

-----------------------------------------------------------------------------
(* The session.                                                             *)

\* The inductive invariant: the situation is fit, what the broker holds are
\* requests, and where the waits are cut off no publisher is left that has not
\* been told to stop, until the event loop runs again.
SessionFits ==
  /\ Fit(Situation)
  /\ BagToSet(mq) \subseteq Requests
  /\ halt.at = "messaging" /\ ~Waits => Silent(Situation)
  /\ halt.at = "down" => ~ctl.active /\ Silent(Situation)

\* The variables after a step are the situation that the slot has left.
LEMMA Became == ASSUME NEW s, Parts(s), Become(s) PROVE Situation' = s
BY DEF Become, Parts, Situation

\* The situation is made of the variables.
LEMMA SituationParts ==
  /\ Situation.db = db /\ Situation.ctl = ctl /\ Situation.pubs = pubs
  /\ Situation.polls = polls /\ Situation.scans = scans /\ Situation.events = events
BY DEF Situation

\* A turn of the GUI thread.
LEMMA GuiTurnFits ==
  ASSUME SessionFits, NEW s, Fit(s), GuiTurn(s) PROVE SessionFits'
<1>1. Situation' = s
  BY Became DEF Fit, Typed, GuiTurn
<1>2. halt' = NotHalted /\ mq' = mq
  BY DEF GuiTurn
<1>3. Fit(Situation)'
  BY <1>1
<1>4. halt'.at = "none"
  BY <1>2 DEF NotHalted
<1>5. BagToSet(mq)' \subseteq Requests
  BY <1>2 DEF SessionFits
<1> QED
  BY <1>3, <1>4, <1>5 DEF SessionFits

\* A step of a worker thread.
LEMMA WorkerFits ==
  ASSUME SessionFits, Calm(Situation, Situation'), halt' = halt, ctl' = ctl,
         BagToSet(mq') \subseteq Requests
  PROVE  SessionFits'
<1>1. Fit(Situation')
  BY CalmFit DEF SessionFits
<1>2. Silent(Situation) => Silent(Situation')
  BY DEF Calm, Silent
<1> QED
  BY <1>1, <1>2 DEF SessionFits

\* The calls that the threads post.
LEMMA CallsTyped ==
  /\ \A p \in PubSlots : \A kind \in {"queueReady", "pubFinished", "pubThreadFinished"} :
       <<Call(kind, p)>> \in Seq(Calls)
  /\ \A t \in Requests : \A kind \in {"published", "failed"} : <<Call(kind, t)>> \in Seq(Calls)
  /\ \A t \in Requests, v \in Verdicts :
       <<Call("result", [task |-> t, verdict |-> v])>> \in Seq(Calls)
  /\ \A w \in PollSlots : \A kind \in {"pollCycle", "pollFinished"} :
       <<Call(kind, w)>> \in Seq(Calls)
  /\ \A k \in ScanSlots :
       \A kind \in {"scanCompleted", "scanStopped", "scanFailed", "scanThreadFinished"} :
         <<Call(kind, k)>> \in Seq(Calls)
  /\ << >> \in Seq(Calls)
<1>1. \A p \in PubSlots : \A kind \in {"queueReady", "pubFinished", "pubThreadFinished"} :
        Call(kind, p) \in Calls
  BY DEF Call, Calls
<1>2. \A t \in Requests : \A kind \in {"published", "failed"} : Call(kind, t) \in Calls
  BY DEF Call, Calls
<1>3. \A t \in Requests, v \in Verdicts :
        Call("result", [task |-> t, verdict |-> v]) \in Calls
  BY DEF Call, Calls
<1>4. \A w \in PollSlots : \A kind \in {"pollCycle", "pollFinished"} : Call(kind, w) \in Calls
  BY DEF Call, Calls
<1>5. \A k \in ScanSlots :
       \A kind \in {"scanCompleted", "scanStopped", "scanFailed", "scanThreadFinished"} :
         Call(kind, k) \in Calls
  BY DEF Call, Calls
<1>6. \A c \in Calls : <<c>> \in Seq(Calls)
  OBVIOUS
<1>7. << >> \in Seq(Calls)
  OBVIOUS
<1> QED
  BY <1>1, <1>2, <1>3, <1>4, <1>5, <1>6, <1>7

\* A publish thread goes on and posts calls.
LEMMA PubGoesOn ==
  ASSUME SessionFits, NEW p \in PubSlots, NEW th \in PubThreads, NEW calls \in Seq(Calls),
         WouldSend(th) => Sends(Situation, p),
         pubs' = [pubs EXCEPT ![p] = th], Emit(calls),
         UNCHANGED <<db, ctl, polls, scans, halt>>, BagToSet(mq') \subseteq Requests
  PROVE  SessionFits'
<1> DEFINE s == Situation
           t == [db |-> db, ctl |-> ctl, pubs |-> pubs', polls |-> polls,
                 scans |-> scans, events |-> events']
<1>1. Situation' = t
  BY DEF Situation
<1>2. /\ Parts(t) /\ t.db = s.db /\ t.ctl = s.ctl /\ t.polls = s.polls
      /\ t.scans = s.scans /\ t.pubs = [s.pubs EXCEPT ![p] = th]
      /\ t.events = s.events \o calls
  BY SituationParts DEF Parts, Emit
<1> HIDE DEF s, t
<1>3. Fit(s) /\ Typed(s)
  BY DEF SessionFits, Fit, s
<1>4. t.events \in Seq(Calls)
  BY <1>2, <1>3 DEF Typed
<1>5. /\ t.pubs \in [PubSlots -> PubThreads]
      /\ t.pubs[p] = th /\ \A k \in PubSlots : k # p => t.pubs[k] = s.pubs[k]
  BY <1>2, <1>3 DEF Typed
<1>6. Typed(t)
  BY <1>2, <1>3, <1>4, <1>5 DEF Typed
<1>7. \A k \in PubSlots : Sends(t, k) => Sends(s, k)
  BY <1>5 DEF Sends, s
<1>8. Calm(s, t)
  BY <1>2, <1>6, <1>7 DEF Calm
<1> QED
  BY <1>1, <1>8, WorkerFits DEF s

\* The publish threads.
LEMMA PubRunsFits ==
  ASSUME SessionFits, NEW p \in PubSlots, PubRuns(p) PROVE SessionFits'
<1>0. /\ pubs \in [PubSlots -> PubThreads] /\ pubs[p] \in PubThreads
      /\ BagToSet(mq) \subseteq Requests
  BY SituationParts DEF SessionFits, Fit, Typed
<1>1. Sends(Situation, p) <=> WouldSend(pubs[p])
  BY SituationParts DEF Sends
<1>2. ASSUME NEW run \in {"sending", "trying", "done", "exited"}, NEW calls \in Seq(Calls),
             run = "sending" => pubs[p].run = "connecting",
             run = "trying" => pubs[p].run = "sending" /\ pubs[p].todo # << >>,
             PubStep(p, run, calls)
      PROVE  SessionFits'
  <2> DEFINE th == [pubs[p] EXCEPT !.run = run]
  <2>1. th \in PubThreads /\ th.run = run /\ th.stop = pubs[p].stop
    BY <1>0, <1>2 DEF PubThreads, ThreadRecords
  <2>2. pubs' = [pubs EXCEPT ![p] = th]
    BY <1>2 DEF PubStep
  <2> HIDE DEF th
  <2>3. WouldSend(th) => Sends(Situation, p)
    BY <1>1, <1>2, <2>1 DEF WouldSend, PublishingRuns
  <2>4. Emit(calls) /\ UNCHANGED <<db, ctl, polls, scans, halt>> /\ BagToSet(mq') \subseteq Requests
    BY <1>0, <1>2 DEF PubStep
  <2> QED
    BY <2>1, <2>2, <2>3, <2>4, PubGoesOn
<1>3. ASSUME NEW kind \in {"published", "failed"}, PubNext(p, kind),
             pubs[p].run \in {"trying", "sent"}, pubs[p].todo # << >>
      PROVE  SessionFits'
  <2> DEFINE th == [pubs[p] EXCEPT !.run = "sending", !.todo = Tail(@)]
             t == Head(pubs[p].todo)
  <2>1. pubs[p].todo \in Seq(Requests)
    BY <1>0 DEF PubThreads, ThreadRecords
  <2>2. Tail(pubs[p].todo) \in Seq(Requests) /\ t \in Requests
    BY <1>3, <2>1
  <2>3. th \in PubThreads /\ th.run = "sending" /\ th.stop = pubs[p].stop
    BY <1>0, <2>2 DEF PubThreads, ThreadRecords
  <2>4. pubs' = [pubs EXCEPT ![p] = th]
    BY <1>3 DEF PubNext
  <2>5. <<Call(kind, t)>> \in Seq(Calls)
    BY <2>2, CallsTyped
  <2>6. /\ Emit(<<Call(kind, t)>>) /\ UNCHANGED <<db, ctl, polls, scans, halt>>
        /\ BagToSet(mq') \subseteq Requests
    BY <1>0, <1>3 DEF PubNext
  <2> HIDE DEF th, t
  <2>7. WouldSend(th) => Sends(Situation, p)
    BY <1>1, <1>3, <2>3 DEF WouldSend, PublishingRuns
  <2> QED
    BY <2>3, <2>4, <2>5, <2>6, <2>7, PubGoesOn
<1>4. ASSUME PubSend(p) PROVE SessionFits'
  <2> DEFINE th == [pubs[p] EXCEPT !.run = "sent"]
             t == Head(pubs[p].todo)
  <2>1. pubs[p].todo \in Seq(Requests) /\ pubs[p].todo # << >>
    BY <1>0, <1>4 DEF PubThreads, ThreadRecords, PubSend
  <2>2. t \in Requests
    BY <2>1
  <2>3. th \in PubThreads /\ th.run = "sent" /\ th.stop = pubs[p].stop
    BY <1>0, <2>1 DEF PubThreads, ThreadRecords
  <2>4. pubs' = [pubs EXCEPT ![p] = th]
    BY <1>4 DEF PubSend
  <2>5. << >> \in Seq(Calls) /\ Emit(<< >>) /\ UNCHANGED <<db, ctl, polls, scans, halt>>
    <3>1. events \in Seq(Calls)
      BY SituationParts DEF SessionFits, Fit, Typed
    <3>2. events \o << >> = events
      BY <3>1
    <3> QED
      BY <1>4, <3>2, CallsTyped DEF PubSend, Emit
  <2>6. mq' = mq (+) SetToBag({t})
    BY <1>4 DEF PubSend
  <2> HIDE DEF th, t
  <2>7. BagToSet(mq') \subseteq BagToSet(mq) \cup {t}
    BY <2>6 DEF BagToSet, SetToBag, \oplus
  <2>8. WouldSend(th) => Sends(Situation, p)
    BY <1>1, <1>4, <2>3 DEF PubSend, WouldSend, PublishingRuns
  <2>9. BagToSet(mq') \subseteq Requests
    BY <1>0, <2>2, <2>7
  <2> QED
    BY <2>3, <2>4, <2>5, <2>8, <2>9, PubGoesOn
<1>5. pubs[p].run \in {"trying", "sent"} => pubs[p].todo # << >>
  BY <1>0 DEF PubThreads
<1>6. \A kind \in {"queueReady", "pubFinished", "pubThreadFinished"} :
        <<Call(kind, p)>> \in Seq(Calls)
  BY CallsTyped
<1>7. CASE PubConnect(p)
  BY <1>2, <1>6, <1>7 DEF PubConnect
<1>8. CASE PubConnectFails(p) \/ PubEnd(p)
  BY <1>2, <1>6, <1>8 DEF PubConnectFails, PubEnd
<1>12. CASE PubLook(p)
  BY <1>2, <1>12, CallsTyped DEF PubLook
<1>9. CASE PubExit(p)
  BY <1>2, <1>6, <1>9 DEF PubExit
<1>10. CASE PubEmit(p)
  BY <1>3, <1>5, <1>10 DEF PubEmit
<1>11. CASE PubFails(p)
  BY <1>3, <1>5, <1>11 DEF PubFails
<1> QED
  BY <1>4, <1>7, <1>8, <1>9, <1>10, <1>11, <1>12 DEF PubRuns

\* A poll or a scan thread goes on and posts calls.
LEMMA OtherGoesOn ==
  ASSUME SessionFits, polls' \in [PollSlots -> PollThreads],
         scans' \in [ScanSlots -> ScanThreads], NEW calls \in Seq(Calls), Emit(calls),
         UNCHANGED <<db, ctl, pubs, halt>>, BagToSet(mq') \subseteq Requests
  PROVE  SessionFits'
<1> DEFINE s == Situation
           t == [db |-> db, ctl |-> ctl, pubs |-> pubs, polls |-> polls',
                 scans |-> scans', events |-> events']
<1>1. Situation' = t
  BY DEF Situation
<1>2. /\ Parts(t) /\ t.db = s.db /\ t.ctl = s.ctl /\ t.pubs = s.pubs
      /\ t.polls = polls' /\ t.scans = scans' /\ t.events = s.events \o calls
  BY SituationParts DEF Parts, Emit
<1> HIDE DEF s, t
<1>3. Typed(s)
  BY DEF SessionFits, Fit, s
<1>4. t.events \in Seq(Calls)
  BY <1>2, <1>3 DEF Typed
<1>5. Calm(s, t)
  BY <1>2, <1>3, <1>4, SidesCalm DEF Typed
<1> QED
  BY <1>1, <1>5, WorkerFits DEF s

\* The types of the variables.
LEMMA VariablesTyped ==
  ASSUME SessionFits
  PROVE  /\ Sound(db) /\ Attributes(ctl) /\ pubs \in [PubSlots -> PubThreads]
         /\ polls \in [PollSlots -> PollThreads] /\ scans \in [ScanSlots -> ScanThreads]
         /\ events \in Seq(Calls) /\ BagToSet(mq) \subseteq Requests
BY SituationParts DEF SessionFits, Fit, Typed

\* A poll thread in its loop.
LEMMA PollStepFits ==
  ASSUME SessionFits, NEW w \in PollSlots,
         NEW run \in {"connecting", "consuming", "done"}, NEW calls \in Seq(Calls),
         PollStep(w, run, calls)
  PROVE  SessionFits'
<1>1. polls \in [PollSlots -> PollThreads] /\ BagToSet(mq) \subseteq Requests
  BY VariablesTyped
<1> DEFINE t == [polls[w] EXCEPT !.run = run]
           th == IF t.quit THEN Quit(t) ELSE t
<1>2. t \in PollThreads
  <2>1. polls[w] \in PollThreads
    BY <1>1
  <2> QED
    BY <2>1 DEF PollThreads, ThreadRecords
<1>3. polls' = [polls EXCEPT ![w] = th]
  BY DEF PollStep
<1> HIDE DEF t
<1>4. th \in PollThreads
  BY <1>2, QuitTyped
<1> HIDE DEF th
<1>5. polls' \in [PollSlots -> PollThreads] /\ scans' \in [ScanSlots -> ScanThreads]
  BY <1>1, <1>3, <1>4, VariablesTyped DEF PollStep
<1>6. Emit(calls) /\ UNCHANGED <<db, ctl, pubs, halt>> /\ BagToSet(mq') \subseteq Requests
  BY <1>1 DEF PollStep
<1> QED
  BY <1>5, <1>6, OtherGoesOn

\* The poll threads.
LEMMA PollRunsFits ==
  ASSUME SessionFits, NEW w \in PollSlots,
         PollStarts(w) \/ PollTick(w) \/ PollEnd(w)
  PROVE  SessionFits'
<1>1. << >> \in Seq(Calls) /\ \A kind \in {"pollCycle", "pollFinished"} :
        <<Call(kind, w)>> \in Seq(Calls)
  BY CallsTyped
<1>2. CASE PollConnect(w)
  BY <1>1, <1>2, PollStepFits DEF PollConnect
<1>3. CASE PollConnectFails(w)
  BY <1>1, <1>3, PollStepFits DEF PollConnectFails
<1>4. CASE PollTick(w)
  BY <1>1, <1>4, PollStepFits DEF PollTick
<1>5. CASE PollEnd(w)
  BY <1>1, <1>5, PollStepFits DEF PollEnd
<1> QED
  BY <1>2, <1>3, <1>4, <1>5 DEF PollStarts

\* An answer.
LEMMA PollDeliverFits ==
  ASSUME SessionFits, NEW w \in PollSlots, NEW t \in BagToSet(mq), NEW v \in Verdicts,
         PollDeliver(w, t, v)
  PROVE  SessionFits'
<1> DEFINE call == Call("result", [task |-> t, verdict |-> v])
<1>1. t \in Requests
  BY VariablesTyped
<1>2. <<call>> \in Seq(Calls)
  BY <1>1, CallsTyped
<1>3. Emit(<<call>>) /\ UNCHANGED <<db, ctl, pubs, polls, scans, halt>>
  BY DEF PollDeliver
<1> HIDE DEF call
<1>4. mq' = mq (-) SetToBag({t}) \/ mq' = mq
  BY DEF PollDeliver
<1>5. BagToSet(mq') \subseteq BagToSet(mq)
  BY <1>4 DEF BagToSet, SetToBag, \ominus
<1> QED
  BY <1>2, <1>3, <1>5, VariablesTyped, OtherGoesOn

\* A scan thread posts calls.
LEMMA ScanStepFits ==
  ASSUME SessionFits, NEW k \in ScanSlots, NEW run \in {"scanning", "done", "exited"},
         NEW calls \in Seq(Calls), ScanStep(k, run, calls)
  PROVE  SessionFits'
<1>1. scans \in [ScanSlots -> ScanThreads] /\ BagToSet(mq) \subseteq Requests
  BY VariablesTyped
<1> DEFINE th == [scans[k] EXCEPT !.run = run]
<1>2. th \in ScanThreads
  <2>1. scans[k] \in ScanThreads
    BY <1>1
  <2> QED
    BY <2>1 DEF ScanThreads
<1>3. scans' = [scans EXCEPT ![k] = th]
  BY DEF ScanStep
<1> HIDE DEF th
<1>4. scans' \in [ScanSlots -> ScanThreads] /\ polls' \in [PollSlots -> PollThreads]
  BY <1>1, <1>2, <1>3, VariablesTyped DEF ScanStep
<1>5. Emit(calls) /\ UNCHANGED <<db, ctl, pubs, halt>> /\ BagToSet(mq') \subseteq Requests
  BY <1>1 DEF ScanStep
<1> QED
  BY <1>4, <1>5, OtherGoesOn

\* The images that a scan inserts are not claimed.
LEMMA InsertFields ==
  ASSUME NEW d, Sound(d), NEW q, NEW S
  PROVE  LET m == InsertBatch(d, q, S)
         IN  /\ m.session = d.session /\ m.resume = d.resume
             /\ Claims(m) \subseteq Claims(d)
<1> DEFINE N == NewRows(d, q, S)
           m == Inserted(d, q, N)
<1>1. InsertBatch(d, q, S) \in {d, m}
  BY DEF InsertBatch
<1> HIDE DEF N
<1>2. m.session = d.session /\ m.resume = d.resume /\ m.tasks = WithRows(d, N)
  BY DEF Sound, TypedTables, HasColumns, Inserted
<1>3. Claims(m) \subseteq Claims(d)
  BY <1>2 DEF Claims, RowsIn, Rows, WithRows
<1> HIDE DEF m
<1> QED
  BY <1>1, <1>2, <1>3

\* A batch of images.
LEMMA ScanBatchFits ==
  ASSUME SessionFits, NEW k \in ScanSlots, ScanBatch(k) PROVE SessionFits'
<1> DEFINE q == scans[k].queue
           i == Head(scans[k].todo)
           d == InsertBatch(db, q, {i})
           inserted == q \in Registered(db) /\ i \in Missing(db, q, {i})
           th == [scans[k] EXCEPT !.todo = Tail(@), !.found = @ + (IF inserted THEN 1 ELSE 0)]
           s == Situation
           t == [db |-> d, ctl |-> ctl, pubs |-> pubs, polls |-> polls,
                 scans |-> scans', events |-> events]
<1>1. scans[k] \in ScanThreads /\ Sound(db) /\ BagToSet(mq) \subseteq Requests
  BY VariablesTyped
<1>2. scans[k].todo \in Seq(Images) /\ scans[k].todo # << >>
  BY <1>1 DEF ScanThreads, ScanBatch
<1>3. i \in Images /\ Tail(scans[k].todo) \in Seq(Images)
  BY <1>2
<1>4. th \in ScanThreads
  <2>1. scans[k].found \in Nat
    BY <1>1 DEF ScanThreads
  <2>2. scans[k].found + (IF inserted THEN 1 ELSE 0) \in Nat
    BY <2>1
  <2> HIDE DEF inserted
  <2> QED
    BY <1>1, <1>3, <2>2 DEF ScanThreads
<1>5. scans' = [scans EXCEPT ![k] = th] /\ db' = d
  BY DEF ScanBatch
<1> HIDE DEF th
<1>6. scans' \in [ScanSlots -> ScanThreads]
  BY <1>4, <1>5, VariablesTyped
<1>7. Sound(d) /\ (CountersMatch(db) => CountersMatch(d))
  <2>1. CASE q \in Queues
    <3>1. {i} \in SUBSET Images
      BY <1>3
    <3> HIDE DEF i, q
    <3> QED
      BY <1>1, <2>1, <3>1, InsertKept DEF Kept
  <2>2. CASE q \notin Queues
    BY <1>1, <2>2 DEF InsertBatch, Registered
  <2> QED
    BY <2>1, <2>2
<1>8. d.session = db.session /\ d.resume = db.resume /\ Claims(d) \subseteq Claims(db)
  BY <1>1, InsertFields
<1> HIDE DEF d
<1>9. Situation' = t /\ UNCHANGED <<ctl, mq, halt>>
  BY <1>5 DEF Situation, ScanBatch
<1>10. /\ Parts(t) /\ t.db = d /\ t.ctl = s.ctl /\ t.pubs = s.pubs
       /\ t.polls = s.polls /\ t.scans = scans' /\ t.events = s.events /\ s.db = db
  BY SituationParts DEF Parts
<1> HIDE DEF t, s
<1>11. Typed(s)
  BY DEF SessionFits, Fit, s
<1>12. Typed(t)
  BY <1>6, <1>7, <1>10, <1>11 DEF Typed
<1>13. \A p \in PubSlots : Sends(t, p) <=> Sends(s, p)
  BY <1>10 DEF Sends
<1>14. Calm(s, t)
  BY <1>7, <1>8, <1>10, <1>12, <1>13 DEF Calm
<1> QED
  BY <1>1, <1>9, <1>14, WorkerFits DEF s

\* The scan threads.
LEMMA ScanRunsFits ==
  ASSUME SessionFits, NEW k \in ScanSlots, ScanRuns(k) PROVE SessionFits'
<1>1. << >> \in Seq(Calls) /\
      \A kind \in {"scanCompleted", "scanStopped", "scanFailed", "scanThreadFinished"} :
        <<Call(kind, k)>> \in Seq(Calls)
  BY CallsTyped
<1>2. CASE ScanBatch(k)
  BY <1>2, ScanBatchFits
<1>3. CASE ScanCompletes(k)
  BY <1>1, <1>3, ScanStepFits DEF ScanCompletes
<1>4. CASE ScanStops(k)
  BY <1>1, <1>4, ScanStepFits DEF ScanStops
<1>5. CASE ScanFails(k)
  BY <1>1, <1>5, ScanStepFits DEF ScanFails
<1>6. CASE ScanExit(k)
  BY <1>1, <1>6, ScanStepFits DEF ScanExit
<1> QED
  BY <1>2, <1>3, <1>4, <1>5, <1>6 DEF ScanRuns

-----------------------------------------------------------------------------
(* The calls that the GUI thread takes. *)

\* The situation without its first call.
LEMMA TakenFit ==
  ASSUME SessionFits, events # << >>
  PROVE  Fit(Taken) /\ Head(events) \in Calls
<1> DEFINE s == Situation
           t == [s EXCEPT !.events = Tail(events)]
<1>1. Fit(s) /\ s.events = events
  BY SituationParts DEF SessionFits
<1>2. events \in Seq(Calls)
  BY VariablesTyped
<1>3. Tail(events) \in Seq(Calls) /\ Head(events) \in Calls
  BY <1>2
<1>4. Taken = t
  BY DEF Taken
<1> HIDE DEF s
<1>5. /\ Parts(t) /\ t.db = s.db /\ t.ctl = s.ctl /\ t.pubs = s.pubs
      /\ t.polls = s.polls /\ t.scans = s.scans /\ t.events = Tail(events)
  BY <1>1 DEF Fit, Typed, Parts
<1> HIDE DEF t
<1>6. Calm(s, t)
  BY <1>1, <1>3, <1>5, SidesCalm DEF Fit, Typed
<1> QED
  BY <1>1, <1>3, <1>4, <1>6, CalmFit

\* What a call is about, by its kind.
LEMMA ArgTyped ==
  ASSUME events # << >>, Head(events) \in Calls
  PROVE  /\ \A kind \in {"queueReady", "pubFinished", "pubThreadFinished"} :
              Called(kind) => Arg \in PubSlots
         /\ Called("result") => Arg.task \in Requests /\ Arg.verdict \in Verdicts
         /\ \A kind \in {"pollCycle", "pollFinished"} : Called(kind) => Arg \in PollSlots
BY DEF Calls, Called, Arg

\* The calls handled.
LEMMA HandleCallFits == ASSUME SessionFits, HandleCall PROVE SessionFits'
<1>0. ASSUME NEW kind, Called(kind) PROVE Fit(Taken) /\ Typed(Taken) /\ Head(events) \in Calls
  BY <1>0, TakenFit DEF Called, Fit
<1>1. ASSUME NEW kind, Called(kind), NEW s, Calm(Taken, s), GuiTurn(s) PROVE SessionFits'
  BY <1>0, <1>1, CalmFit, GuiTurnFits
<1>2. CASE HandleQueueReady
  BY <1>0, <1>1, <1>2, OnQueueReadyCalm DEF HandleQueueReady
<1>3. CASE HandlePublished
  BY <1>0, <1>1, <1>3, OnPublishedCalm DEF HandlePublished
<1>4. CASE HandleFailed
  BY <1>0, <1>1, <1>4, OnFailedCalm DEF HandleFailed
<1>5. CASE HandleResult
  <2>1. Called("result") /\ GuiTurn(OnResult(Taken, Arg.task, Arg.verdict))
    BY <1>5 DEF HandleResult
  <2>2. Arg.verdict \in Verdicts /\ Fit(Taken)
    BY <1>0, <2>1, ArgTyped DEF Called
  <2>3. Fit(OnResult(Taken, Arg.task, Arg.verdict))
    BY <2>2, OnResultFit
  <2> QED
    BY <2>1, <2>3, GuiTurnFits
<1>6. ASSUME NEW T, HandlePollCycle(T) PROVE SessionFits'
  BY <1>0, <1>6, OnPollCycleFit, GuiTurnFits DEF HandlePollCycle
<1>7. CASE HandlePubFinished
  <2>1. PICK known \in BOOLEAN : GuiTurn(OnPubFinished(Taken, Arg, known))
    BY <1>7 DEF HandlePubFinished
  <2>2. Called("pubFinished")
    BY <1>7 DEF HandlePubFinished
  <2>3. Arg \in PubSlots
    BY <1>0, <2>2, ArgTyped DEF Called
  <2>4. Calm(Taken, OnPubFinished(Taken, Arg, known))
    BY <1>0, <2>2, <2>3, OnPubFinishedCalm
  <2> QED
    BY <1>1, <2>1, <2>2, <2>4
<1>8. CASE HandlePubThreadFinished
  <2>1. Called("pubThreadFinished") /\ GuiTurn(OnPubThreadFinished(Taken, Arg))
    BY <1>8 DEF HandlePubThreadFinished
  <2>2. Arg \in PubSlots /\ Fit(Taken)
    BY <1>0, <2>1, ArgTyped DEF Called
  <2>3. Fit(OnPubThreadFinished(Taken, Arg))
    BY <2>2, OnPubThreadFinishedFit
  <2> QED
    BY <2>1, <2>3, GuiTurnFits
<1>9. CASE HandlePollFinished
  <2>1. Called("pollFinished") /\ GuiTurn(OnPollFinished(Taken, Arg))
    BY <1>9 DEF HandlePollFinished
  <2>2. Arg \in PollSlots /\ Fit(Taken)
    BY <1>0, <2>1, ArgTyped DEF Called
  <2>3. Fit(OnPollFinished(Taken, Arg))
    BY <2>2, OnPollFinishedFit
  <2> QED
    BY <2>1, <2>3, GuiTurnFits
<1>10. CASE HandleScanCompleted
  BY <1>0, <1>10, OnScanCompletedFit, GuiTurnFits DEF HandleScanCompleted
<1>11. CASE HandleScanStopped
  BY <1>0, <1>11, OnScanStoppedFit, GuiTurnFits DEF HandleScanStopped
<1>12. CASE HandleScanFailed
  BY <1>0, <1>12, OnScanFailedFit, GuiTurnFits DEF HandleScanFailed
<1>13. CASE HandleScanThreadFinished
  BY <1>0, <1>13, OnScanThreadFinishedFit, GuiTurnFits DEF HandleScanThreadFinished
<1> QED
  BY <1>2, <1>3, <1>4, <1>5, <1>6, <1>7, <1>8, <1>9, <1>10, <1>11, <1>12, <1>13
     DEF HandleCall

\* Metrics and timers.
LEMMA TimersFit ==
  ASSUME SessionFits, (\E r \in Readings : Metrics(r)) \/ RetryTimer \/ RefreshTimer
  PROVE  SessionFits'
<1>0. Fit(Situation)
  BY DEF SessionFits
<1>1. ASSUME NEW r \in Readings, Metrics(r) PROVE SessionFits'
  <2>1. r[1] \in Nat \cup {Unknown} /\ r[2] \in Nat \cup {Unknown}
    BY SessionAssumption
  <2> QED
    BY <1>0, <1>1, <2>1, OnMetricsFit, GuiTurnFits DEF Metrics
<1>2. CASE RetryTimer
  BY <1>0, <1>2, OnRetryFit, GuiTurnFits DEF RetryTimer
<1>3. CASE RefreshTimer
  BY <1>0, <1>3, ReconcileScansFit, GuiTurnFits DEF RefreshTimer
<1> QED
  BY <1>1, <1>2, <1>3

-----------------------------------------------------------------------------
(* The user. *)

\* A change of the tables while no run is active.
LEMMA InactiveFit ==
  ASSUME NEW s, Fit(s), ~s.ctl.active, NEW d, Sound(d),
         OwnSources => (CountersMatch(s.db) => CountersMatch(d)),
         d.session = "PAUSED_BY_USER" => Claims(d) = {} /\ Silent(s)
  PROVE  Fit([s EXCEPT !.db = d])
<1> DEFINE t == [s EXCEPT !.db = d]
<1>1. /\ Parts(t) /\ t.ctl = s.ctl /\ t.db = d /\ t.pubs = s.pubs
      /\ t.polls = s.polls /\ t.scans = s.scans /\ t.events = s.events
  BY DEF Fit, Typed, Parts
<1> HIDE DEF t
<1>2. Fit(t)
  BY <1>1, SetFit DEF Fit, Typed
<1> QED
  BY <1>2 DEF t

\* A registration leaves the rows and the session alone.
LEMMA RegisterFields ==
  ASSUME NEW d, Sound(d), NEW q
  PROVE  LET m == Register(d, q)
         IN  m.session = d.session /\ m.resume = d.resume /\ Claims(m) = Claims(d)
<1> DEFINE m == Register(d, q)
<1>1. m.session = d.session /\ m.resume = d.resume /\ m.tasks = d.tasks
  BY DEF Sound, TypedTables, HasColumns, Register
<1> QED
  BY <1>1 DEF Claims, RowsIn, Rows

\* A new session has no claims.
LEMMA NewSessionFields ==
  ASSUME NEW d
  PROVE  NewSession(d).session = "ACTIVE" /\ Claims(NewSession(d)) = {}
BY DEF NewSession, EmptyTables, Claims, RowsIn, Rows

\* A queue is added, to a new session if the last one is complete.
LEMMA RegisteredFit ==
  ASSUME SessionFits, NEW q \in Queues
  PROVE  Fit([Situation EXCEPT !.db = Register(PrepareSession(db), q)])
<1> DEFINE p == PrepareSession(db)
           d == Register(p, q)
           s == [Situation EXCEPT !.db = d]
<1>1. Fit(Situation) /\ Situation.db = db /\ Situation.ctl = ctl /\ Sound(db)
  BY SituationParts, VariablesTyped DEF SessionFits
<1>2. Kept(db, p)
  BY <1>1, NewSessionKept
<1>3. \/ p = db
      \/ ~ctl.active /\ p.session = "ACTIVE" /\ Claims(p) = {}
  BY <1>1, NewSessionFields DEF PrepareSession, Fit
<1> HIDE DEF p
<1>4. Kept(p, d)
  BY <1>2, RegisterKept DEF Kept
<1>5. d.session = p.session /\ d.resume = p.resume /\ Claims(d) = Claims(p)
  BY <1>2, RegisterFields DEF Kept
<1> HIDE DEF d
<1>6. CASE p = db
  <2>1. Calm(Situation, s)
    BY <1>1, <1>4, <1>5, <1>6, TablesCalm DEF Kept, Fit
  <2> QED
    BY <1>1, <2>1, CalmFit DEF d, p
<1>7. CASE ~ctl.active /\ p.session = "ACTIVE" /\ Claims(p) = {}
  <2>1. Fit(s)
    BY <1>1, <1>2, <1>4, <1>5, <1>7, InactiveFit DEF Kept
  <2> QED
    BY <2>1 DEF d, p
<1> QED
  BY <1>3, <1>6, <1>7

\* add
LEMMA AddFolderFits == ASSUME SessionFits, NEW q \in Queues, AddFolder(q) PROVE SessionFits'
<1> DEFINE d == Register(PrepareSession(db), q)
           s == [Situation EXCEPT !.db = d]
           c == [s.ctl EXCEPT !.preparing = TRUE]
           t == [s EXCEPT !.ctl = c]
<1>1. GuiTurn(s) \/ GuiTurn(Inventory(t))
  BY DEF AddFolder, UserTurn
<1>2. Fit(s)
  BY RegisteredFit
<1> HIDE DEF s
<1>3. Attributes(c) /\ c.active = s.ctl.active /\ c.pub = s.ctl.pub
  BY <1>2 DEF Fit, Typed, Attributes
<1> HIDE DEF c
<1>4. Fit(t)
  BY <1>2, <1>3, CtlCalm, CalmFit DEF Fit
<1> HIDE DEF t
<1> QED
  BY <1>1, <1>2, <1>4, InventoryFit, GuiTurnFits

\* start
LEMMA StartFits == ASSUME SessionFits, Start PROVE SessionFits'
<1> DEFINE d == ResumeByUser(db)
           s == [Situation EXCEPT !.db = d]
<1>1. GuiTurn(StartSession(s)) \/ GuiTurn(StartSession(Situation))
  BY DEF Start, UserTurn
<1>2. /\ Fit(Situation) /\ Situation.db = db /\ Situation.ctl = ctl /\ Sound(db)
      /\ ~Situation.ctl.active
  BY SituationParts, VariablesTyped DEF SessionFits, Start
<1>3. Kept(db, d)
  BY <1>2, ResumeKept
<1>4. d.session = "ACTIVE"
  BY <1>2 DEF Sound, TypedTables, HasColumns, ResumeByUser
<1> HIDE DEF d
<1>5. Fit(s)
  BY <1>2, <1>3, <1>4, InactiveFit DEF Kept
<1> HIDE DEF s
<1> QED
  BY <1>1, <1>2, <1>5, StartSessionFit, GuiTurnFits

\* What is left after a deletion.
LEMMA DeleteFields ==
  ASSUME NEW d, Sound(d), NEW S
  PROVE  LET m == Delete(d, S)
         IN  /\ m.session = d.session /\ m.resume = d.resume
             /\ Claims(m) \subseteq Claims(d)
<1> DEFINE D == {q \in S \cap Registered(d) : Deletable(d, q)}
           m == WithoutQueues(d, D)
<1>1. Delete(d, S) \in {d, m}
  BY DEF Delete
<1> HIDE DEF D
<1>2. /\ m.session = d.session /\ m.resume = d.resume
      /\ m.tasks = [t \in {u \in Rows(d) : u.queue \notin D} |-> d.tasks[t]]
  BY DEF Sound, TypedTables, HasColumns, WithoutQueues
<1> HIDE DEF m
<1>3. Claims(m) \subseteq Claims(d)
  BY <1>2 DEF Claims, RowsIn, Rows
<1> QED
  BY <1>1, <1>2, <1>3

\* hold and release, move up and down, delete
LEMMA FolderActionsFit ==
  ASSUME SessionFits, NEW S,
         \/ \E held \in BOOLEAN : HoldFolders(S, held)
         \/ \E op \in Operations : MoveFolders(S, op)
         \/ DeleteFolders(S)
  PROVE  SessionFits'
<1>0. Fit(Situation) /\ Typed(Situation) /\ Situation.db = db /\ Sound(db)
  BY SituationParts, VariablesTyped DEF SessionFits, Fit
<1>1. ASSUME NEW held \in BOOLEAN, HoldFolders(S, held) PROVE SessionFits'
  <2> DEFINE d == SetHeld(db, S \ UnderWay(Situation), held)
             s == [Situation EXCEPT !.db = d]
  <2>1. GuiTurn(s) \/ GuiTurn(Dispatch(s))
    BY <1>1 DEF HoldFolders, UserTurn
  <2>2. Kept(db, d)
    BY <1>0, SetHeldKept
  <2>3. d.session = db.session /\ d.resume = db.resume /\ d.tasks = db.tasks
    BY <1>0 DEF Sound, TypedTables, HasColumns, SetHeld
  <2>4. Claims(d) = Claims(db)
    BY <2>3 DEF Claims, RowsIn, Rows
  <2> HIDE DEF d
  <2>5. Calm(Situation, s)
    BY <1>0, <2>2, <2>3, <2>4, TablesCalm DEF Kept
  <2> HIDE DEF s
  <2> QED
    BY <1>0, <2>1, <2>5, CalmFit, DispatchFit, GuiTurnFits
<1>2. ASSUME NEW op \in Operations, MoveFolders(S, op) PROVE SessionFits'
  <2> DEFINE d == Reorder(db, S \ UnderWay(Situation), op)
             s == [Situation EXCEPT !.db = d]
  <2>1. GuiTurn(s)
    BY <1>2 DEF MoveFolders, UserTurn
  <2>2. Kept(db, d)
    BY <1>0, ReorderKept
  <2>3. d.session = db.session /\ d.resume = db.resume /\ d.tasks = db.tasks
    BY <1>0 DEF Sound, TypedTables, HasColumns, Reorder
  <2>4. Claims(d) = Claims(db)
    BY <2>3 DEF Claims, RowsIn, Rows
  <2> HIDE DEF d
  <2>5. Calm(Situation, s)
    BY <1>0, <2>2, <2>3, <2>4, TablesCalm DEF Kept
  <2> HIDE DEF s
  <2> QED
    BY <1>0, <2>1, <2>5, CalmFit, GuiTurnFits
<1>3. ASSUME DeleteFolders(S) PROVE SessionFits'
  <2> DEFINE d == Delete(db, S)
             s == [Situation EXCEPT !.db = d]
             D == Registered(db) \ Registered(d)
  <2>1. GuiTurn(Pruned(s, D))
    BY <1>3 DEF DeleteFolders, UserTurn
  <2>2. Kept(db, d)
    BY <1>0, DeleteKept
  <2>3. d.session = db.session /\ d.resume = db.resume /\ Claims(d) \subseteq Claims(db)
    BY <1>0, DeleteFields
  <2> HIDE DEF d
  <2>4. Calm(Situation, s)
    BY <1>0, <2>2, <2>3, TablesCalm DEF Kept
  <2> HIDE DEF s, D
  <2>5. Fit(s)
    BY <1>0, <2>4, CalmFit
  <2> QED
    BY <2>1, <2>5, PrunedCalm, CalmFit, GuiTurnFits
<1> QED
  BY <1>1, <1>2, <1>3

\* The answer to the dialog.
LEMMA ConfirmFits == ASSUME SessionFits, Confirm PROVE SessionFits'
<1> DEFINE c == [Situation.ctl EXCEPT !.asking = FALSE]
           s == [Situation EXCEPT !.ctl = c]
<1>1. GuiTurn(Prepared(s))
  BY DEF Confirm
<1>2. Attributes(c) /\ c.active = Situation.ctl.active /\ c.pub = Situation.ctl.pub
  BY DEF SessionFits, Fit, Typed, Attributes
<1> HIDE DEF c
<1>3. Fit(s)
  BY <1>2, CtlCalm, CalmFit DEF SessionFits, Fit
<1> HIDE DEF s
<1> QED
  BY <1>1, <1>3, PreparedFit, GuiTurnFits

-----------------------------------------------------------------------------
(* Stops, crashes and restarts. *)

\* What keeps the invariant when halt changes.
LEMMA HaltFits ==
  ASSUME SessionFits, NEW s, Fit(s), Become(s), UNCHANGED mq,
         halt'.at = "messaging" /\ ~Waits => Silent(s),
         halt'.at = "down" => ~s.ctl.active /\ Silent(s)
  PROVE  SessionFits'
<1>1. Situation' = s
  BY Became DEF Fit, Typed
<1>2. ctl' = s.ctl
  BY DEF Become
<1> QED
  BY <1>1, <1>2 DEF SessionFits

\* The stop begins.
LEMMA StopBeginsFits ==
  ASSUME SessionFits, NEW then, StopBegins(then) PROVE SessionFits'
<1> DEFINE c == [Situation.ctl EXCEPT !.asking = FALSE]
           s == [Situation EXCEPT !.ctl = c]
<1>1. Become(StopScans(s)) /\ UNCHANGED mq /\ halt'.at = "scans"
  BY DEF StopBegins
<1>2. Attributes(c) /\ c.active = Situation.ctl.active /\ c.pub = Situation.ctl.pub
  BY DEF SessionFits, Fit, Typed, Attributes
<1> HIDE DEF c
<1>3. Fit(s)
  BY <1>2, CtlCalm, CalmFit DEF SessionFits, Fit
<1> HIDE DEF s
<1>4. Fit(StopScans(s))
  BY <1>3, StopScansCalm, CalmFit DEF Fit
<1> QED
  BY <1>1, <1>4, HaltFits

\* The stop goes on with publisher and poller.
LEMMA StopMessagingFits == ASSUME SessionFits, StopMessagingNext PROVE SessionFits'
<1> DEFINE s == StopMessaging(Situation)
<1>1. Become(s) /\ UNCHANGED mq
  BY DEF StopMessagingNext
<1>2. Calm(Situation, s) /\ (~Waits => Silent(s))
  BY StopMessagingCalm DEF SessionFits
<1>3. halt'.at # "down"
  <2>1. halt' = [halt EXCEPT !.at = "messaging"] /\ halt.at = "scans"
    BY DEF StopMessagingNext
  <2>2. halt'.at \in {"messaging", halt.at}
    <3>1. CASE "at" \in DOMAIN halt
      BY <2>1, <3>1
    <3>2. CASE "at" \notin DOMAIN halt
      BY <2>1, <3>2
    <3> QED
      BY <3>1, <3>2
  <2> QED
    BY <2>1, <2>2
<1> HIDE DEF s
<1>4. Fit(s)
  BY <1>2, CalmFit DEF SessionFits
<1> QED
  BY <1>1, <1>2, <1>3, <1>4, HaltFits

\* The process is gone.
LEMMA KilledFits ==
  ASSUME SessionFits, NEW d, Killed(d), UNCHANGED mq, Sound(d),
         OwnSources => (CountersMatch(db) => CountersMatch(d)),
         d.session = "PAUSED_BY_USER" => Claims(d) = {}
  PROVE  SessionFits'
<1> DEFINE s == [db |-> d, ctl |-> FreshController, pubs |-> Idle(pubs, NoThread),
                 polls |-> Idle(polls, NoThread), scans |-> Idle(scans, NoScan),
                 events |-> << >>]
<1>1. Become(s) /\ halt'.at = "down"
  BY DEF Killed, Become, Down
<1>2. /\ Parts(s) /\ s.db = d /\ s.ctl = FreshController /\ s.events = << >>
      /\ s.pubs = Idle(pubs, NoThread) /\ s.polls = Idle(polls, NoThread)
      /\ s.scans = Idle(scans, NoScan)
  BY DEF Parts
<1> HIDE DEF s
<1>3. /\ s.pubs \in [PubSlots -> PubThreads] /\ \A p \in PubSlots : s.pubs[p] = NoThread
      /\ s.polls \in [PollSlots -> PollThreads] /\ s.scans \in [ScanSlots -> ScanThreads]
  BY <1>2, VariablesTyped, NewThreads DEF Idle
<1>4. Attributes(s.ctl) /\ ~s.ctl.active
  BY <1>2 DEF FreshController, Attributes
<1>5. s.events \in Seq(Calls)
  BY <1>2
<1>6. Typed(s)
  BY <1>2, <1>3, <1>4, <1>5 DEF Typed
<1>7. Silent(s)
  BY <1>3 DEF Silent, Sends, WouldSend, PublishingRuns, NoThread
<1>8. OwnSources => CountersMatch(d)
  BY SituationParts DEF SessionFits, Fit
<1>9. Fit(s)
  BY <1>2, <1>4, <1>6, <1>7, <1>8 DEF Fit, Silent
<1> QED
  BY <1>1, <1>4, <1>7, <1>9, HaltFits

\* What follows the waits.
LEMMA StoppedFit ==
  ASSUME NEW s, Fit(s), Silent(s)
  PROVE  /\ Fit(Stopped(s)) /\ Silent(Stopped(s)) /\ ~Stopped(s).ctl.active
         /\ Claims(Stopped(s).db) = {}
         /\ Kept(s.db, Stopped(s).db)
<1> DEFINE c == [s.ctl EXCEPT !.preparing = FALSE, !.opened = {}, !.open = {},
                   !.pub = NoSlot, !.poll = NoSlot, !.active = FALSE, !.pubDone = TRUE]
           d == ReleaseClaimed(s.db)
           t == [s EXCEPT !.ctl = c, !.db = d]
<1>1. Stopped(s) = t
  BY DEF Stopped, ResetSchedule, Fit, Typed, Parts, Attributes
<1>2. Attributes(c) /\ ~c.active
  BY DEF Fit, Typed, Attributes
<1>3. Kept(s.db, d) /\ d.session = s.db.session /\ d.resume = s.db.resume /\ Claims(d) = {}
  BY Released DEF Fit, Typed
<1> HIDE DEF c, d
<1>4. /\ Parts(t) /\ t.ctl = c /\ t.db = d /\ t.pubs = s.pubs
      /\ t.polls = s.polls /\ t.scans = s.scans /\ t.events = s.events
  BY DEF Fit, Typed, Parts
<1> HIDE DEF t
<1>5. Fit(t) /\ Silent(t)
  BY <1>2, <1>3, <1>4, SetFit DEF Kept
<1> QED
  BY <1>1, <1>2, <1>3, <1>4, <1>5

\* A cleared session.
LEMMA ClearFields ==
  ASSUME NEW d, Sound(d)
  PROVE  Kept(d, ClearSession(d)) /\ ClearSession(d).session = "ACTIVE"
<1> DEFINE m == [d EXCEPT !.session = "ACTIVE", !.resume = FALSE]
<1>1. m.session = "ACTIVE"
  BY DEF Sound, TypedTables, HasColumns
<1>2. ClearSession(d) \in {m, NewSession(d)}
  BY DEF ClearSession
<1> QED
  BY <1>1, <1>2, NewSessionFields, ClearKept

\* When a stop ends nobody sends: the publisher has ended, or it has been told to
\* stop and nobody waits for it any longer.
LEMMA EndsSilent == ASSUME SessionFits, StopEnds PROVE Silent(Situation)
<1>1. Fit(Situation)
  BY DEF SessionFits
<1>2. CASE ~Waits
  BY <1>2 DEF SessionFits, StopEnds
<1>3. CASE Waits
  <2>1. ~PubRunning(Situation)
    BY <1>3 DEF StopEnds, MessagingEnded, Waits
  <2> QED
    BY <1>1, <2>1, EndedSilent
<1> QED
  BY <1>2, <1>3

\* The stop ends.
LEMMA StopEndsFits == ASSUME SessionFits, StopEnds PROVE SessionFits'
<1> DEFINE s == Stopped(Situation)
           d == CASE halt.then = "pause" /\ HasResumable(s.db) -> PauseByUser(s.db)
                  [] halt.then = "decline" -> PauseByUser(s.db)
                  [] halt.then = "reset"   -> ClearSession(s.db)
                  [] OTHER                 -> s.db
           t == [s EXCEPT !.db = d]
<1>1. /\ Fit(s) /\ Silent(s) /\ ~s.ctl.active /\ Claims(s.db) = {}
      /\ Kept(Situation.db, s.db)
  BY StoppedFit, EndsSilent DEF SessionFits
<1>2. \/ Killed(d)
      \/ Become(t) /\ halt' = NotHalted
  BY DEF StopEnds
<1>3. UNCHANGED mq
  BY DEF StopEnds
<1> HIDE DEF s
<1>4. d \in {PauseByUser(s.db), ClearSession(s.db), s.db}
  <2>1. CASE halt.then = "pause" /\ HasResumable(s.db)
    BY <2>1
  <2>2. CASE halt.then = "decline"
    BY <2>2
  <2>3. CASE halt.then = "reset"
    BY <2>3
  <2>4. CASE ~(halt.then = "pause" /\ HasResumable(s.db)) /\ halt.then # "decline"
             /\ halt.then # "reset"
    BY <2>4
  <2> QED
    BY <2>1, <2>2, <2>3, <2>4
<1> HIDE DEF d
<1>5. Kept(s.db, d) /\ (d.session = "PAUSED_BY_USER" => Claims(d) = {})
  <2>1. CASE d = PauseByUser(s.db)
    BY <1>1, <2>1, PausedFields DEF Fit, Typed
  <2>2. CASE d = ClearSession(s.db)
    BY <1>1, <2>2, ClearFields DEF Fit, Typed
  <2>3. CASE d = s.db
    BY <1>1, <2>3, KeptSame DEF Fit, Typed
  <2> QED
    BY <1>4, <2>1, <2>2, <2>3
<1>6. CASE Killed(d)
  <2>1. Sound(d) /\ (CountersMatch(db) => CountersMatch(d))
    BY <1>1, <1>5, SituationParts DEF Kept
  <2> QED
    BY <1>3, <1>5, <1>6, <2>1, KilledFits
<1>7. CASE Become(t) /\ halt' = NotHalted
  <2>1. Fit(t)
    BY <1>1, <1>5, InactiveFit DEF Kept
  <2>2. halt'.at = "none"
    BY <1>7 DEF NotHalted
  <2> HIDE DEF t
  <2> QED
    BY <1>3, <1>7, <2>1, <2>2, HaltFits
<1> QED
  BY <1>2, <1>6, <1>7

\* The tables after the database has been opened again.
LEMMA ReopenFields ==
  ASSUME NEW d, Sound(d) PROVE Kept(d, Reopen(d)) /\ Claims(Reopen(d)) = {}
<1> DEFINE p == PrepareSession(d)
           r == ReleaseClaimed(p)
           m == Reopen(d)
<1>1. Kept(d, m)
  BY ReopenKept
<1>2. Sound(p)
  BY NewSessionKept DEF Kept
<1>3. m = RecoverScans(r)
  BY DEF Reopen
<1> HIDE DEF p, m
<1>4. Sound(r) /\ Claims(r) = {}
  BY <1>2, Released DEF Kept
<1> HIDE DEF r
<1>5. m.tasks = r.tasks
  BY <1>3, <1>4 DEF Sound, TypedTables, HasColumns, RecoverScans
<1>6. Claims(m) = {}
  BY <1>4, <1>5 DEF Claims, RowsIn, Rows
<1> QED
  BY <1>1, <1>6 DEF m

\* The program starts again.
LEMMA RestartFits == ASSUME SessionFits, NEW accept, Restart(accept) PROVE SessionFits'
<1> DEFINE d == Reopen(db)
           s == [Situation EXCEPT !.db = d]
           e == ResumeByUser(s.db)
           t == [s EXCEPT !.db = e]
<1>1. Become(s) \/ Become(ResumePersisted(s)) \/ Become(ResumePersisted(t))
  BY DEF Restart
<1>2. /\ Fit(Situation) /\ Silent(Situation) /\ ~Situation.ctl.active
      /\ Situation.db = db /\ Sound(db) /\ UNCHANGED mq /\ halt'.at = "none"
  BY SituationParts, VariablesTyped DEF SessionFits, Restart, Down, NotHalted
<1>3. Kept(db, d) /\ Claims(d) = {}
  BY <1>2, ReopenFields
<1> HIDE DEF d
<1>4. Fit(s)
  BY <1>2, <1>3, InactiveFit DEF Kept
<1>5. ~s.ctl.active
  BY <1>2 DEF Fit, Typed, Parts
<1> HIDE DEF s
<1>6. Kept(s.db, e) /\ e.session = "ACTIVE"
  BY <1>4, ResumeKept DEF Fit, Typed, Sound, TypedTables, HasColumns, ResumeByUser
<1> HIDE DEF e
<1>7. Fit(t)
  BY <1>4, <1>5, <1>6, InactiveFit DEF Kept
<1> HIDE DEF t
<1>8. Fit(ResumePersisted(s)) /\ Fit(ResumePersisted(t))
  BY <1>4, <1>7, ResumePersistedFit
<1> QED
  BY <1>1, <1>2, <1>4, <1>8, HaltFits

\* The invariant holds at first.
LEMMA InitFits == Init => SessionFits
<1> SUFFICES ASSUME Init PROVE SessionFits
  OBVIOUS
<1> DEFINE s == Situation
<1>1. /\ Parts(s) /\ s.db = EmptyTables(0) /\ s.ctl = FreshController /\ s.events = << >>
      /\ s.pubs = [k \in PubSlots |-> NoThread] /\ s.polls = [k \in PollSlots |-> NoThread]
      /\ s.scans = [k \in ScanSlots |-> NoScan]
  BY DEF Situation, Parts, Init
<1>2. BagToSet(mq) = {} /\ halt.at = "none"
  BY DEF Init, EmptyBag, SetToBag, BagToSet, NotHalted
<1> HIDE DEF s
<1>3. /\ s.pubs \in [PubSlots -> PubThreads] /\ \A p \in PubSlots : s.pubs[p] = NoThread
      /\ s.polls \in [PollSlots -> PollThreads] /\ s.scans \in [ScanSlots -> ScanThreads]
  BY <1>1, NewThreads
<1>4. Attributes(s.ctl) /\ ~s.ctl.active
  BY <1>1 DEF FreshController, Attributes
<1>5. s.events \in Seq(Calls)
  BY <1>1
<1>6. Sound(s.db) /\ CountersMatch(s.db) /\ s.db.session = "ACTIVE"
  <2>1. Sound(EmptyTables(0)) /\ CountersMatch(EmptyTables(0))
    BY EmptySound
  <2>2. EmptyTables(0).session = "ACTIVE"
    BY DEF EmptyTables
  <2> QED
    BY <1>1, <2>1, <2>2
<1>7. Typed(s)
  BY <1>1, <1>3, <1>4, <1>5, <1>6 DEF Typed
<1>8. Silent(s)
  BY <1>3 DEF Silent, Sends, WouldSend, PublishingRuns, NoThread
<1>9. Fit(s)
  BY <1>4, <1>6, <1>7, <1>8 DEF Fit, Silent
<1> QED
  BY <1>2, <1>9 DEF SessionFits, s

\* Every step keeps it.
LEMMA NextFits == SessionFits /\ [Next]_vars => SessionFits'
<1> SUFFICES ASSUME SessionFits, [Next]_vars PROVE SessionFits'
  OBVIOUS
<1>1. CASE UNCHANGED vars
  BY <1>1 DEF vars, SessionFits, Situation
<1>2. ASSUME NEW q \in Queues, AddFolder(q) PROVE SessionFits'
  BY <1>2, AddFolderFits
<1>3. ASSUME NEW S, \/ \E held \in BOOLEAN : HoldFolders(S, held)
                    \/ \E op \in Operations : MoveFolders(S, op)
                    \/ DeleteFolders(S)
      PROVE  SessionFits'
  BY <1>3, FolderActionsFit
<1>4. CASE Start
  BY <1>4, StartFits
<1>5. CASE Confirm
  BY <1>5, ConfirmFits
<1>6. CASE Stop \/ Refuse \/ Reset \/ Exit
  BY <1>6, StopBeginsFits DEF Stop, Refuse, Reset, Exit
<1>7. CASE StopMessagingNext
  BY <1>7, StopMessagingFits
<1>8. CASE StopEnds
  BY <1>8, StopEndsFits
<1>9. CASE Crash
  <2>1. Killed(db) /\ UNCHANGED mq
    BY <1>9 DEF Crash
  <2>2. db.session = "PAUSED_BY_USER" => Claims(db) = {}
    BY SituationParts DEF SessionFits, Fit
  <2> QED
    BY <2>1, <2>2, VariablesTyped, KilledFits
<1>10. ASSUME NEW accept \in BOOLEAN, Restart(accept) PROVE SessionFits'
  BY <1>10, RestartFits
<1>11. CASE HandleCall
  BY <1>11, HandleCallFits
<1>12. CASE (\E r \in Readings : Metrics(r)) \/ RetryTimer \/ RefreshTimer
  BY <1>12, TimersFit
<1>13. ASSUME NEW p \in PubSlots, PubRuns(p) PROVE SessionFits'
  BY <1>13, PubRunsFits
<1>14. ASSUME NEW w \in PollSlots, PollStarts(w) \/ PollTick(w) \/ PollEnd(w)
       PROVE  SessionFits'
  BY <1>14, PollRunsFits
<1>15. ASSUME NEW w \in PollSlots, NEW t \in BagToSet(mq), NEW v \in Verdicts,
              PollDeliver(w, t, v)
       PROVE  SessionFits'
  BY <1>15, PollDeliverFits
<1>16. ASSUME NEW k \in ScanSlots, ScanRuns(k) PROVE SessionFits'
  BY <1>16, ScanRunsFits
<1> QED
  BY <1>1, <1>2, <1>3, <1>4, <1>5, <1>6, <1>7, <1>8, <1>9, <1>10, <1>11, <1>12, <1>13,
     <1>14, <1>15, <1>16 DEF Next

\* The inductive invariant holds in every behaviour, whatever faults and actions
\* of the user are allowed.
THEOREM SessionAlwaysFits == Spec => []SessionFits
<1>1. Init => SessionFits
  BY InitFits
<1>2. SessionFits /\ [Next]_vars => SessionFits'
  BY NextFits
<1> QED
  BY <1>1, <1>2, PTL DEF Spec

\* Where the waits of a stop last until the threads have ended, a thread that
\* publishes is one that would send.
LEMMA PublishingSends ==
  ASSUME Waits, NEW p \in PubSlots, Publishing(p) PROVE Sends(Situation, p)
<1>1. Situation.pubs[p] = pubs[p]
  BY SituationParts
<1>2. pubs[p].run \in PublishingRuns
  BY DEF Publishing, PublishingRuns
<1> QED
  BY <1>1, <1>2 DEF Sends, WouldSend

\* Two publish threads never send at the same time, whatever calls the dispatcher
\* in whatever order, with every other fault and every action of the user.  The
\* wait of a stop for its publisher is taken to last: one that is cut off leaves a
\* publisher at its attempts (publish_worker.py:57), and a run resumed meanwhile
\* starts another beside it.
THEOREM OnePublisherAlways == "waitTimeout" \notin Allowed => (Spec => []OnePublisher)
<1> SUFFICES ASSUME "waitTimeout" \notin Allowed PROVE Spec => []OnePublisher
  OBVIOUS
<1>1. SessionFits => OnePublisher
  BY PublishingSends DEF SessionFits, Fit, OnePublisher, Waits
<1> QED
  BY <1>1, SessionAlwaysFits, PTL

\* A run is active only while its session is stored as one to be resumed.
THEOREM ActiveIsResumableAlways == Spec => []ActiveIsResumable
<1>1. SessionFits => ActiveIsResumable
  BY SituationParts DEF SessionFits, Fit, ActiveIsResumable
<1> QED
  BY <1>1, SessionAlwaysFits, PTL

\* A paused session has no run, no claim and no publisher that would still send,
\* where the wait of the stop for its publisher lasts until that has ended.
THEOREM PausedIsQuietAlways == "waitTimeout" \notin Allowed => (Spec => []PausedIsQuiet)
<1> SUFFICES ASSUME "waitTimeout" \notin Allowed PROVE Spec => []PausedIsQuiet
  OBVIOUS
<1>1. ASSUME SessionFits PROVE PausedIsQuiet
  <2> SUFFICES ASSUME db.session = "PAUSED_BY_USER"
               PROVE  /\ ~ctl.active /\ RowsIn(db, {"CLAIMED"}) = {}
                      /\ \A p \in PubSlots : ~Publishing(p)
    BY DEF PausedIsQuiet
  <2>1. ~ctl.active
    BY <1>1, SituationParts DEF SessionFits, Fit
  <2>2. RowsIn(db, {"CLAIMED"}) = {} /\ Silent(Situation)
    BY <1>1, SituationParts DEF SessionFits, Fit, Claims
  <2> QED
    BY <2>1, <2>2, PublishingSends DEF Silent, Waits
<1> QED
  BY <1>1, SessionAlwaysFits, PTL

\* When no two queues share a source folder, the counters are the tallies of the
\* rows, through crashes, restarts and repeated scans.
THEOREM CountersFollowRows == OwnSources => (Spec => []CountersMatchRows)
<1> SUFFICES ASSUME OwnSources PROVE Spec => []CountersMatchRows
  OBVIOUS
<1>1. SessionFits => CountersMatchRows
  BY SituationParts DEF SessionFits, Fit, CountersMatchRows
<1> QED
  BY <1>1, SessionAlwaysFits, PTL

-----------------------------------------------------------------------------
(* Calls that are taken and posted. *)

\* The lowest number of a set.
LEMMA LowestIn == ASSUME NEW S \in SUBSET Nat, S # {} PROVE Lowest(S) \in S
<1>1. PICK n \in S : TRUE
  OBVIOUS
<1> DEFINE L == {k \in S : k <= n}
<1>2. n \in Nat /\ L \in SUBSET (0..n) /\ L # {}
  <2>1. n \in Nat /\ \A k \in L : k \in Nat /\ k <= n
    BY <1>1
  <2>2. n \in L
    BY <1>1, <2>1
  <2>3. \A k \in L : k \in 0..n
    BY <2>1
  <2> QED
    BY <2>1, <2>2, <2>3
<1>3. \E m \in L : \A k \in L : m <= k
  <2> HIDE DEF L
  <2> QED
    BY <1>2, Least
<1>4. PICK m \in L : \A k \in L : m <= k
  BY <1>3
<1>5. \A k \in S : m <= k
  <2> SUFFICES ASSUME NEW k \in S PROVE m <= k
    OBVIOUS
  <2>1. k \in Nat /\ m \in Nat /\ m <= n
    BY <1>2, <1>4
  <2>2. CASE k <= n
    BY <1>4, <2>2
  <2>3. CASE k > n
    BY <1>2, <2>1, <2>3
  <2> QED
    BY <1>2, <2>1, <2>2, <2>3
<1>6. m \in S
  BY <1>4
<1> HIDE DEF L
<1> QED
  BY <1>5, <1>6 DEF Lowest

\* A list without its first entry.
LEMMA TailFacts ==
  ASSUME NEW X, NEW l \in Seq(X), l # << >>
  PROVE  /\ Tail(l) \in Seq(X) /\ 1 \in DOMAIN l /\ Head(l) = l[1] /\ DOMAIN l \subseteq Nat
         /\ \A i \in DOMAIN Tail(l) : i \in Nat /\ i + 1 \in DOMAIN l /\ Tail(l)[i] = l[i + 1]
         /\ \A j \in DOMAIN l : j # 1 => j - 1 \in DOMAIN Tail(l) /\ Tail(l)[j - 1] = l[j]
<1>1. DOMAIN l = 1..Len(l) /\ Len(l) \in Nat /\ Len(l) > 0
  OBVIOUS
<1>2. DOMAIN Tail(l) = 1..(Len(l) - 1) /\ \A i \in DOMAIN Tail(l) : Tail(l)[i] = l[i + 1]
  BY <1>1
<1> QED
  BY <1>1, <1>2

\* A sequence with one more element.
LEMMA AppendFacts ==
  ASSUME NEW X, NEW l \in Seq(X), NEW c \in X
  PROVE  LET m == l \o <<c>>
         IN  /\ m \in Seq(X) /\ Len(l) + 1 \in DOMAIN m /\ m[Len(l) + 1] = c
             /\ \A i \in DOMAIN l : i \in DOMAIN m /\ m[i] = l[i] /\ i < Len(l) + 1
             /\ \A i \in DOMAIN m : i \in DOMAIN l \/ i = Len(l) + 1
             /\ \A i \in DOMAIN m : i <= Len(l) + 1 /\ i \in Nat
OBVIOUS

\* The same threads and attributes, other calls.
LEMMA EventsFit ==
  ASSUME NEW s, Fit(s), NEW t, Parts(t), t.db = s.db, t.ctl = s.ctl, t.pubs = s.pubs,
         t.polls = s.polls, t.scans = s.scans, t.events \in Seq(Calls)
  PROVE  Fit(t)
<1>1. Typed(t)
  BY DEF Fit, Typed
<1>2. \A p \in PubSlots : Sends(t, p) <=> Sends(s, p)
  BY DEF Sends
<1> QED
  BY <1>1, <1>2 DEF Fit, Silent

\* The situation without its first call.
Rest(s) == [s EXCEPT !.events = Tail(s.events)]

LEMMA RestFit ==
  ASSUME NEW s, Fit(s), s.events # << >>
  PROVE  /\ Fit(Rest(s)) /\ Rest(s).events = Tail(s.events)
         /\ Rest(s).db = s.db /\ Rest(s).ctl = s.ctl /\ Rest(s).pubs = s.pubs
         /\ Rest(s).polls = s.polls /\ Rest(s).scans = s.scans
<1> DEFINE t == [s EXCEPT !.events = Tail(s.events)]
<1>1. /\ Parts(t) /\ t.events = Tail(s.events) /\ t.db = s.db /\ t.ctl = s.ctl /\ t.pubs = s.pubs
      /\ t.polls = s.polls /\ t.scans = s.scans
  BY DEF Fit, Typed, Parts
<1> HIDE DEF t
<1>2. Tail(s.events) \in Seq(Calls)
  BY DEF Fit, Typed
<1>3. Fit(t)
  BY <1>1, <1>2, EventsFit
<1> QED
  BY <1>1, <1>3 DEF t, Rest

-----------------------------------------------------------------------------
(***************************************************************************)
(* What the scans have found: a queue shown as SCANNED has a request for   *)
(* every image of its folder, through stops, crashes and repeated scans,   *)
(* in a session from which no queue is deleted.                            *)
(***************************************************************************)

ScanKinds == {"scanCompleted", "scanStopped", "scanFailed", "scanThreadFinished"}
\* The images of which queue q has a row.
Pictures(d, q) == {t.image : t \in RowsOf(d, q)}
\* The slots of threads that scan, are still to be reported or referred to.
Occupied(s) == ScanSlots \ FreeScans(s)

\* Rows are of images of their folder, and all of them are there once it is scanned.
Listing(d) ==
  /\ \A t \in Rows(d) : t.image \in ImagesIn(t.queue)
  /\ \A q \in Queues : d.scan[q] = "SCANNED" => ImagesIn(q) \subseteq Pictures(d, q)

\* A thread that scans knows what is missing in its queue.
Covers(d, thread) ==
  /\ thread.queue \in Registered(d)
  /\ Range(thread.todo) \subseteq ImagesIn(thread.queue)
  /\ thread.run = "scanning" =>
       ImagesIn(thread.queue) \subseteq Pictures(d, thread.queue) \cup Range(thread.todo)

\* Every occupied slot scans, or has scanned, a queue of its own.
OwnScans(s) ==
  \A k \in Occupied(s) :
    /\ Covers(s.db, s.scans[k])
    /\ \A j \in Occupied(s) : s.scans[j].queue = s.scans[k].queue => j = k

\* A thread reports once it no longer scans, and the end of it comes last.
InOrder(s, i) ==
  LET k == s.events[i].of
      q == s.scans[k].queue
  IN  /\ s.scans[k].run # "scanning"
      /\ s.events[i].kind = "scanCompleted" => ImagesIn(q) \subseteq Pictures(s.db, q)
      /\ s.events[i].kind = "scanThreadFinished" =>
           /\ s.scans[k].run = "exited"
           /\ \A j \in DOMAIN s.events :
                j > i /\ s.events[j].kind \in ScanKinds => s.events[j].of # k
ScanCalls(s) ==
  \A i \in DOMAIN s.events : s.events[i].kind \in ScanKinds => InOrder(s, i)

\* The controller refers to the thread that scans the queue.
ScanRefs(s) ==
  /\ s.ctl.scanning \in [Queues -> ScanSlots \cup {NoSlot}]
  /\ \A q \in Queues :
       s.ctl.scanning[q] # NoSlot => s.scans[s.ctl.scanning[q]].queue = q

\* In a run no scan has been asked to stop, so that no queue waits which has one.
Unasked(s) ==
  /\ \A k \in Occupied(s) : ~s.scans[k].stop /\ s.db.scan[s.scans[k].queue] # "WAITING"
  /\ \A i \in DOMAIN s.events : s.events[i].kind # "scanStopped"

Surveyed(s) == Listing(s.db) /\ OwnScans(s) /\ ScanCalls(s) /\ ScanRefs(s)
\* Between two slots of one turn.
Surveying(s) == Fit(s) /\ Surveyed(s) /\ (s.ctl.active => Unasked(s))

-----------------------------------------------------------------------------
(* Slots that leave the scans alone. *)

SameScans(s, t) ==
  /\ t.scans = s.scans /\ t.ctl.scanning = s.ctl.scanning /\ t.events = s.events
  /\ t.db.scan = s.db.scan /\ Rows(t.db) = Rows(s.db)
  /\ t.ctl.active => s.ctl.active

LEMMA SameScansTrans ==
  ASSUME NEW s, NEW t, NEW u, SameScans(s, t), SameScans(t, u) PROVE SameScans(s, u)
BY DEF SameScans

LEMMA SameScansSame == ASSUME NEW s PROVE SameScans(s, s)
BY DEF SameScans

\* What the rows say of the scans.
LEMMA SameRowsListed ==
  ASSUME NEW d, NEW e, Rows(e) = Rows(d), e.scan = d.scan
  PROVE  /\ \A q : Pictures(e, q) = Pictures(d, q)
         /\ Registered(e) = Registered(d)
         /\ Listing(d) => Listing(e)
         /\ \A th : Covers(d, th) => Covers(e, th)
<1>1. \A q : Pictures(e, q) = Pictures(d, q)
  BY DEF Pictures, RowsOf
<1>2. Registered(e) = Registered(d)
  BY DEF Registered
<1> QED
  BY <1>1, <1>2 DEF Listing, Covers

LEMMA SameOccupied ==
  ASSUME NEW s, NEW t, t.scans = s.scans, t.ctl.scanning = s.ctl.scanning, t.events = s.events
  PROVE  Occupied(t) = Occupied(s)
BY DEF Occupied, FreeScans, Free

\* They keep what the scans have found.
LEMMA SameSurveyed ==
  ASSUME NEW s, NEW t, Surveyed(s), SameScans(s, t)
  PROVE  Surveyed(t) /\ (Unasked(s) => Unasked(t))
<1>1. Occupied(t) = Occupied(s)
  BY SameOccupied DEF SameScans
<1>2. /\ \A q : Pictures(t.db, q) = Pictures(s.db, q)
      /\ Listing(t.db) /\ \A th : Covers(s.db, th) => Covers(t.db, th)
  BY SameRowsListed DEF SameScans, Surveyed
<1>3. OwnScans(t)
  BY <1>1, <1>2 DEF OwnScans, Surveyed, SameScans
<1>4. ScanCalls(t)
  BY <1>2 DEF ScanCalls, InOrder, Surveyed, SameScans
<1>5. ScanRefs(t)
  BY DEF ScanRefs, Surveyed, SameScans
<1>6. Unasked(s) => Unasked(t)
  BY <1>1 DEF Unasked, SameScans
<1> QED
  BY <1>2, <1>3, <1>4, <1>5, <1>6 DEF Surveyed

LEMMA SameSurveying ==
  ASSUME NEW s, NEW t, Surveying(s), SameScans(s, t), Fit(t) PROVE Surveying(t)
<1>1. t.ctl.active => s.ctl.active
  BY DEF SameScans
<1> QED
  BY <1>1, SameSurveyed DEF Surveying

\* Changes of the attributes, of the tables and of the other threads.
LEMMA CtlSame ==
  ASSUME NEW s, Typed(s), NEW c, c.scanning = s.ctl.scanning, c.active => s.ctl.active
  PROVE  SameScans(s, [s EXCEPT !.ctl = c])
<1> DEFINE t == [s EXCEPT !.ctl = c]
<1>1. t.ctl = c /\ t.db = s.db /\ t.scans = s.scans /\ t.events = s.events
  BY DEF Typed, Parts
<1> HIDE DEF t
<1>2. SameScans(s, t)
  BY <1>1 DEF SameScans
<1> QED
  BY <1>2 DEF t

LEMMA TablesSame ==
  ASSUME NEW s, Typed(s), NEW d, d.scan = s.db.scan, Rows(d) = Rows(s.db)
  PROVE  SameScans(s, [s EXCEPT !.db = d])
<1> DEFINE t == [s EXCEPT !.db = d]
<1>1. t.ctl = s.ctl /\ t.db = d /\ t.scans = s.scans /\ t.events = s.events
  BY DEF Typed, Parts
<1> HIDE DEF t
<1>2. SameScans(s, t)
  BY <1>1 DEF SameScans
<1> QED
  BY <1>2 DEF t

LEMMA PubsSame ==
  ASSUME NEW s, Typed(s), NEW ps PROVE SameScans(s, [s EXCEPT !.pubs = ps])
<1> DEFINE t == [s EXCEPT !.pubs = ps]
<1>1. t.ctl = s.ctl /\ t.db = s.db /\ t.scans = s.scans /\ t.events = s.events
  BY DEF Typed, Parts
<1> HIDE DEF t
<1>2. SameScans(s, t)
  BY <1>1 DEF SameScans
<1> QED
  BY <1>2 DEF t

LEMMA PollsSame ==
  ASSUME NEW s, Typed(s), NEW ps PROVE SameScans(s, [s EXCEPT !.polls = ps])
<1> DEFINE t == [s EXCEPT !.polls = ps]
<1>1. t.ctl = s.ctl /\ t.db = s.db /\ t.scans = s.scans /\ t.events = s.events
  BY DEF Typed, Parts
<1> HIDE DEF t
<1>2. SameScans(s, t)
  BY <1>1 DEF SameScans
<1> QED
  BY <1>2 DEF t

\* Moves of rows between statuses.
LEMMA MoveSame ==
  ASSUME NEW d, Sound(d), NEW T, NEW target
  PROVE  Move(d, T, target).scan = d.scan /\ Rows(Move(d, T, target)) = Rows(d)
BY MoveFields, MoveRows DEF Sound

LEMMA SessionSame ==
  ASSUME NEW d, Sound(d)
  PROVE  /\ \A m \in {ReleaseClaimed(d), PauseByUser(d), CompleteSession(d), SaveSettings(d),
                      ResumeByUser(d), MarkInflightRunning(d)} :
              m.scan = d.scan /\ Rows(m) = Rows(d)
         /\ \A t : \A m \in {MarkSent(d, t), MarkError(d, t)} :
              m.scan = d.scan /\ Rows(m) = Rows(d)
         /\ \A t, v : ApplyResult(d, t, v).scan = d.scan /\ Rows(ApplyResult(d, t, v)) = Rows(d)
         /\ \A T : MarkTimeouts(d, T).scan = d.scan /\ Rows(MarkTimeouts(d, T)) = Rows(d)
<1>1. \A T, target : Move(d, T, target).scan = d.scan /\ Rows(Move(d, T, target)) = Rows(d)
  BY MoveSame
<1> DEFINE r == ReleaseClaimed(d)
<1>2. r.scan = d.scan /\ Rows(r) = Rows(d) /\ Sound(r)
  BY <1>1, Released DEF ReleaseClaimed, Kept
<1> HIDE DEF r
<1>3. PauseByUser(d).scan = r.scan /\ Rows(PauseByUser(d)) = Rows(r)
  BY <1>2 DEF PauseByUser, Rows, Sound, TypedTables, HasColumns, r
<1>4. \A m \in {CompleteSession(d), SaveSettings(d), ResumeByUser(d)} :
         m.scan = d.scan /\ Rows(m) = Rows(d)
  BY DEF CompleteSession, SaveSettings, ResumeByUser, Rows, Sound, TypedTables, HasColumns
<1> QED
  BY <1>1, <1>2, <1>3, <1>4 DEF r, MarkInflightRunning, MarkSent, MarkError, ApplyResult,
     MarkTimeouts, Transition

\* The looks at publisher and poller.
LEMMA LooksScans ==
  ASSUME NEW s, Typed(s)
  PROVE  SameScans(s, PubChecked(s)) /\ SameScans(s, PollChecked(s))
<1> DEFINE c == [s.ctl EXCEPT !.pub = NoSlot]
           e == [s.ctl EXCEPT !.poll = NoSlot]
<1>1. /\ PubChecked(s) \in {s, [s EXCEPT !.ctl = c]}
      /\ PollChecked(s) \in {s, [s EXCEPT !.ctl = e]}
  BY DEF PubChecked, PollChecked
<1>2. /\ c.scanning = s.ctl.scanning /\ c.active = s.ctl.active
      /\ e.scanning = s.ctl.scanning /\ e.active = s.ctl.active
  BY DEF Typed, Attributes
<1> HIDE DEF c, e
<1>3. SameScans(s, [s EXCEPT !.ctl = c]) /\ SameScans(s, [s EXCEPT !.ctl = e])
  BY <1>2, CtlSame
<1> QED
  BY <1>1, <1>3, SameScansSame

\* A poll thread where there is none.
LEMMA EnsurePollerScans == ASSUME NEW s, Typed(s) PROVE SameScans(s, EnsurePoller(s))
<1> DEFINE w == Lowest(FreePolls(s))
           c == [s.ctl EXCEPT !.poll = w]
           ps == [s.polls EXCEPT ![w] = [NoThread EXCEPT !.run = "connecting"]]
           t == [s EXCEPT !.ctl = c, !.polls = ps]
<1>1. EnsurePoller(s) \in {s, t}
  BY DEF EnsurePoller, StartPoller
<1>2. c.scanning = s.ctl.scanning /\ c.active = s.ctl.active
  BY DEF Typed, Attributes
<1> HIDE DEF c, ps
<1>3. t.ctl = c /\ t.db = s.db /\ t.scans = s.scans /\ t.events = s.events
  BY DEF Typed, Parts
<1> HIDE DEF t
<1>4. SameScans(s, t)
  BY <1>2, <1>3 DEF SameScans
<1> QED
  BY <1>1, <1>4, SameScansSame

\* The request to stop polling.
LEMMA StopPollingScans == ASSUME NEW s, Typed(s) PROVE SameScans(s, StopPolling(s))
<1> DEFINE ps == [s.polls EXCEPT ![s.ctl.poll].stop = TRUE]
<1>1. StopPolling(s) \in {s, [s EXCEPT !.polls = ps]}
  BY DEF StopPolling
<1> HIDE DEF ps
<1> QED
  BY <1>1, PollsSame, SameScansSame

\* Queues opened.
LEMMA OpenNextScans == ASSUME NEW s, Typed(s), NEW count PROVE SameScans(s, OpenNext(s, count))
<1> DEFINE next == Only(ActiveCandidates(s.db),
                        {q \in Queues \ s.ctl.opened :
                           s.db.total[q] > 0 /\ ~FolderDone(s.db, q)})
           picked == {next[k] : k \in 1..Min({count, Len(next)})}
           c == [s.ctl EXCEPT !.opened = @ \cup picked, !.open = @ \cup picked]
<1>1. OpenNext(s, count) = [s EXCEPT !.ctl = c]
  BY DEF OpenNext
<1> HIDE DEF picked
<1>2. c.scanning = s.ctl.scanning /\ c.active = s.ctl.active
  BY DEF Typed, Attributes
<1> HIDE DEF c
<1> QED
  BY <1>1, <1>2, CtlSame

LEMMA RefreshScans ==
  ASSUME NEW s, Typed(s) PROVE SameScans(s, Refresh(s)) /\ SameScans(s, Expand(s))
<1> DEFINE over == {q \in s.ctl.open :
                      \/ s.db.scan[q] \in {"EMPTY", "ERROR"}
                      \/ s.db.scan[q] = "SCANNED" /\ FolderDone(s.db, q)}
           c == [s.ctl EXCEPT !.open = @ \ over]
           left == [s EXCEPT !.ctl = c]
           count == Min({Cardinality(over), OpenSlots(left)})
<1>1. Refresh(s) = OpenNext(left, count)
  BY DEF Refresh
<1>2. s.ctl.open \in SUBSET Queues /\ over \in SUBSET s.ctl.open
  BY DEF Typed, Attributes
<1> HIDE DEF over
<1>3. /\ Attributes(c) /\ c.active = s.ctl.active /\ c.pub = s.ctl.pub
      /\ c.scanning = s.ctl.scanning
  BY <1>2 DEF Typed, Attributes
<1> HIDE DEF c
<1>4. Calm(s, left) /\ SameScans(s, left)
  BY <1>3, CtlCalm, CtlSame
<1> HIDE DEF left, count
<1>5. SameScans(left, OpenNext(left, count))
  BY <1>4, OpenNextScans DEF Calm
<1>6. SameScans(s, Refresh(s))
  BY <1>1, <1>4, <1>5, SameScansTrans
<1> QED
  BY <1>6, OpenNextScans, SameScansSame DEF Expand

\* Nothing could be claimed.
LEMMA NothingToClaimScans ==
  ASSUME NEW s, Fit(s), Silent(s) PROVE SameScans(s, NothingToClaim(s))
<1> DEFINE k == [s.ctl EXCEPT !.active = FALSE, !.pubDone = TRUE]
           d == PauseByUser(s.db)
           a == [s EXCEPT !.ctl = k, !.db = d]
           c == [s.ctl EXCEPT !.pubDone = TRUE]
           e == [s EXCEPT !.ctl = c]
           r == PollChecked(e)
           k2 == [r.ctl EXCEPT !.active = FALSE, !.pubDone = TRUE]
           d2 == CompleteSession(r.db)
           z == [r EXCEPT !.ctl = k2, !.db = d2]
<1>0. [Deactivated(s) EXCEPT !.db = d] = a /\ [Deactivated(r) EXCEPT !.db = d2] = z
  BY DEF Deactivated
<1>1. NothingToClaim(s) \in {s, StopPolling(PollChecked(a)), StopPolling(r), z}
  BY <1>0 DEF NothingToClaim
<1>2. SameScans(s, StopPolling(PollChecked(a)))
  <2> HIDE DEF d, a
  <2>0. Kept(s.db, d) /\ Claims(d) = {}
    BY PausedFields DEF Fit, Typed, d
  <2>1. Fit([Deactivated(s) EXCEPT !.db = d])
    BY <2>0, EndedFit DEF Kept
  <2>2. Fit(a)
    BY <1>0, <2>1
  <2>3. d.scan = s.db.scan /\ Rows(d) = Rows(s.db)
    BY SessionSame DEF Fit, Typed, d
  <2>4. k.scanning = s.ctl.scanning /\ k.active = FALSE
    BY DEF Fit, Typed, Attributes
  <2> HIDE DEF k
  <2>5. a.ctl = k /\ a.db = d /\ a.scans = s.scans /\ a.events = s.events
    BY DEF Fit, Typed, Parts, a
  <2>6. SameScans(s, a)
    BY <2>3, <2>4, <2>5 DEF SameScans
  <2>7. SameScans(a, PollChecked(a)) /\ Typed(PollChecked(a))
    BY <2>2, LooksScans, PollCheckedCalm DEF Fit, Calm
  <2>8. SameScans(PollChecked(a), StopPolling(PollChecked(a)))
    BY <2>7, StopPollingScans
  <2> QED
    BY <2>6, <2>7, <2>8, SameScansTrans
<1>3. /\ Attributes(c) /\ c.active = s.ctl.active /\ c.pub = s.ctl.pub
      /\ c.scanning = s.ctl.scanning
  BY DEF Fit, Typed, Attributes
<1> HIDE DEF c, a
<1>4. Calm(s, e) /\ SameScans(s, e)
  BY <1>3, CtlCalm, CtlSame DEF Fit
<1> HIDE DEF e
<1>5. Fit(r) /\ SameScans(e, r)
  <2>1. Fit(e)
    BY <1>4, CalmFit
  <2> QED
    BY <2>1, PollCheckedCalm, CalmFit, LooksScans DEF Fit
<1>6. SameScans(s, r)
  BY <1>4, <1>5, SameScansTrans
<1> HIDE DEF r
<1>7. SameScans(s, StopPolling(r))
  BY <1>5, <1>6, StopPollingScans, SameScansTrans DEF Fit
<1>8. SameScans(r, z)
  <2>1. d2.scan = r.db.scan /\ Rows(d2) = Rows(r.db)
    BY <1>5, SessionSame DEF Fit, Typed
  <2>2. k2.scanning = r.ctl.scanning /\ k2.active = FALSE
    BY <1>5 DEF Fit, Typed, Attributes
  <2> HIDE DEF k2, d2
  <2>3. z.ctl = k2 /\ z.db = d2 /\ z.scans = r.scans /\ z.events = r.events
    BY <1>5 DEF Fit, Typed, Parts
  <2> HIDE DEF z
  <2> QED
    BY <2>1, <2>2, <2>3 DEF SameScans
<1>9. SameScans(s, z)
  BY <1>6, <1>8, SameScansTrans
<1> HIDE DEF z
<1> QED
  BY <1>1, <1>2, <1>7, <1>9, SameScansSame

\* A chunk is claimed and its publisher started.
LEMMA ClaimAndPublishScans ==
  ASSUME NEW s, Fit(s), Silent(s), s.ctl.active PROVE SameScans(s, ClaimAndPublish(s))
<1> DEFINE T == ClaimBatch(s.db, s.ctl.open, Capacity(s))
           d == Claim(s.db, T)
           t == [s EXCEPT !.db = d]
           todo == Listed(s.db, T)
           p == Lowest(FreePubs(t))
           c == [t.ctl EXCEPT !.pub = p, !.pubDone = FALSE]
           ps == [t.pubs EXCEPT ![p] = [NoThread EXCEPT !.run = "connecting", !.todo = todo]]
           u == [t EXCEPT !.ctl = c, !.pubs = ps]
<1>1. ClaimAndPublish(s) \in {s, NothingToClaim(s), u}
  BY DEF ClaimAndPublish, StartPublisher
<1>2. d.scan = s.db.scan /\ Rows(d) = Rows(s.db)
  BY MoveSame DEF Claim, Fit, Typed
<1> HIDE DEF d, ps, p
<1>3. t.ctl = s.ctl /\ t.db = d /\ t.scans = s.scans /\ t.events = s.events /\ Parts(t)
  BY DEF Fit, Typed, Parts
<1> HIDE DEF t
<1>4. c.scanning = s.ctl.scanning /\ c.active = s.ctl.active
  BY <1>3 DEF Fit, Typed, Attributes
<1> HIDE DEF c
<1>5. u.ctl = c /\ u.db = d /\ u.scans = s.scans /\ u.events = s.events
  BY <1>3 DEF Parts
<1> HIDE DEF u
<1>6. SameScans(s, u)
  BY <1>2, <1>4, <1>5 DEF SameScans
<1> QED
  BY <1>1, <1>6, NothingToClaimScans, SameScansSame

\* The dispatcher, from whatever it is called.
LEMMA DispatchScans == ASSUME NEW s, Fit(s) PROVE SameScans(s, Dispatch(s))
<1> DEFINE a == PubChecked(s)
           b == Refresh(a)
           e == Expand(b)
<1>1. CASE ~s.ctl.active \/ s.ctl.preparing \/ PubRunning(s)
  BY <1>1, SameScansSame DEF Dispatch
<1>2. CASE s.ctl.active /\ ~s.ctl.preparing /\ ~PubRunning(s)
  <2>1. Silent(s)
    BY <1>2, EndedSilent
  <2>2. Calm(s, a) /\ SameScans(s, a)
    BY PubCheckedCalm, LooksScans DEF Fit
  <2>3. Dispatch(s) = ClaimAndPublish(e)
    BY <1>2 DEF Dispatch
  <2> HIDE DEF a
  <2>4. Calm(a, b) /\ Calm(b, e) /\ SameScans(a, b) /\ SameScans(b, e)
    BY <2>2, RefreshCalm, ExpandCalm, RefreshScans DEF Calm
  <2> HIDE DEF b, e
  <2>5. Calm(s, e) /\ SameScans(s, e)
    BY <2>2, <2>4, CalmTrans, SameScansTrans
  <2>6. Fit(e) /\ Silent(e) /\ e.ctl.active
    BY <1>2, <2>1, <2>5, CalmFit DEF Calm, Silent
  <2>7. SameScans(e, ClaimAndPublish(e))
    BY <2>6, ClaimAndPublishScans
  <2> QED
    BY <2>3, <2>5, <2>7, SameScansTrans
<1> QED
  BY <1>1, <1>2

\* What follows the inventory.
LEMMA PreparedScans == ASSUME NEW s, Fit(s) PROVE SameScans(s, Prepared(s))
<1> DEFINE c == [s.ctl EXCEPT !.confirmed = TRUE]
           e == [s EXCEPT !.ctl = c]
           t == OpenNext(e, MaxInitial)
<1>1. /\ Attributes(c) /\ c.active = s.ctl.active /\ c.pub = s.ctl.pub
      /\ c.scanning = s.ctl.scanning
  BY DEF Fit, Typed, Attributes
<1>2. Prepared(s) = Dispatch(t)
  BY DEF Prepared
<1> HIDE DEF c
<1>3. Calm(s, e) /\ SameScans(s, e)
  BY <1>1, CtlCalm, CtlSame DEF Fit
<1> HIDE DEF e
<1>4. MaxInitial \in Int
  BY ControllerAssumption
<1>5. Calm(e, t) /\ SameScans(e, t)
  BY <1>3, <1>4, OpenNextCalm, OpenNextScans DEF Calm
<1> HIDE DEF t
<1>6. Fit(t)
  BY <1>3, <1>5, CalmFit
<1> QED
  BY <1>2, <1>3, <1>5, <1>6, DispatchScans, SameScansTrans

-----------------------------------------------------------------------------
(* Scans that begin. *)

\* Every queue can have a scan of its own.
SlotEach == IsFiniteSet(ScanSlots) /\ Cardinality(Queues) <= Cardinality(ScanSlots)

\* Queues keep their rows and stay registered.
Grows(d, e) == Rows(d) \subseteq Rows(e) /\ Registered(d) \subseteq Registered(e)

\* Rows more take nothing from what the scans have found.
LEMMA GrownSurveyed ==
  ASSUME NEW s, NEW t, Surveyed(s), t.scans = s.scans, t.ctl.scanning = s.ctl.scanning,
         t.events = s.events, Grows(s.db, t.db), Listing(t.db)
  PROVE  /\ Surveyed(t)
         /\ Unasked(s) /\ (\A k \in Occupied(s) : t.db.scan[s.scans[k].queue] # "WAITING")
              => Unasked(t)
<1>1. Occupied(t) = Occupied(s)
  BY SameOccupied
<1>2. \A q : Pictures(s.db, q) \subseteq Pictures(t.db, q)
  BY DEF Pictures, RowsOf, Grows
<1>3. \A th : Covers(s.db, th) => Covers(t.db, th)
  BY <1>2 DEF Covers, Grows
<1>4. OwnScans(t)
  BY <1>1, <1>3 DEF OwnScans, Surveyed
<1>5. ScanCalls(t)
  BY <1>2 DEF ScanCalls, InOrder, Surveyed
<1>6. ScanRefs(t)
  BY DEF ScanRefs, Surveyed
<1> QED
  BY <1>1, <1>4, <1>5, <1>6 DEF Surveyed, Unasked

\* What is said of a slot that is not occupied.
LEMMA FreeScanFacts ==
  ASSUME NEW s, NEW k \in FreeScans(s)
  PROVE  /\ k \notin Range(s.ctl.scanning) /\ ~Running(s.scans[k]) /\ k \in DOMAIN s.scans
         /\ \A i \in DOMAIN s.events : s.events[i].kind \in ScanKinds => s.events[i].of # k
BY DEF FreeScans, Free, ScanKinds

\* A queue that waits in a run has a slot for its scan.
LEMMA ScanSlotFree ==
  ASSUME SlotEach, NEW s, Typed(s), OwnScans(s), Unasked(s),
         NEW q \in Queues, s.db.scan[q] = "WAITING"
  PROVE  Lowest(FreeScans(s)) \in FreeScans(s)
<1>1. DOMAIN s.scans = ScanSlots
  BY DEF Typed
<1>2. FreeScans(s) \in SUBSET Nat
  BY <1>1, ControllerAssumption DEF FreeScans, Free
<1>3. ASSUME FreeScans(s) = {} PROVE FALSE
  <2> DEFINE f == [k \in ScanSlots |-> s.scans[k].queue]
  <2>1. Occupied(s) = ScanSlots
    BY <1>3 DEF Occupied
  <2>2. f \in [ScanSlots -> Queues \ {q}]
    BY <2>1 DEF OwnScans, Unasked, Covers, Registered
  <2>3. IsFiniteSet(Queues) /\ IsFiniteSet(Queues \ {q}) /\ IsFiniteSet(ScanSlots)
    BY TablesAssumption, FS_Difference DEF SlotEach
  <2>4. Cardinality(Queues \ {q}) < Cardinality(ScanSlots)
    BY <2>3, FS_RemoveElement, FS_CardinalityType DEF SlotEach
  <2> HIDE DEF f
  <2>5. \E x, y \in ScanSlots : x # y /\ f[x] = f[y]
    BY <2>2, <2>3, <2>4, FS_PigeonHole
  <2> QED
    BY <2>1, <2>5 DEF OwnScans, f
<1> QED
  BY <1>2, <1>3, LowestIn

\* A new scan of a queue that no thread has.
LEMMA ScanBegins ==
  ASSUME NEW s, Typed(s), Surveyed(s), Unasked(s), Lowest(FreeScans(s)) \in FreeScans(s),
         NEW q \in Registered(s.db), s.db.scan[q] # "WAITING",
         \A k \in Occupied(s) : s.scans[k].queue # q
  PROVE  LET t == StartScan(s, q)
         IN  Surveyed(t) /\ Unasked(t) /\ t.db = s.db
<1> DEFINE k == Lowest(FreeScans(s))
           todo == Ascending(ImagesIn(q))
           th == [NoScan EXCEPT !.run = "scanning", !.queue = q, !.todo = todo]
           c == [s.ctl EXCEPT !.scanning[q] = k]
           ss == [s.scans EXCEPT ![k] = th]
           t == [s EXCEPT !.ctl = c, !.scans = ss]
<1>0. q \in Queues
  BY DEF Registered
<1>1. StartScan(s, q) = t
  BY DEF StartScan
<1>2. Range(todo) = ImagesIn(q)
  <2>1. ImagesIn(q) \in SUBSET Images
    BY <1>0, TablesAssumption DEF ImagesIn
  <2>2. IsFiniteSet(Images) /\ Images \subseteq Int
    BY TablesAssumption
  <2>3. IsFiniteSet(ImagesIn(q)) /\ ImagesIn(q) \in SUBSET Int
    BY <2>1, <2>2, FS_Subset
  <2>4. Enumerates(todo, ImagesIn(q))
    BY <2>3, AscendingFacts
  <2> QED
    BY <2>4 DEF Enumerates, Range
<1>3. th.run = "scanning" /\ th.queue = q /\ th.todo = todo /\ th.stop = FALSE
  BY DEF NoScan
<1> HIDE DEF th, todo
<1>4. /\ k \in ScanSlots /\ k \notin Range(s.ctl.scanning)
      /\ \A i \in DOMAIN s.events : s.events[i].kind \in ScanKinds => s.events[i].of # k
  BY FreeScanFacts DEF Typed
<1>5. DOMAIN s.scans = ScanSlots /\ s.ctl.scanning \in [Queues -> ScanSlots \cup {NoSlot}]
  BY DEF Typed, Surveyed, ScanRefs
<1> HIDE DEF k
<1>6. ss[k] = th /\ DOMAIN ss = ScanSlots /\ \A j \in ScanSlots : j # k => ss[j] = s.scans[j]
  BY <1>4, <1>5
<1>7. c.scanning = [s.ctl.scanning EXCEPT ![q] = k] /\ c.active = s.ctl.active
  BY DEF Typed, Attributes
<1>8. /\ c.scanning \in [Queues -> ScanSlots \cup {NoSlot}] /\ c.scanning[q] = k
      /\ \A r \in Queues : r # q => c.scanning[r] = s.ctl.scanning[r]
  BY <1>0, <1>4, <1>5, <1>7
<1> HIDE DEF c, ss
<1>9. t.ctl = c /\ t.db = s.db /\ t.scans = ss /\ t.events = s.events
  BY DEF Typed, Parts
<1> HIDE DEF t
<1>10. ASSUME NEW j \in Occupied(t), j # k PROVE j \in Occupied(s)
  <2>1. j \in ScanSlots /\ j \notin FreeScans(t)
    BY <1>10 DEF Occupied
  <2>2. ASSUME j \in FreeScans(s) PROVE FALSE
    <3>1. /\ j \notin Range(s.ctl.scanning) /\ ~Running(s.scans[j])
          /\ \A i \in DOMAIN s.events : s.events[i].kind \in ScanKinds => s.events[i].of # j
      BY <2>2, FreeScanFacts
    <3>2. j \notin Range(t.ctl.scanning)
      BY <1>5, <1>8, <1>9, <1>10, <3>1 DEF Range
    <3> QED
      BY <1>6, <1>9, <1>10, <2>1, <3>1, <3>2 DEF FreeScans, Free, ScanKinds
  <2> QED
    BY <2>1, <2>2 DEF Occupied
<1>11. Occupied(t) \subseteq ScanSlots
  BY DEF Occupied
<1>12. OwnScans(t)
  <2>1. Covers(t.db, th)
    BY <1>2, <1>3, <1>9 DEF Covers
  <2>2. \A j \in Occupied(t) : j # k => t.scans[j] = s.scans[j]
    BY <1>6, <1>9, <1>11
  <2> QED
    BY <1>3, <1>6, <1>9, <1>10, <2>1, <2>2 DEF OwnScans, Surveyed
<1>13. ScanCalls(t)
  <2>1. \A i \in DOMAIN s.events : s.events[i].kind \in ScanKinds =>
          t.scans[s.events[i].of] = s.scans[s.events[i].of]
    <3> TAKE i \in DOMAIN s.events
    <3> HAVE s.events[i].kind \in ScanKinds
    <3>1. s.events[i] \in Calls
      BY DEF Typed
    <3>2. s.events[i].of \in ScanSlots
      BY <3>1 DEF Calls, ScanKinds
    <3> QED
      BY <1>4, <1>6, <1>9, <3>2
  <2> QED
    BY <1>9, <2>1 DEF ScanCalls, InOrder, Surveyed
<1>14. ScanRefs(t)
  <2>1. t.ctl.scanning \in [Queues -> ScanSlots \cup {NoSlot}]
    BY <1>8, <1>9
  <2>2. ASSUME NEW r \in Queues, t.ctl.scanning[r] # NoSlot
        PROVE  t.scans[t.ctl.scanning[r]].queue = r
    <3>1. CASE r = q
      BY <1>3, <1>6, <1>8, <1>9, <3>1
    <3>2. CASE r # q
      <4>1. t.ctl.scanning[r] = s.ctl.scanning[r] /\ s.ctl.scanning[r] # k
        BY <1>4, <1>5, <1>8, <1>9, <3>2 DEF Range
      <4>2. s.ctl.scanning[r] \in ScanSlots
        BY <1>5, <2>2, <4>1
      <4>3. s.scans[s.ctl.scanning[r]].queue = r
        BY <2>2, <4>1 DEF Surveyed, ScanRefs
      <4> QED
        BY <1>6, <1>9, <4>1, <4>2, <4>3
    <3> QED
      BY <3>1, <3>2
  <2> QED
    BY <2>1, <2>2 DEF ScanRefs
<1>15. Unasked(t)
  <2>1. ASSUME NEW j \in Occupied(t)
        PROVE  ~t.scans[j].stop /\ t.db.scan[t.scans[j].queue] # "WAITING"
    BY <1>3, <1>6, <1>9, <1>10, <1>11, <2>1 DEF Unasked
  <2> QED
    BY <1>9, <2>1 DEF Unasked
<1> QED
  BY <1>1, <1>9, <1>12, <1>13, <1>14, <1>15 DEF Surveyed

\* The scan state of queue q and the rows after a visit.
LEMMA ScanSet ==
  ASSUME NEW d, Sound(d), NEW q \in Registered(d), NEW state \in ScanStates \ {"NONE"}
  PROVE  LET m == SetScan(d, q, state)
         IN  /\ m.scan = [d.scan EXCEPT ![q] = state] /\ Rows(m) = Rows(d)
             /\ Registered(m) = Registered(d) /\ m.total = d.total
             /\ (Listing(d) /\ (state = "SCANNED" => ImagesIn(q) \subseteq Pictures(d, q)))
                  => Listing(m)
<1> DEFINE m == SetScan(d, q, state)
<1>1. /\ q \in Queues /\ d.scan \in [Queues -> ScanStates]
  BY DEF Registered, Sound, TypedTables, HasColumns
<1>2. m = [d EXCEPT !.scan = [d.scan EXCEPT ![q] = state]]
  BY DEF SetScan
<1>3. m.scan = [d.scan EXCEPT ![q] = state] /\ m.tasks = d.tasks /\ m.total = d.total
  BY <1>2 DEF Sound, TypedTables, HasColumns
<1> HIDE DEF m
<1>4. Rows(m) = Rows(d) /\ Registered(m) = Registered(d)
  BY <1>1, <1>3 DEF Rows, Registered
<1>5. \A r : Pictures(m, r) = Pictures(d, r)
  BY <1>4 DEF Pictures, RowsOf
<1>6. \A r \in Queues : r # q => m.scan[r] = d.scan[r]
  BY <1>1, <1>3
<1>7. m.scan[q] = state
  BY <1>1, <1>3
<1> QED
  BY <1>3, <1>4, <1>5, <1>6, <1>7 DEF Listing, m

\* A queue that takes over the images of a sibling has all of its own.
LEMMA PopulatedListing ==
  ASSUME NEW d, Sound(d), Listing(d), NEW q \in Queues, CanPopulate(d, q)
  PROVE  LET m == Populate(d, q)
         IN  /\ Listing(m) /\ Grows(d, m)
             /\ m.scan[q] # "WAITING" /\ \A r \in Queues : r # q => m.scan[r] = d.scan[r]
<1> DEFINE C == {r \in Queues \ {q} : /\ SourceOf[r] = SourceOf[q]
                                      /\ d.scan[r] \in {"SCANNED", "EMPTY"}}
           r == Head(Siblings(d, q))
           S == {t.image : t \in RowsOf(d, r)}
           N == NewRows(d, q, S)
           m == Populate(d, q)
<1>0. q \in Registered(d)
  BY DEF CanPopulate, Registered
<1>1. r \in C
  <2>1. Siblings(d, q) = Only(d.order, C) /\ Siblings(d, q) # << >>
    BY DEF Siblings, CanPopulate
  <2>2. C \in SUBSET Queues
    OBVIOUS
  <2> HIDE DEF C
  <2>3. Siblings(d, q) \in Seq(C)
    BY <2>1, <2>2, OrderPart
  <2> QED
    BY <2>1, <2>3
<1>2. /\ r \in Queues /\ r # q /\ ImagesIn(r) = ImagesIn(q)
      /\ d.scan[r] \in {"SCANNED", "EMPTY"}
  BY <1>1 DEF ImagesIn
<1>3. m = IF d.scan[r] = "EMPTY" THEN SetScan(d, q, "EMPTY") ELSE Populated(d, q, N)
  BY DEF Populate
<1> HIDE DEF C, r, m
<1>4. CASE d.scan[r] = "EMPTY"
  <2>1. /\ m.scan = [d.scan EXCEPT ![q] = "EMPTY"] /\ Rows(m) = Rows(d)
        /\ Registered(m) = Registered(d) /\ Listing(m)
    BY <1>0, <1>3, <1>4, ScanSet DEF ScanStates
  <2>2. d.scan \in [Queues -> ScanStates]
    BY DEF Sound, TypedTables, HasColumns
  <2> QED
    BY <2>1, <2>2 DEF Grows, m
<1>5. CASE d.scan[r] # "EMPTY"
  <2>1. S = Pictures(d, r) /\ ImagesIn(q) \subseteq S
    BY <1>2, <1>5 DEF Pictures, Listing
  <2>2. S \in SUBSET Images /\ S \subseteq ImagesIn(q)
    BY <1>2 DEF RowsOf, Sound, TypedTables, Requests, Listing
  <2> HIDE DEF S
  <2>3. /\ Cardinality(N) \in Nat
        /\ \A t \in N : t.queue = q /\ t.image \in Missing(d, q, S)
    BY <2>2, NewRowsFacts
  <2>4. HasColumns(d) /\ d.scan \in [Queues -> ScanStates]
    BY DEF Sound, TypedTables, HasColumns
  <2>5. ASSUME NEW i \in Missing(d, q, S) PROVE \E t \in N : t.image = i /\ t.queue = q
    <3> DEFINE t == [queue |-> q, image |-> i, gen |-> d.gen]
    <3>1. t \in N /\ t.image = i /\ t.queue = q
      BY DEF NewRows
    <3> QED
      BY <3>1
  <2> HIDE DEF N
  <2> DEFINE e == Populated(d, q, N)
  <2>6. /\ HasColumns(e)
        /\ e.tasks = WithRows(d, N) /\ e.scan = [d.scan EXCEPT ![q] = "SCANNED"]
        /\ e.order = d.order
        /\ e.total = [d.total EXCEPT ![q] = Cardinality(N)]
        /\ e.count = [d.count EXCEPT ![q]["PENDING"] = Cardinality(N)]
    BY <2>3, <2>4, PopulatedColumns
  <2>7. m.tasks = WithRows(d, N) /\ m.scan = [d.scan EXCEPT ![q] = "SCANNED"]
    BY <1>3, <1>5, <2>6
  <2>8. Rows(m) = Rows(d) \cup N
    BY <2>7 DEF Rows, WithRows
  <2>9. m.scan[q] = "SCANNED" /\ \A x \in Queues : x # q => m.scan[x] = d.scan[x]
    BY <2>4, <2>7
  <2>10. Grows(d, m)
    BY <1>0, <2>8, <2>9 DEF Grows, Registered
  <2>11. \A t \in Rows(m) : t.image \in ImagesIn(t.queue)
    BY <2>2, <2>3, <2>8 DEF Listing, Missing
  <2>12. S \subseteq Pictures(m, q)
    <3> SUFFICES ASSUME NEW i \in S PROVE \E t \in Rows(m) : t.queue = q /\ t.image = i
      BY DEF Pictures, RowsOf
    <3>1. CASE i \in Missing(d, q, S)
      BY <2>5, <2>8, <3>1
    <3>2. CASE i \notin Missing(d, q, S)
      BY <2>8, <3>2 DEF Missing, RowsOf
    <3> QED
      BY <3>1, <3>2
  <2>13. \A x : Pictures(d, x) \subseteq Pictures(m, x)
    BY <2>8 DEF Pictures, RowsOf
  <2>14. Listing(m)
    BY <2>1, <2>9, <2>11, <2>12, <2>13 DEF Listing
  <2> QED
    BY <2>9, <2>10, <2>14 DEF m
<1> QED
  BY <1>4, <1>5

\* A visit to a waiting queue in a run.
LEMMA VisitSurveying ==
  ASSUME SlotEach, NEW s, Surveying(s), s.ctl.active,
         NEW q \in Queues, s.db.scan[q] = "WAITING"
  PROVE  /\ Surveying(Visit(s, q)) /\ Visit(s, q).ctl.active
         /\ \A r \in Queues : r # q => Visit(s, q).db.scan[r] = s.db.scan[r]
<1>1. /\ Typed(s) /\ Sound(s.db) /\ Surveyed(s) /\ Unasked(s) /\ Listing(s.db)
      /\ q \in Registered(s.db) /\ s.db.scan \in [Queues -> ScanStates]
  BY DEF Surveying, Surveyed, Fit, Typed, Registered, Sound, TypedTables, HasColumns
<1>2. Fit(Visit(s, q)) /\ Visit(s, q).ctl.active
  BY <1>1, VisitCalm, CalmFit DEF Surveying, Calm
<1>3. \A k \in Occupied(s) : s.scans[k].queue # q
  BY <1>1 DEF Unasked
<1>4. Occupied(s) \subseteq ScanSlots /\ \A k \in Occupied(s) : s.scans[k].queue \in Queues
  BY <1>1 DEF Occupied, Surveyed, OwnScans, Covers, Registered
<1>5. ASSUME CanPopulate(s.db, q)
      PROVE  LET t == [s EXCEPT !.db = Populate(s.db, q)]
             IN  /\ Surveyed(t) /\ Unasked(t)
                 /\ \A r \in Queues : r # q => t.db.scan[r] = s.db.scan[r]
  <2> DEFINE d == Populate(s.db, q)
             t == [s EXCEPT !.db = d]
  <2>1. /\ Listing(d) /\ Grows(s.db, d)
        /\ \A r \in Queues : r # q => d.scan[r] = s.db.scan[r]
    BY <1>1, <1>5, PopulatedListing
  <2> HIDE DEF d
  <2>2. t.ctl = s.ctl /\ t.db = d /\ t.scans = s.scans /\ t.events = s.events
    BY <1>1 DEF Typed, Parts
  <2> HIDE DEF t
  <2>3. \A k \in Occupied(s) : t.db.scan[s.scans[k].queue] # "WAITING"
    BY <1>1, <1>3, <1>4, <2>1, <2>2 DEF Unasked
  <2>4. Surveyed(t) /\ Unasked(t)
    BY <1>1, <2>1, <2>2, <2>3, GrownSurveyed
  <2> QED
    BY <2>1, <2>2, <2>4 DEF d, t
<1>6. LET t == StartScan([s EXCEPT !.db = SetScan(s.db, q, "SCANNING")], q)
      IN  /\ Surveyed(t) /\ Unasked(t)
          /\ \A r \in Queues : r # q => t.db.scan[r] = s.db.scan[r]
  <2> DEFINE d == SetScan(s.db, q, "SCANNING")
             t == [s EXCEPT !.db = d]
             u == StartScan(t, q)
  <2>1. /\ d.scan = [s.db.scan EXCEPT ![q] = "SCANNING"] /\ Rows(d) = Rows(s.db)
        /\ Registered(d) = Registered(s.db) /\ Listing(d)
    BY <1>1, ScanSet DEF ScanStates
  <2>2. d.scan[q] = "SCANNING" /\ \A r \in Queues : r # q => d.scan[r] = s.db.scan[r]
    BY <1>1, <2>1
  <2>3. Typed(t)
    BY <1>1, SetScanCalm DEF ScanStates, Calm
  <2> HIDE DEF d
  <2>4. t.ctl = s.ctl /\ t.db = d /\ t.scans = s.scans /\ t.events = s.events
    BY <1>1 DEF Typed, Parts
  <2> HIDE DEF t
  <2>5. Grows(s.db, t.db)
    BY <2>1, <2>4 DEF Grows
  <2>6. \A k \in Occupied(s) : t.db.scan[s.scans[k].queue] # "WAITING"
    BY <1>1, <1>3, <1>4, <2>2, <2>4 DEF Unasked
  <2>7. Surveyed(t) /\ Unasked(t)
    BY <1>1, <2>1, <2>4, <2>5, <2>6, GrownSurveyed
  <2>8. FreeScans(t) = FreeScans(s) /\ Occupied(t) = Occupied(s)
    BY <2>4 DEF FreeScans, Free, Occupied
  <2>9. Lowest(FreeScans(t)) \in FreeScans(t)
    BY <1>1, <2>8, ScanSlotFree DEF Surveyed
  <2>10. /\ q \in Registered(t.db) /\ t.db.scan[q] # "WAITING"
         /\ \A k \in Occupied(t) : t.scans[k].queue # q
    BY <1>1, <1>3, <2>1, <2>2, <2>4, <2>8
  <2>11. Surveyed(u) /\ Unasked(u) /\ u.db = t.db
    BY <2>3, <2>7, <2>9, <2>10, ScanBegins
  <2> HIDE DEF u
  <2> QED
    BY <2>2, <2>4, <2>11 DEF u, t, d
<1> QED
  BY <1>1, <1>2, <1>5, <1>6 DEF Visit, Surveying

\* The round over the waiting queues in a run.
LEMMA SweepSurveying ==
  ASSUME SlotEach, NEW s, Surveying(s), s.ctl.active
  PROVE  Surveying(Sweep(s)) /\ Sweep(s).ctl.active
<1> DEFINE waiting == Waiting(s.db)
           n == Len(waiting)
           after[i \in 0..Len(waiting)] ==
             IF i = 0 THEN s ELSE Visit(after[i-1], waiting[i])
<1>1. /\ waiting \in Seq(Queues)
      /\ \A i \in DOMAIN waiting : s.db.scan[waiting[i]] = "WAITING"
      /\ \A i, j \in DOMAIN waiting : waiting[i] = waiting[j] => i = j
  <2> DEFINE C == {q \in Queues : s.db.scan[q] \in {"WAITING"}}
  <2>1. C \in SUBSET Queues /\ waiting = Only(s.db.order, C)
    BY DEF Waiting, InState
  <2>2. \A q \in C : q \in Queues /\ s.db.scan[q] = "WAITING"
    OBVIOUS
  <2> HIDE DEF C, waiting
  <2>3. waiting \in Seq(C) /\ Enumerates(waiting, Registered(s.db) \cap C)
    BY <2>1, OrderPart DEF Surveying, Fit, Typed
  <2>4. \A i \in DOMAIN waiting : waiting[i] \in C
    BY <2>3
  <2> QED
    BY <2>2, <2>3, <2>4 DEF Enumerates
<1>2. Sweep(s) = after[n]
  BY DEF Sweep
<1> HIDE DEF waiting
<1>3. n \in Nat /\ DOMAIN waiting = 1..n /\ \A i \in 1..n : waiting[i] \in Queues
  BY <1>1
<1>4. PICK f : Visits(f, n, s, waiting)
  BY <1>3, VisitsExist
<1>5. f = [i \in 0..n |-> IF i = 0 THEN s ELSE Visit(f[i-1], waiting[i])]
  BY <1>4 DEF Visits
<1> HIDE DEF after
<1>6. after = [i \in 0..n |-> IF i = 0 THEN s ELSE Visit(after[i-1], waiting[i])]
  BY <1>5 DEF after
<1> HIDE DEF n
<1> DEFINE Awaits(i) == /\ Surveying(after[i]) /\ after[i].ctl.active
                        /\ \A j \in 1..n : j > i => after[i].db.scan[waiting[j]] = "WAITING"
           G == {i \in 0..n : Awaits(i)}
<1>7. 0 \in G
  <2>1. after[0] = s
    BY <1>3, <1>6
  <2> QED
    BY <1>1, <1>3, <2>1
<1>8. ASSUME NEW i \in 0..n, i < n, i \in G PROVE i + 1 \in G
  <2>1. /\ i + 1 \in 0..n /\ i + 1 \in 1..n /\ i + 1 # 0 /\ (i + 1) - 1 = i /\ i + 1 > i
        /\ \A j \in 1..n : j > i + 1 => j > i /\ j # i + 1
    BY <1>3, <1>8
  <2>2. after[i + 1] = Visit(after[i], waiting[i + 1])
    BY <1>6, <2>1
  <2>3. /\ Surveying(after[i]) /\ after[i].ctl.active
        /\ \A j \in 1..n : j > i => after[i].db.scan[waiting[j]] = "WAITING"
    BY <1>8
  <2>4. /\ waiting[i + 1] \in Queues /\ after[i].db.scan[waiting[i + 1]] = "WAITING"
    BY <1>3, <2>1, <2>3
  <2>5. /\ Surveying(after[i + 1]) /\ after[i + 1].ctl.active
        /\ \A r \in Queues : r # waiting[i + 1] =>
             after[i + 1].db.scan[r] = after[i].db.scan[r]
    BY <2>2, <2>3, <2>4, VisitSurveying
  <2>6. ASSUME NEW j \in 1..n, j > i + 1
        PROVE  after[i + 1].db.scan[waiting[j]] = "WAITING"
    <3>1. waiting[j] \in Queues /\ waiting[j] # waiting[i + 1] /\ j > i
      BY <1>1, <1>3, <2>1, <2>6
    <3> QED
      BY <2>3, <2>5, <3>1
  <2> QED
    BY <2>1, <2>5, <2>6
<1>9. n \in G
  <2> HIDE DEF G
  <2>1. 0..n \subseteq G
    BY <1>3, <1>7, <1>8, Upward
  <2> QED
    BY <1>3, <2>1
<1> QED
  BY <1>2, <1>9

\* The inventory goes on.
LEMMA InventorySurveying ==
  ASSUME SlotEach, NEW s, Surveying(s) PROVE Surveying(Inventory(s))
<1> DEFINE swept == Sweep(s)
           c == [swept.ctl EXCEPT !.preparing = FALSE]
           ready == [swept EXCEPT !.ctl = c]
           e == [ready.ctl EXCEPT !.asking = TRUE]
           asked == [ready EXCEPT !.ctl = e]
<1>1. CASE ~s.ctl.active
  BY <1>1 DEF Inventory
<1>2. CASE s.ctl.active
  <2>1. Inventory(s) \in {s, swept, asked, Prepared(ready)}
    BY DEF Inventory
  <2>2. Surveying(swept)
    BY <1>2, SweepSurveying
  <2> HIDE DEF swept
  <2>3. Fit(swept)
    BY <2>2 DEF Surveying
  <2>4. /\ Attributes(c) /\ c.active = swept.ctl.active /\ c.pub = swept.ctl.pub
        /\ c.scanning = swept.ctl.scanning
    BY <2>3 DEF Fit, Typed, Attributes
  <2> HIDE DEF c
  <2>5. Fit(ready) /\ SameScans(swept, ready)
    BY <2>3, <2>4, CtlCalm, CalmFit, CtlSame DEF Fit
  <2> HIDE DEF ready
  <2>6. Surveying(ready)
    BY <2>2, <2>5, SameSurveying
  <2>7. /\ Attributes(e) /\ e.active = ready.ctl.active /\ e.pub = ready.ctl.pub
        /\ e.scanning = ready.ctl.scanning
    BY <2>5 DEF Fit, Typed, Attributes
  <2> HIDE DEF e
  <2>8. Fit(asked) /\ SameScans(ready, asked)
    BY <2>5, <2>7, CtlCalm, CalmFit, CtlSame DEF Fit
  <2> HIDE DEF asked
  <2>9. Surveying(asked)
    BY <2>6, <2>8, SameSurveying
  <2>10. Surveying(Prepared(ready))
    BY <2>5, <2>6, PreparedScans, PreparedFit, SameSurveying
  <2> QED
    BY <2>1, <2>2, <2>9, <2>10
<1> QED
  BY <1>1, <1>2

\* The run begins when no thread scans and none is to be reported.
LEMMA StartSessionSurveying ==
  ASSUME SlotEach, NEW s, Fit(s), Surveyed(s), ~s.ctl.active, Occupied(s) = {}
  PROVE  Surveying(StartSession(s))
<1> DEFINE r == RunBegun(s)
           polled == RunPolled(s)
           e == [polled.ctl EXCEPT !.preparing = TRUE]
           t == [polled EXCEPT !.ctl = e]
<1>1. StartSession(s) \in {s, Inventory(t)}
  <2>1. StartSession(s) \in {s, Inventory([polled EXCEPT !.ctl.preparing = TRUE])}
    BY RunBegins
  <2>2. [polled EXCEPT !.ctl.preparing = TRUE] = t
    OBVIOUS
  <2> HIDE DEF t, polled
  <2> QED
    BY <2>1, <2>2
<1>2. Surveying(s)
  BY DEF Surveying
<1>3. /\ Fit(r) /\ r.events = s.events /\ r.scans = s.scans
      /\ r.ctl.scanning = s.ctl.scanning
      /\ r.db.scan = s.db.scan /\ Rows(r.db) = Rows(s.db)
  <2> DEFINE d == SaveSettings(s.db)
             c == [s.ctl EXCEPT !.preparing = FALSE, !.opened = {}, !.open = {},
                     !.confirmed = HasInflight(s.db), !.active = TRUE, !.pubDone = TRUE]
  <2>1. r = [s EXCEPT !.db = d, !.ctl = c] /\ Fit(r)
    BY RunBegunFit DEF RunBegun
  <2>2. c.scanning = s.ctl.scanning
    BY DEF Fit, Typed, Attributes
  <2>3. d.scan = s.db.scan /\ Rows(d) = Rows(s.db)
    BY SessionSame DEF Fit, Typed
  <2> HIDE DEF r, d, c
  <2>4. r.db = d /\ r.ctl = c /\ r.scans = s.scans /\ r.events = s.events
    BY <2>1 DEF Fit, Typed, Parts
  <2> QED
    BY <2>1, <2>2, <2>3, <2>4
<1> HIDE DEF r
<1>4. Surveyed(r) /\ Unasked(r)
  <2>1. Occupied(r) = {} /\ Listing(r.db) /\ Grows(s.db, r.db)
    BY <1>3, SameOccupied, SameRowsListed DEF Grows, Surveyed
  <2>2. Surveyed(r)
    BY <1>3, <2>1, GrownSurveyed
  <2>3. ASSUME NEW i \in DOMAIN r.events, r.events[i].kind = "scanStopped" PROVE FALSE
    <3>1. r.events[i] \in Calls
      BY <1>3, <2>3 DEF Fit, Typed
    <3>2. r.events[i].of \in ScanSlots
      BY <2>3, <3>1 DEF Calls
    <3>3. r.events[i].of \in FreeScans(r)
      BY <2>1, <3>2 DEF Occupied
    <3> QED
      BY <2>3, <3>3, FreeScanFacts DEF ScanKinds
  <2> QED
    BY <2>1, <2>2, <2>3 DEF Unasked
<1>5. Surveying(r)
  BY <1>3, <1>4 DEF Surveying
<1>6. Surveying(EnsurePoller(PollChecked(r)))
  <2>1. Fit(PollChecked(r)) /\ SameScans(r, PollChecked(r))
    BY <1>3, PollCheckedCalm, CalmFit, LooksScans DEF Fit
  <2>2. Fit(EnsurePoller(PollChecked(r)))
    BY <2>1, EnsurePollerCalm, CalmFit DEF Fit
  <2>3. SameScans(PollChecked(r), EnsurePoller(PollChecked(r)))
    BY <2>1, EnsurePollerScans DEF Fit
  <2> QED
    BY <1>5, <2>1, <2>2, <2>3, SameSurveying
<1>7. Surveying(polled)
  BY <1>5, <1>6 DEF RunPolled, r
<1> HIDE DEF polled
<1>8. /\ Attributes(e) /\ e.active = polled.ctl.active /\ e.pub = polled.ctl.pub
      /\ e.scanning = polled.ctl.scanning
  BY <1>7 DEF Surveying, Fit, Typed, Attributes
<1> HIDE DEF e
<1>9. Fit(t) /\ SameScans(polled, t)
  BY <1>7, <1>8, CtlCalm, CalmFit, CtlSame DEF Surveying, Fit
<1> HIDE DEF t
<1>10. Surveying(t)
  BY <1>7, <1>9, SameSurveying
<1> QED
  BY <1>1, <1>2, <1>10, InventorySurveying

\* The resumption of a run after a start of the program.
LEMMA ResumePersistedSurveying ==
  ASSUME SlotEach, NEW s, Surveying(s), Occupied(s) = {}
  PROVE  Surveying(ResumePersisted(s))
BY StartSessionSurveying DEF ResumePersisted, Surveying

-----------------------------------------------------------------------------
(* Scans that end. *)

\* References given up, and the first call taken.
LEMMA LessSurveyed ==
  ASSUME NEW s, Typed(s), Surveyed(s), NEW t, t.scans = s.scans, t.db = s.db,
         t.ctl.scanning \in [Queues -> ScanSlots \cup {NoSlot}],
         \A q \in Queues : t.ctl.scanning[q] \in {s.ctl.scanning[q], NoSlot},
         t.events = s.events \/ (s.events # << >> /\ t.events = Tail(s.events))
  PROVE  /\ Occupied(t) \subseteq Occupied(s) /\ Surveyed(t)
         /\ Unasked(s) => Unasked(t)
<1>1. PICK n \in {0, 1} :
        \A i \in DOMAIN t.events :
          i \in Nat /\ i + n \in DOMAIN s.events /\ t.events[i] = s.events[i + n]
  <2>1. CASE t.events = s.events
    <3>1. \A i \in DOMAIN t.events : i \in Nat /\ i + 0 = i
      BY <2>1 DEF Typed
    <3> QED
      BY <2>1, <3>1
  <2>2. CASE s.events # << >> /\ t.events = Tail(s.events)
    BY <2>2, TailFacts DEF Typed
  <2> QED
    BY <2>1, <2>2
<1>2. NoSlot \notin ScanSlots /\ DOMAIN s.ctl.scanning = Queues
  BY ControllerAssumption DEF NoSlot, Surveyed, ScanRefs
<1>3. Occupied(t) \subseteq Occupied(s)
  <2> SUFFICES ASSUME NEW k \in Occupied(t), k \in FreeScans(s) PROVE FALSE
    BY DEF Occupied
  <2>1. k \in ScanSlots /\ k \notin FreeScans(t)
    BY DEF Occupied
  <2>2. /\ k \notin Range(s.ctl.scanning) /\ ~Running(s.scans[k]) /\ k \in DOMAIN s.scans
        /\ \A i \in DOMAIN s.events : s.events[i].kind \in ScanKinds => s.events[i].of # k
    BY FreeScanFacts
  <2>3. k \notin Range(t.ctl.scanning)
    BY <1>2, <2>1, <2>2 DEF Range
  <2>4. \A i \in DOMAIN t.events : t.events[i].kind \in ScanKinds => t.events[i].of # k
    BY <1>1, <2>2
  <2> QED
    BY <2>1, <2>2, <2>3, <2>4 DEF FreeScans, Free, ScanKinds
<1>4. OwnScans(t)
  BY <1>3 DEF OwnScans, Surveyed
<1>5. ScanCalls(t)
  <2> SUFFICES ASSUME NEW i \in DOMAIN t.events, t.events[i].kind \in ScanKinds
               PROVE  InOrder(t, i)
    BY DEF ScanCalls, InOrder
  <2>1. i + n \in DOMAIN s.events /\ t.events[i] = s.events[i + n]
    BY <1>1
  <2>2. \A j \in DOMAIN t.events :
          /\ j + n \in DOMAIN s.events /\ t.events[j] = s.events[j + n]
          /\ j > i => j + n > i + n
    BY <1>1
  <2> QED
    BY <2>1, <2>2 DEF ScanCalls, InOrder, Surveyed
<1>6. ScanRefs(t)
  BY DEF ScanRefs, Surveyed
<1>7. Unasked(s) => Unasked(t)
  BY <1>1, <1>3 DEF Unasked
<1> QED
  BY <1>3, <1>4, <1>5, <1>6, <1>7 DEF Surveyed

\* The first call is taken.
LEMMA RestSurveying ==
  ASSUME NEW s, Surveying(s), s.events # << >>
  PROVE  /\ Surveying(Rest(s)) /\ Rest(s).events = Tail(s.events)
         /\ Rest(s).db = s.db /\ Rest(s).ctl = s.ctl /\ Rest(s).scans = s.scans
<1> DEFINE t == Rest(s)
<1>1. Fit(t) /\ t.events = Tail(s.events) /\ t.db = s.db /\ t.ctl = s.ctl /\ t.scans = s.scans
  BY RestFit DEF Surveying
<1> HIDE DEF t
<1>2. /\ t.ctl.scanning \in [Queues -> ScanSlots \cup {NoSlot}]
      /\ \A q \in Queues : t.ctl.scanning[q] \in {s.ctl.scanning[q], NoSlot}
  BY <1>1 DEF Surveying, Surveyed, ScanRefs
<1>3. Surveyed(t) /\ (Unasked(s) => Unasked(t))
  BY <1>1, <1>2, LessSurveyed DEF Surveying, Fit
<1>4. Surveying(t)
  BY <1>1, <1>3 DEF Surveying
<1> QED
  BY <1>1, <1>4 DEF t

\* What is known when the first call is one of a scan.
LEMMA HeadScan ==
  ASSUME NEW s, Typed(s), Surveyed(s), s.events # << >>, Head(s.events).kind \in ScanKinds
  PROVE  LET k == Head(s.events).of
             q == s.scans[k].queue
         IN  /\ k \in Occupied(s) /\ k \in ScanSlots /\ q \in Registered(s.db) /\ q \in Queues
             /\ s.scans[k].run # "scanning"
             /\ \A j \in Occupied(s) : s.scans[j].queue = q => j = k
             /\ \A r \in Queues : s.ctl.scanning[r] = k => r = q
             /\ Head(s.events).kind = "scanCompleted" => ImagesIn(q) \subseteq Pictures(s.db, q)
             /\ Head(s.events).kind = "scanStopped" => ~Unasked(s)
             /\ Head(s.events).kind = "scanThreadFinished" =>
                  /\ s.scans[k].run = "exited"
                  /\ \A i \in DOMAIN Tail(s.events) :
                       Tail(s.events)[i].kind \in ScanKinds => Tail(s.events)[i].of # k
<1> DEFINE k == Head(s.events).of
           q == s.scans[k].queue
<1>1. /\ 1 \in DOMAIN s.events /\ Head(s.events) = s.events[1] /\ s.events[1] \in Calls
      /\ \A i \in DOMAIN Tail(s.events) :
           i \in Nat /\ i + 1 \in DOMAIN s.events /\ Tail(s.events)[i] = s.events[i + 1]
      /\ DOMAIN Tail(s.events) = 1..Len(Tail(s.events))
  BY TailFacts DEF Typed
<1>2. k \in ScanSlots /\ s.events[1].of = k /\ s.events[1].kind \in ScanKinds
  BY <1>1 DEF Calls, ScanKinds
<1>3. k \in Occupied(s)
  BY <1>1, <1>2, FreeScanFacts DEF Occupied
<1>4. /\ q \in Registered(s.db) /\ q \in Queues
      /\ \A j \in Occupied(s) : s.scans[j].queue = q => j = k
  BY <1>3 DEF Surveyed, OwnScans, Covers, Registered
<1>5. /\ s.scans[k].run # "scanning"
      /\ s.events[1].kind = "scanCompleted" => ImagesIn(q) \subseteq Pictures(s.db, q)
      /\ s.events[1].kind = "scanThreadFinished" =>
           /\ s.scans[k].run = "exited"
           /\ \A j \in DOMAIN s.events :
                j > 1 /\ s.events[j].kind \in ScanKinds => s.events[j].of # k
  BY <1>1, <1>2 DEF Surveyed, ScanCalls, InOrder
<1>6. \A i \in DOMAIN Tail(s.events) : i + 1 \in DOMAIN s.events /\ i + 1 > 1
  BY <1>1
<1>7. \A r \in Queues : s.ctl.scanning[r] = k => r = q
  BY <1>2, ControllerAssumption DEF Surveyed, ScanRefs, NoSlot
<1>8. s.events[1].kind = "scanStopped" => ~Unasked(s)
  BY <1>1 DEF Unasked
<1> HIDE DEF k, q
<1>9. s.events[1].kind = "scanThreadFinished" =>
        \A i \in DOMAIN Tail(s.events) :
          Tail(s.events)[i].kind \in ScanKinds => Tail(s.events)[i].of # k
  BY <1>1, <1>5, <1>6
<1> QED
  BY <1>1, <1>2, <1>3, <1>4, <1>5, <1>7, <1>8, <1>9 DEF k, q

\* Threads told to stop or to quit.
LEMMA ToldSurveyed ==
  ASSUME NEW s, Typed(s), Surveyed(s), NEW t, t.db = s.db, t.events = s.events,
         t.ctl.scanning = s.ctl.scanning, DOMAIN t.scans = ScanSlots,
         \A k \in ScanSlots : /\ t.scans[k].run = s.scans[k].run
                              /\ t.scans[k].queue = s.scans[k].queue
                              /\ t.scans[k].todo = s.scans[k].todo
  PROVE  /\ Occupied(t) = Occupied(s) /\ Surveyed(t)
         /\ Unasked(s) /\ (\A k \in ScanSlots : t.scans[k].stop = s.scans[k].stop) => Unasked(t)
<1>1. Occupied(t) = Occupied(s)
  <2>1. DOMAIN s.scans = ScanSlots
    BY DEF Typed
  <2>2. \A k \in ScanSlots : Running(t.scans[k]) <=> Running(s.scans[k])
    BY DEF Running
  <2> QED
    BY <2>1, <2>2 DEF Occupied, FreeScans, Free
<1>2. Occupied(s) \subseteq ScanSlots
  BY DEF Occupied
<1>3. OwnScans(t)
  BY <1>1, <1>2 DEF OwnScans, Covers, Surveyed
<1>4. \A i \in DOMAIN s.events : s.events[i].kind \in ScanKinds => s.events[i].of \in ScanSlots
  <2> TAKE i \in DOMAIN s.events
  <2> HAVE s.events[i].kind \in ScanKinds
  <2>1. s.events[i] \in Calls
    BY DEF Typed
  <2> QED
    BY <2>1 DEF Calls, ScanKinds
<1>5. ScanCalls(t)
  BY <1>4 DEF ScanCalls, InOrder, Surveyed
<1>6. ScanRefs(t)
  <2>1. \A q \in Queues : s.ctl.scanning[q] # NoSlot => s.ctl.scanning[q] \in ScanSlots
    BY DEF ScanRefs, Surveyed
  <2> QED
    BY <2>1 DEF ScanRefs, Surveyed
<1>7. Unasked(s) /\ (\A k \in ScanSlots : t.scans[k].stop = s.scans[k].stop) => Unasked(t)
  BY <1>1, <1>2 DEF Unasked
<1> QED
  BY <1>1, <1>3, <1>5, <1>6, <1>7 DEF Surveyed

\* A thread that is not occupied is put away.
LEMMA GoneSurveyed ==
  ASSUME NEW s, Typed(s), Surveyed(s), NEW k \in ScanSlots, k \notin Occupied(s),
         NEW t, t.db = s.db, t.events = s.events, t.ctl.scanning = s.ctl.scanning,
         t.scans = [s.scans EXCEPT ![k] = NoScan]
  PROVE  Surveyed(t) /\ (Unasked(s) => Unasked(t))
<1>1. DOMAIN s.scans = ScanSlots /\ k \in FreeScans(s)
  BY DEF Typed, Occupied
<1>2. t.scans[k] = NoScan /\ \A j \in ScanSlots : j # k => t.scans[j] = s.scans[j]
  BY <1>1
<1>3. /\ k \notin Range(s.ctl.scanning)
      /\ \A i \in DOMAIN s.events : s.events[i].kind \in ScanKinds => s.events[i].of # k
  BY <1>1, FreeScanFacts
<1>4. Occupied(t) = Occupied(s)
  <2>1. ~Running(t.scans[k]) /\ ~Running(s.scans[k])
    BY <1>1, <1>2, FreeScanFacts DEF Running, NoScan
  <2>2. \A j \in ScanSlots : Running(t.scans[j]) <=> Running(s.scans[j])
    BY <1>2, <2>1
  <2>3. DOMAIN t.scans = ScanSlots
    BY <1>1
  <2> QED
    BY <1>1, <2>2, <2>3 DEF Occupied, FreeScans, Free
<1>5. \A j \in Occupied(s) : j \in ScanSlots /\ j # k
  BY DEF Occupied
<1>6. OwnScans(t)
  BY <1>2, <1>4, <1>5 DEF OwnScans, Surveyed
<1>7. \A i \in DOMAIN s.events : s.events[i].kind \in ScanKinds =>
        t.scans[s.events[i].of] = s.scans[s.events[i].of]
  <2> TAKE i \in DOMAIN s.events
  <2> HAVE s.events[i].kind \in ScanKinds
  <2>1. s.events[i] \in Calls
    BY DEF Typed
  <2>2. s.events[i].of \in ScanSlots
    BY <2>1 DEF Calls, ScanKinds
  <2> QED
    BY <1>2, <1>3, <2>2
<1>8. ScanCalls(t)
  BY <1>7 DEF ScanCalls, InOrder, Surveyed
<1>9. ScanRefs(t)
  <2>1. \A q \in Queues : s.ctl.scanning[q] # k
    BY <1>3 DEF Range, ScanRefs, Surveyed
  <2>2. \A q \in Queues : s.ctl.scanning[q] # NoSlot =>
          s.ctl.scanning[q] \in ScanSlots /\ t.scans[s.ctl.scanning[q]] = s.scans[s.ctl.scanning[q]]
    BY <1>2, <2>1 DEF ScanRefs, Surveyed
  <2> QED
    BY <2>2 DEF ScanRefs, Surveyed
<1>10. Unasked(s) => Unasked(t)
  BY <1>2, <1>4, <1>5 DEF Unasked
<1> QED
  BY <1>6, <1>8, <1>9, <1>10 DEF Surveyed

\* The thread of a scan told to quit.
LEMMA QuittingSurveying ==
  ASSUME NEW s, Surveying(s), NEW k PROVE Surveying(Quitting(s, k))
<1> DEFINE ss == [s.scans EXCEPT ![k].quit = TRUE]
           t == [s EXCEPT !.scans = ss]
<1>1. Quitting(s, k) = t /\ Fit(t)
  <2>1. Fit(Quitting(s, k))
    BY QuittingCalm, CalmFit DEF Surveying, Fit
  <2>2. Quitting(s, k) = t
    BY DEF Quitting
  <2> QED
    BY <2>1, <2>2
<1>2. /\ DOMAIN ss = ScanSlots
      /\ \A j \in ScanSlots : /\ ss[j].run = s.scans[j].run
                              /\ ss[j].queue = s.scans[j].queue
                              /\ ss[j].todo = s.scans[j].todo
                              /\ ss[j].stop = s.scans[j].stop
  <2>1. s.scans \in [ScanSlots -> ScanThreads]
    BY DEF Surveying, Fit, Typed
  <2>2. ASSUME NEW th \in ScanThreads
        PROVE  LET u == [th EXCEPT !.quit = TRUE]
               IN  /\ u.run = th.run /\ u.queue = th.queue
                   /\ u.todo = th.todo /\ u.stop = th.stop
    BY DEF ScanThreads
  <2>3. \A j \in ScanSlots : ss[j] = s.scans[j] \/ ss[j] = [s.scans[j] EXCEPT !.quit = TRUE]
    BY <2>1
  <2>4. DOMAIN ss = ScanSlots
    BY <2>1
  <2> HIDE DEF ss
  <2>5. ASSUME NEW j \in ScanSlots
        PROVE  /\ ss[j].run = s.scans[j].run /\ ss[j].queue = s.scans[j].queue
               /\ ss[j].todo = s.scans[j].todo /\ ss[j].stop = s.scans[j].stop
    <3>1. s.scans[j] \in ScanThreads
      BY <2>1
    <3> QED
      BY <2>2, <2>3, <3>1
  <2> QED
    BY <2>4, <2>5
<1> HIDE DEF ss
<1>3. t.db = s.db /\ t.events = s.events /\ t.ctl = s.ctl /\ t.scans = ss
  BY DEF Surveying, Fit, Typed, Parts
<1> HIDE DEF t
<1>4. Surveyed(t) /\ (Unasked(s) => Unasked(t))
  BY <1>2, <1>3, ToldSurveyed DEF Surveying, Fit
<1>5. Surveying(t)
  BY <1>1, <1>3, <1>4 DEF Surveying
<1> QED
  BY <1>1, <1>5

\* A queue takes another state, and the controller's attributes may follow.
LEMMA StateSurveying ==
  ASSUME NEW s, Surveying(s), NEW q \in Registered(s.db), NEW state \in ScanStates \ {"NONE"},
         state = "SCANNED" => ImagesIn(q) \subseteq Pictures(s.db, q),
         state = "WAITING" => ~s.ctl.active,
         NEW t, Fit(t), t.db = SetScan(s.db, q, state), t.scans = s.scans, t.events = s.events,
         t.ctl.scanning = s.ctl.scanning, t.ctl.active = s.ctl.active
  PROVE  Surveying(t)
<1> DEFINE d == SetScan(s.db, q, state)
<1>1. /\ d.scan = [s.db.scan EXCEPT ![q] = state] /\ Rows(d) = Rows(s.db)
      /\ Registered(d) = Registered(s.db) /\ Listing(d)
  BY ScanSet DEF Surveying, Surveyed, Fit, Typed
<1>2. s.db.scan \in [Queues -> ScanStates] /\ q \in Queues
  BY DEF Surveying, Fit, Typed, Sound, TypedTables, HasColumns, Registered
<1>3. d.scan[q] = state /\ \A r \in Queues : r # q => d.scan[r] = s.db.scan[r]
  BY <1>1, <1>2
<1> HIDE DEF d
<1>4. t.db = d
  BY DEF d
<1>5. Grows(s.db, t.db) /\ Listing(t.db)
  BY <1>1, <1>4 DEF Grows
<1>6. Surveyed(t) /\ (Unasked(s) /\ (\A k \in Occupied(s) : t.db.scan[s.scans[k].queue] # "WAITING")
                        => Unasked(t))
  BY <1>4, <1>5, GrownSurveyed DEF Surveying
<1>7. ASSUME t.ctl.active PROVE Unasked(t)
  <2>1. Unasked(s) /\ state # "WAITING"
    BY <1>4, <1>7 DEF Surveying
  <2>2. \A k \in Occupied(s) : s.scans[k].queue \in Queues
    BY DEF Surveying, Surveyed, OwnScans, Covers, Registered
  <2>3. \A k \in Occupied(s) : t.db.scan[s.scans[k].queue] # "WAITING"
    BY <1>3, <1>4, <2>1, <2>2 DEF Unasked
  <2> QED
    BY <1>6, <2>1, <2>3
<1> QED
  BY <1>6, <1>7 DEF Surveying

\* completed, of a scan
LEMMA OnScanCompletedSurveying ==
  ASSUME NEW s, Surveying(s), s.events # << >>, Head(s.events).kind = "scanCompleted"
  PROVE  Surveying(OnScanCompleted(Rest(s), Head(s.events).of))
<1> DEFINE k == Head(s.events).of
           u == Rest(s)
           q == u.scans[k].queue
           state == IF u.scans[k].found > 0 \/ u.db.total[q] > 0 THEN "SCANNED" ELSE "EMPTY"
           e == [u EXCEPT !.db = SetScan(u.db, q, state)]
           r == Quitting(e, k)
<1>1. OnScanCompleted(u, k) \in {r, Dispatch(r)}
  BY DEF OnScanCompleted
<1>2. state \in ScanStates \ {"NONE"} /\ state # "WAITING"
  BY DEF ScanStates
<1>3. Surveying(u) /\ u.db = s.db /\ u.scans = s.scans /\ u.ctl = s.ctl
  BY RestSurveying
<1>4. q \in Registered(u.db) /\ ImagesIn(q) \subseteq Pictures(u.db, q)
  BY <1>3, HeadScan DEF Surveying, Fit, ScanKinds
<1> HIDE DEF u, k, q, state
<1>5. Fit(e)
  BY <1>2, <1>3, ScanStateCalm, CalmFit DEF Fit, Surveying
<1>6. /\ e.db = SetScan(u.db, q, state) /\ e.scans = u.scans /\ e.events = u.events
      /\ e.ctl = u.ctl
  BY <1>3 DEF Surveying, Fit, Typed, Parts
<1> HIDE DEF e
<1>7. Surveying(e)
  BY <1>2, <1>3, <1>4, <1>5, <1>6, StateSurveying
<1>8. Surveying(r)
  BY <1>7, QuittingSurveying
<1> HIDE DEF r
<1>9. Surveying(Dispatch(r))
  BY <1>8, DispatchFit, DispatchScans, SameSurveying DEF Surveying
<1> QED
  BY <1>1, <1>8, <1>9 DEF u, k

\* A queue whose scan has stopped or failed is not open any more.
LEMMA LeavesSurveying ==
  ASSUME NEW s, Surveying(s), s.events # << >>, Head(s.events).kind \in ScanKinds,
         NEW state \in {"WAITING", "ERROR"}, state = "WAITING" => ~s.ctl.active
  PROVE  LET u == Rest(s)
             q == u.scans[Head(s.events).of].queue
         IN  Surveying([u EXCEPT !.db = SetScan(u.db, q, state), !.ctl.open = @ \ {q}])
<1> DEFINE u == Rest(s)
           q == u.scans[Head(s.events).of].queue
           d == SetScan(u.db, q, state)
           c == [u.ctl EXCEPT !.open = @ \ {q}]
           e == [u EXCEPT !.db = d, !.ctl = c]
<1>1. Surveying(u) /\ u.db = s.db /\ u.scans = s.scans /\ u.ctl = s.ctl
  BY RestSurveying
<1>2. q \in Registered(u.db)
  BY <1>1, HeadScan DEF Surveying, Fit
<1> HIDE DEF u, q
<1>3. state \in ScanStates \ {"NONE"} /\ state # "SCANNED"
  BY DEF ScanStates
<1>4. [u EXCEPT !.db = SetScan(u.db, q, state), !.ctl.open = @ \ {q}] = e
  OBVIOUS
<1>5. Fit(e)
  <2> DEFINE x == [u EXCEPT !.db = SetScan(u.db, q, state), !.ctl.open = @ \ {q}]
  <2>1. Fit(u) /\ Typed(u)
    BY <1>1 DEF Fit, Surveying
  <2>2. Calm(u, x)
    BY <1>3, <2>1, LeavesCalm
  <2>3. x = e
    BY <1>4
  <2> HIDE DEF x, e
  <2> QED
    BY <2>1, <2>2, <2>3, CalmFit
<1>6. c.scanning = u.ctl.scanning /\ c.active = u.ctl.active
  BY <1>1 DEF Surveying, Fit, Typed, Attributes
<1> HIDE DEF c, d
<1>7. e.db = d /\ e.scans = u.scans /\ e.events = u.events /\ e.ctl = c
  BY <1>1 DEF Surveying, Fit, Typed, Parts
<1> HIDE DEF e
<1>8. Surveying(e)
  BY <1>1, <1>2, <1>3, <1>5, <1>6, <1>7, StateSurveying DEF d
<1> QED
  BY <1>4, <1>8 DEF u, q

\* stopped, of a scan: no run is active.
LEMMA OnScanStoppedSurveying ==
  ASSUME NEW s, Surveying(s), s.events # << >>, Head(s.events).kind = "scanStopped"
  PROVE  Surveying(OnScanStopped(Rest(s), Head(s.events).of))
<1> DEFINE k == Head(s.events).of
           u == Rest(s)
           q == u.scans[k].queue
           e == [u EXCEPT !.db = SetScan(u.db, q, "WAITING"), !.ctl.open = @ \ {q}]
<1>1. OnScanStopped(u, k) = Quitting(e, k)
  BY DEF OnScanStopped
<1>2. ~s.ctl.active
  BY HeadScan DEF Surveying, Fit, ScanKinds
<1>3. Surveying(e)
  BY <1>2, LeavesSurveying DEF ScanKinds
<1> HIDE DEF e, k, u
<1> QED
  BY <1>1, <1>3, QuittingSurveying DEF k, u

\* failed, of a scan
LEMMA OnScanFailedSurveying ==
  ASSUME NEW s, Surveying(s), s.events # << >>, Head(s.events).kind = "scanFailed"
  PROVE  Surveying(OnScanFailed(Rest(s), Head(s.events).of))
<1> DEFINE k == Head(s.events).of
           u == Rest(s)
           q == u.scans[k].queue
           e == [u EXCEPT !.db = SetScan(u.db, q, "ERROR"), !.ctl.open = @ \ {q}]
           r == Quitting(e, k)
           t == OpenNext(r, OpenSlots(r))
<1>1. OnScanFailed(u, k) \in {r, t}
  BY DEF OnScanFailed
<1>2. Surveying(e)
  BY LeavesSurveying DEF ScanKinds
<1> HIDE DEF e
<1>3. Surveying(r)
  BY <1>2, QuittingSurveying
<1> HIDE DEF r, k, u
<1>4. Fit(t) /\ SameScans(r, t)
  BY <1>3, OpenSlotsInt, OpenNextCalm, CalmFit, OpenNextScans DEF Surveying, Fit
<1> HIDE DEF t
<1>5. Surveying(t)
  BY <1>3, <1>4, SameSurveying
<1> QED
  BY <1>1, <1>3, <1>5 DEF k, u

\* finished, of a scan thread: nothing of it is left.
LEMMA OnScanThreadFinishedSurveying ==
  ASSUME SlotEach, NEW s, Surveying(s), s.events # << >>,
         Head(s.events).kind = "scanThreadFinished"
  PROVE  Surveying(OnScanThreadFinished(Rest(s), Head(s.events).of))
<1> DEFINE k == Head(s.events).of
           u == Rest(s)
           q == s.scans[k].queue
           ss == [u.scans EXCEPT ![k] = NoScan]
           gone == [u EXCEPT !.scans = ss]
           sc == [u.ctl.scanning EXCEPT ![q] = NoSlot]
           c == [gone.ctl EXCEPT !.scanning = sc]
           t == [gone EXCEPT !.ctl = c]
           w == [u EXCEPT !.ctl = c]
<1>1. /\ Surveying(u) /\ u.db = s.db /\ u.scans = s.scans /\ u.ctl = s.ctl
      /\ u.events = Tail(s.events)
  BY RestSurveying
<1>2. /\ k \in ScanSlots /\ q \in Queues /\ u.scans[k].run = "exited"
      /\ \A i \in DOMAIN u.events : u.events[i].kind \in ScanKinds => u.events[i].of # k
      /\ \A r \in Queues : u.ctl.scanning[r] = k => r = q
  BY <1>1, HeadScan DEF Surveying, Fit, ScanKinds
<1>3. /\ u.ctl.scanning[q] # k => OnScanThreadFinished(u, k) = gone
      /\ u.ctl.scanning[q] = k => OnScanThreadFinished(u, k) = Inventory(t)
  <2>1. u.scans[k].queue = q
    BY <1>1
  <2>2. gone.ctl = u.ctl
    BY <1>1 DEF Surveying, Fit, Typed, Parts
  <2> DEFINE g0 == [u EXCEPT !.scans[k] = NoScan]
  <2>3. g0 = gone
    OBVIOUS
  <2>4. /\ u.ctl.scanning[q] # k => OnScanThreadFinished(u, k) = g0
        /\ u.ctl.scanning[q] = k =>
             OnScanThreadFinished(u, k) = Inventory([g0 EXCEPT !.ctl.scanning[q] = NoSlot])
    BY <2>1 DEF OnScanThreadFinished
  <2>5. [gone EXCEPT !.ctl.scanning[q] = NoSlot] = t
    BY <2>2
  <2> HIDE DEF g0, gone, t
  <2> QED
    BY <2>3, <2>4, <2>5
<1>4. ss \in [ScanSlots -> ScanThreads]
  BY <1>1, NewThreads DEF Surveying, Fit, Typed
<1> HIDE DEF k, q
<1>5. /\ u.ctl.scanning \in [Queues -> ScanSlots \cup {NoSlot}] /\ NoSlot \notin ScanSlots
      /\ u.scans \in [ScanSlots -> ScanThreads]
  BY <1>1, ControllerAssumption DEF Surveying, Surveyed, ScanRefs, NoSlot, Fit, Typed
<1>6. gone.ctl = u.ctl /\ gone.db = u.db /\ gone.events = u.events /\ gone.scans = ss
  BY <1>1 DEF Surveying, Fit, Typed, Parts
<1>7. c.scanning = sc /\ c.active = u.ctl.active /\ c.pub = u.ctl.pub /\ Attributes(c)
  BY <1>1, <1>6 DEF Surveying, Fit, Typed, Attributes
<1>8. /\ sc \in [Queues -> ScanSlots \cup {NoSlot}] /\ sc[q] = NoSlot
      /\ \A r \in Queues : sc[r] \in {u.ctl.scanning[r], NoSlot}
      /\ \A r \in Queues : sc[r] # k
  BY <1>2, <1>5
<1> HIDE DEF u, ss, sc, c
<1>9. Fit(gone)
  BY <1>1, <1>4, ScansCalm, CalmFit DEF Surveying, Fit
<1>10. Fit(w) /\ w.ctl = c /\ w.db = u.db /\ w.events = u.events /\ w.scans = u.scans
  <2>1. Fit(w)
    BY <1>1, <1>7, CtlCalm, CalmFit DEF Surveying, Fit
  <2> QED
    BY <1>1, <2>1 DEF Surveying, Fit, Typed, Parts
<1>11. Fit(t) /\ t.ctl = c /\ t.db = u.db /\ t.events = u.events /\ t.scans = ss
  <2>1. Fit(t)
    <3>1. Typed(gone) /\ c.active = gone.ctl.active /\ c.pub = gone.ctl.pub
      BY <1>6, <1>7, <1>9 DEF Fit
    <3> HIDE DEF gone
    <3>2. Calm(gone, t)
      BY <1>7, <3>1, CtlCalm
    <3> QED
      BY <1>9, <3>2, CalmFit
  <2>2. Parts(gone)
    BY <1>9 DEF Fit, Typed
  <2> QED
    BY <1>6, <2>1, <2>2 DEF Parts
<1> HIDE DEF gone, t, w
<1>12. ASSUME NEW v, Typed(v), v.scans = u.scans, v.events = u.events,
             \A r \in Queues : v.ctl.scanning[r] # k,
             v.ctl.scanning \in [Queues -> ScanSlots \cup {NoSlot}]
      PROVE  k \notin Occupied(v)
  <2>1. k \notin Range(v.ctl.scanning) /\ ~Running(v.scans[k]) /\ k \in DOMAIN v.scans
    BY <1>2, <1>5, <1>12 DEF Range, Running
  <2> QED
    BY <1>2, <1>12, <2>1 DEF Occupied, FreeScans, Free, ScanKinds
<1>13. CASE u.ctl.scanning[q] # k
  <2>1. k \notin Occupied(u)
    BY <1>1, <1>2, <1>5, <1>12, <1>13 DEF Surveying, Fit
  <2>2. Surveyed(gone) /\ (Unasked(u) => Unasked(gone))
    BY <1>1, <1>2, <1>6, <2>1, GoneSurveyed DEF Surveying, Fit, ss
  <2>3. Surveying(gone)
    BY <1>1, <1>6, <1>9, <2>2 DEF Surveying
  <2> QED
    BY <1>3, <1>13, <2>3 DEF u, k
<1>14. CASE u.ctl.scanning[q] = k
  <2>1. Surveyed(w) /\ (Unasked(u) => Unasked(w))
    BY <1>1, <1>7, <1>8, <1>10, LessSurveyed DEF Surveying, Fit
  <2>2. k \notin Occupied(w)
    BY <1>7, <1>8, <1>10, <1>12 DEF Fit
  <2>3. Surveyed(t) /\ (Unasked(w) => Unasked(t))
    BY <1>2, <1>10, <1>11, <2>1, <2>2, GoneSurveyed DEF Fit, ss
  <2>4. Surveying(t)
    BY <1>1, <1>7, <1>11, <2>1, <2>3 DEF Surveying
  <2>5. Surveying(Inventory(t))
    BY <2>4, InventorySurveying
  <2> QED
    BY <1>3, <1>14, <2>5 DEF u, k
<1> QED
  BY <1>13, <1>14

\* The refresh timer.
LEMMA ReconcileScansSurveying ==
  ASSUME SlotEach, NEW s, Surveying(s) PROVE Surveying(ReconcileScans(s))
<1> DEFINE stale == {q \in Scanning(s) : ~Running(s.scans[s.ctl.scanning[q]])}
           scanning == [q \in Queues |-> IF q \in stale THEN NoSlot ELSE s.ctl.scanning[q]]
           c == [s.ctl EXCEPT !.scanning = scanning]
           r == [s EXCEPT !.ctl = c]
<1>1. ReconcileScans(s) \in {s, Inventory(r)}
  BY DEF ReconcileScans
<1> HIDE DEF stale
<1>2. /\ scanning \in [Queues -> ScanSlots \cup {NoSlot}]
      /\ \A q \in Queues : scanning[q] \in {s.ctl.scanning[q], NoSlot}
  BY DEF Surveying, Surveyed, ScanRefs
<1> HIDE DEF scanning
<1>3. /\ Attributes(c) /\ c.active = s.ctl.active /\ c.pub = s.ctl.pub
      /\ c.scanning = scanning
  BY DEF Surveying, Fit, Typed, Attributes
<1> HIDE DEF c
<1>4. Fit(r)
  BY <1>3, CtlCalm, CalmFit DEF Surveying, Fit
<1>5. r.ctl = c /\ r.db = s.db /\ r.events = s.events /\ r.scans = s.scans
  BY DEF Surveying, Fit, Typed, Parts
<1> HIDE DEF r
<1>6. Surveyed(r) /\ (Unasked(s) => Unasked(r))
  BY <1>2, <1>3, <1>5, LessSurveyed DEF Surveying, Fit
<1>7. Surveying(r)
  BY <1>3, <1>4, <1>5, <1>6 DEF Surveying
<1> QED
  BY <1>1, <1>7, InventorySurveying
-----------------------------------------------------------------------------
(* The other slots leave the scans alone. *)

\* queue_ready
LEMMA OnQueueReadyScans == ASSUME NEW s, Typed(s) PROVE SameScans(s, OnQueueReady(s))
<1>1. Typed(PollChecked(s)) /\ SameScans(s, PollChecked(s))
  BY PollCheckedCalm, LooksScans DEF Calm
<1>2. SameScans(PollChecked(s), OnQueueReady(s))
  BY <1>1, EnsurePollerScans DEF OnQueueReady
<1> QED
  BY <1>1, <1>2, SameScansTrans

\* message_published
LEMMA OnPublishedScans ==
  ASSUME NEW s, Typed(s), NEW t PROVE SameScans(s, OnPublished(s, t))
<1> DEFINE d == MarkSent(s.db, t)
           n == IF s.ctl.queued = Unknown THEN s.ctl.queued
                                          ELSE Min({s.ctl.queued + 1, Fallback})
           c == [s.ctl EXCEPT !.queued = n]
           u == [s EXCEPT !.db = d, !.ctl = c]
<1>1. OnPublished(s, t) = u
  BY DEF OnPublished
<1>2. d.scan = s.db.scan /\ Rows(d) = Rows(s.db)
  BY SessionSame DEF Typed
<1>3. c.scanning = s.ctl.scanning /\ c.active = s.ctl.active
  BY DEF Typed, Attributes
<1> HIDE DEF d, c, n
<1>4. u.ctl = c /\ u.db = d /\ u.scans = s.scans /\ u.events = s.events
  BY DEF Typed, Parts
<1> HIDE DEF u
<1>5. SameScans(s, u)
  BY <1>2, <1>3, <1>4 DEF SameScans
<1> QED
  BY <1>1, <1>5

\* message_failed
LEMMA OnFailedScans == ASSUME NEW s, Typed(s), NEW t PROVE SameScans(s, OnFailed(s, t))
BY SessionSame, TablesSame DEF OnFailed, Typed

\* result_received
LEMMA OnResultScans ==
  ASSUME NEW s, Fit(s), NEW t, NEW verdict \in Verdicts
  PROVE  SameScans(s, OnResult(s, t, verdict))
<1> DEFINE d == ApplyResult(s.db, t, verdict)
           r == [s EXCEPT !.db = d]
<1>1. verdict \in Statuses \ {"CLAIMED"}
  BY SessionAssumption, Targets
<1>2. Fit(r)
  BY <1>1, TransitionCalm, CalmFit DEF ApplyResult, Fit
<1>3. OnResult(s, t, verdict) \in {s, Dispatch(r)}
  BY DEF OnResult
<1>4. d.scan = s.db.scan /\ Rows(d) = Rows(s.db)
  BY SessionSame DEF Fit, Typed
<1> HIDE DEF d
<1>5. SameScans(s, r)
  BY <1>4, TablesSame DEF Fit
<1> HIDE DEF r
<1> QED
  BY <1>2, <1>3, <1>5, DispatchScans, SameScansTrans, SameScansSame

\* poll_cycle
LEMMA OnPollCycleScans ==
  ASSUME NEW s, Fit(s), NEW T PROVE SameScans(s, OnPollCycle(s, T))
<1> DEFINE d == MarkInflightRunning(s.db)
           a == [s EXCEPT !.db = d]
           r == Dispatch(a)
           e == MarkTimeouts(r.db, T)
           aged == [r EXCEPT !.db = e]
<1>1. OnPollCycle(s, T) \in {aged, StopPolling(aged)}
  BY DEF OnPollCycle
<1>2. RowsIn(s.db, {"SENT"}) \in SUBSET Rows(s.db)
  BY DEF RowsIn
<1>3. Fit(a)
  <2>1. Calm(s, a)
    BY <1>2, MovedCalm, Targets DEF MarkInflightRunning, Fit
  <2> QED
    BY <2>1, CalmFit
<1>4. d.scan = s.db.scan /\ Rows(d) = Rows(s.db)
  BY SessionSame DEF Fit, Typed
<1> HIDE DEF d
<1>5. SameScans(s, a)
  BY <1>4, TablesSame DEF Fit
<1> HIDE DEF a
<1>6. Fit(r) /\ SameScans(a, r)
  BY <1>3, DispatchFit, DispatchScans
<1> HIDE DEF r
<1>7. T \cap RowsIn(r.db, {"SENT", "RUNNING"}) \in SUBSET Rows(r.db)
  BY DEF RowsIn
<1>8. Typed(aged)
  BY <1>6, <1>7, MovedCalm, Targets DEF MarkTimeouts, Fit, Calm
<1>9. e.scan = r.db.scan /\ Rows(e) = Rows(r.db)
  BY <1>6, SessionSame DEF Fit, Typed
<1> HIDE DEF e
<1>10. SameScans(r, aged)
  BY <1>6, <1>9, TablesSame DEF Fit
<1> HIDE DEF aged
<1>11. SameScans(s, aged) /\ SameScans(aged, StopPolling(aged))
  BY <1>5, <1>6, <1>8, <1>10, SameScansTrans, StopPollingScans
<1> QED
  BY <1>1, <1>11, SameScansTrans

\* finished, of the publish worker
LEMMA OnPubFinishedScans ==
  ASSUME NEW s, Typed(s), NEW p \in PubSlots, NEW known
  PROVE  SameScans(s, OnPubFinished(s, p, known))
<1> DEFINE c == [s.ctl EXCEPT !.pubDone = TRUE]
           e == [s EXCEPT !.ctl = c]
           r == IF known /\ s.ctl.pub # p THEN s ELSE e
           ps == [r.pubs EXCEPT ![p].quit = TRUE]
<1>1. OnPubFinished(s, p, known) = [r EXCEPT !.pubs = ps]
  BY DEF OnPubFinished
<1>2. /\ Attributes(c) /\ c.active = s.ctl.active /\ c.pub = s.ctl.pub
      /\ c.scanning = s.ctl.scanning
  BY DEF Typed, Attributes
<1> HIDE DEF c, ps
<1>3. Typed(e) /\ SameScans(s, e)
  BY <1>2, CtlCalm, CtlSame DEF Calm
<1> HIDE DEF e
<1>4. Typed(r) /\ SameScans(s, r)
  BY <1>3, SameScansSame
<1> HIDE DEF r
<1>5. SameScans(r, [r EXCEPT !.pubs = ps])
  BY <1>4, PubsSame
<1> QED
  BY <1>1, <1>4, <1>5, SameScansTrans

\* finished, of the publish thread
LEMMA OnPubThreadFinishedScans ==
  ASSUME NEW s, Fit(s), NEW p \in PubSlots
  PROVE  SameScans(s, OnPubThreadFinished(s, p))
<1> DEFINE ps == [s.pubs EXCEPT ![p] = NoThread]
           gone == [s EXCEPT !.pubs = ps]
           d == ReleaseClaimed(s.db)
           c == [s.ctl EXCEPT !.pub = NoSlot]
           mine == [gone EXCEPT !.ctl = c, !.db = d]
           e == [c EXCEPT !.retry = TRUE]
           later == [mine EXCEPT !.ctl = e]
<1>1. /\ s.ctl.pub # p => OnPubThreadFinished(s, p) = gone
      /\ s.ctl.pub = p => OnPubThreadFinished(s, p) =
                            (IF d # s.db THEN later ELSE Dispatch(mine))
  <2> DEFINE g0 == [s EXCEPT !.pubs[p] = NoThread]
             m0 == [g0 EXCEPT !.ctl.pub = NoSlot, !.db = d]
             l0 == [m0 EXCEPT !.ctl.retry = TRUE]
  <2>1. /\ s.ctl.pub # p => OnPubThreadFinished(s, p) = g0
        /\ s.ctl.pub = p => OnPubThreadFinished(s, p) =
                              (IF d # s.db THEN l0 ELSE Dispatch(m0))
    BY DEF OnPubThreadFinished
  <2>2. g0 = gone
    OBVIOUS
  <2>3. m0 = mine
    BY <2>2 DEF Fit, Typed, Parts
  <2>4. mine.ctl = c
    BY DEF Fit, Typed, Parts
  <2>5. l0 = later
    BY <2>3, <2>4
  <2> HIDE DEF g0, m0, l0, gone, mine, later
  <2> QED
    BY <2>1, <2>2, <2>3, <2>5
<1>2. d.scan = s.db.scan /\ Rows(d) = Rows(s.db)
  BY SessionSame DEF Fit, Typed
<1>3. /\ c.scanning = s.ctl.scanning /\ c.active = s.ctl.active
      /\ e.scanning = s.ctl.scanning /\ e.active = s.ctl.active
  BY DEF Fit, Typed, Attributes
<1> HIDE DEF ps, d, c, e
<1>4. gone.ctl = s.ctl /\ gone.db = s.db /\ gone.scans = s.scans /\ gone.events = s.events
  BY DEF Fit, Typed, Parts
<1>5. mine.ctl = c /\ mine.db = d /\ mine.scans = s.scans /\ mine.events = s.events
  BY DEF Fit, Typed, Parts
<1>6. later.ctl = e /\ later.db = d /\ later.scans = s.scans /\ later.events = s.events
  BY DEF Fit, Typed, Parts
<1> HIDE DEF gone, later
<1>7. SameScans(s, gone) /\ SameScans(s, later) /\ SameScans(s, mine)
  BY <1>2, <1>3, <1>4, <1>5, <1>6 DEF SameScans
<1>8. ASSUME s.ctl.pub = p, d = s.db PROVE Fit(mine)
  <2> DEFINE t == [s EXCEPT !.pubs = ps]
             f == [t EXCEPT !.ctl = c]
  <2>1. ps \in [PubSlots -> PubThreads] /\ ps[p] = NoThread
    BY NewThreads DEF Fit, Typed, ps
  <2>2. \A k \in PubSlots : k # p => ps[k] = s.pubs[k]
    BY DEF Fit, Typed, ps
  <2>3. \A k \in PubSlots : ~WouldSend(ps[k])
    BY <1>8, <2>1, <2>2 DEF Fit, Sends, WouldSend, PublishingRuns, NoThread
  <2>4. Calm(s, t)
    BY <2>1, <2>3, PubsCalm DEF Fit
  <2>5. Attributes(c) /\ t.ctl = s.ctl /\ t.pubs = ps
    BY DEF Fit, Typed, Attributes, Parts, c
  <2>6. mine = f
    BY <1>8 DEF mine, gone, Fit, Typed, Parts
  <2> HIDE DEF t
  <2>7. Typed(t) /\ Silent(t)
    BY <2>3, <2>4, <2>5 DEF Calm, Silent, Sends
  <2>8. Calm(t, f)
    BY <1>3, <2>5, <2>7, CtlCalm
  <2>9. Calm(s, f)
    BY <2>4, <2>8, CalmTrans
  <2> HIDE DEF f
  <2> QED
    BY <2>6, <2>9, CalmFit
<1> HIDE DEF mine
<1>9. ASSUME s.ctl.pub = p, d = s.db PROVE SameScans(s, Dispatch(mine))
  BY <1>7, <1>8, <1>9, DispatchScans, SameScansTrans
<1> QED
  BY <1>1, <1>7, <1>9

\* finished, of the poll worker
LEMMA OnPollFinishedScans ==
  ASSUME NEW s, Fit(s), NEW w PROVE SameScans(s, OnPollFinished(s, w))
<1> DEFINE c == [s.ctl EXCEPT !.poll = NoSlot]
           ps == [s.polls EXCEPT ![w] = Quit(@)]
           r == [s EXCEPT !.ctl = c, !.polls = ps]
           e == [r.ctl EXCEPT !.active = FALSE]
           d == IF AllTerminal(r.db) THEN CompleteSession(r.db) ELSE r.db
           t == [r EXCEPT !.ctl = e, !.db = d]
<1>1. OnPollFinished(s, w) \in {r, t}
  <2>1. [s EXCEPT !.ctl.poll = NoSlot, !.polls[w] = Quit(@)] = r
    OBVIOUS
  <2> HIDE DEF r
  <2>2. OnPollFinished(s, w) \in
          {r, [r EXCEPT !.ctl.active = FALSE,
                 !.db = IF AllTerminal(@) THEN CompleteSession(@) ELSE @]}
    BY <2>1 DEF OnPollFinished
  <2>3. [r EXCEPT !.ctl.active = FALSE,
           !.db = IF AllTerminal(@) THEN CompleteSession(@) ELSE @] = t
    OBVIOUS
  <2> QED
    BY <2>2, <2>3
<1>2. c.scanning = s.ctl.scanning /\ c.active = s.ctl.active
  BY DEF Fit, Typed, Attributes
<1>3. /\ [c EXCEPT !.active = FALSE].scanning = c.scanning
      /\ [c EXCEPT !.active = FALSE].active = FALSE
  BY DEF Fit, Typed, Attributes
<1> HIDE DEF c, ps
<1>4. /\ Parts(r) /\ r.ctl = c /\ r.db = s.db /\ r.scans = s.scans /\ r.events = s.events
  BY DEF Fit, Typed, Parts
<1> HIDE DEF r
<1>5. d.scan = s.db.scan /\ Rows(d) = Rows(s.db)
  BY <1>4, SessionSame DEF Fit, Typed
<1>6. e.scanning = s.ctl.scanning /\ e.active = FALSE
  BY <1>2, <1>3, <1>4
<1> HIDE DEF d, e
<1>7. t.ctl = e /\ t.db = d /\ t.scans = s.scans /\ t.events = s.events
  BY <1>4 DEF Parts
<1> HIDE DEF t
<1>8. SameScans(s, r) /\ SameScans(s, t)
  BY <1>2, <1>4, <1>5, <1>6, <1>7 DEF SameScans
<1> QED
  BY <1>1, <1>8

\* Metrics and the retry timer.
LEMMA TimersScans ==
  ASSUME NEW s, Fit(s), NEW workers \in Nat \cup {Unknown}, NEW queued \in Nat \cup {Unknown}
  PROVE  SameScans(s, OnMetrics(s, workers, queued)) /\ SameScans(s, OnRetry(s))
<1> DEFINE c == [s.ctl EXCEPT !.workers = workers, !.queued = queued]
           t == [s EXCEPT !.ctl = c]
           e == [s.ctl EXCEPT !.retry = FALSE]
           u == [s EXCEPT !.ctl = e]
<1>1. OnMetrics(s, workers, queued) = Dispatch(t) /\ OnRetry(s) = Dispatch(u)
  BY DEF OnMetrics, OnRetry
<1>2. /\ Attributes(c) /\ c.active = s.ctl.active /\ c.pub = s.ctl.pub
      /\ c.scanning = s.ctl.scanning
      /\ Attributes(e) /\ e.active = s.ctl.active /\ e.pub = s.ctl.pub
      /\ e.scanning = s.ctl.scanning
  BY DEF Fit, Typed, Attributes
<1> HIDE DEF c, e
<1>3. Fit(t) /\ Fit(u) /\ SameScans(s, t) /\ SameScans(s, u)
  BY <1>2, CtlCalm, CalmFit, CtlSame DEF Fit
<1> HIDE DEF t, u
<1> QED
  BY <1>1, <1>3, DispatchScans, SameScansTrans
-----------------------------------------------------------------------------
(* The threads. *)

\* The inductive invariant.
SurveyFits ==
  /\ SessionFits /\ Surveyed(Situation)
  /\ halt.at = "none" /\ ctl.active => Unasked(Situation)
  /\ halt.at = "down" => Occupied(Situation) = {}
  /\ halt \in [at : {"none", "scans", "messaging", "down"},
               then : {"none", "pause", "decline", "exit"}]

\* A call that is not of a scan is posted.
LEMMA PostedSurveyed ==
  ASSUME NEW s, Typed(s), Surveyed(s), NEW call \in Calls, call.kind \notin ScanKinds,
         NEW t, t.db = s.db, t.scans = s.scans, t.ctl.scanning = s.ctl.scanning,
         t.events = s.events \o <<call>>
  PROVE  Surveyed(t) /\ (Unasked(s) => Unasked(t)) /\ Occupied(t) = Occupied(s)
<1>1. /\ \A i \in DOMAIN s.events : i \in DOMAIN t.events /\ t.events[i] = s.events[i]
      /\ \A i \in DOMAIN t.events :
           t.events[i].kind \in ScanKinds => i \in DOMAIN s.events /\ t.events[i] = s.events[i]
      /\ Len(s.events) + 1 \in DOMAIN t.events /\ t.events[Len(s.events) + 1] = call
      /\ \A i \in DOMAIN t.events : i \in DOMAIN s.events \/ i = Len(s.events) + 1
  BY AppendFacts DEF Typed
<1>2. Occupied(t) = Occupied(s)
  <2>1. \A k : (\A i \in DOMAIN t.events : t.events[i].kind \in ScanKinds => t.events[i].of # k)
           <=> (\A i \in DOMAIN s.events : s.events[i].kind \in ScanKinds => s.events[i].of # k)
    BY <1>1
  <2> QED
    BY <2>1 DEF Occupied, FreeScans, Free, ScanKinds
<1>3. OwnScans(t)
  BY <1>2 DEF OwnScans, Surveyed
<1>4. ASSUME NEW i \in DOMAIN t.events, t.events[i].kind \in ScanKinds PROVE InOrder(t, i)
  <2>1. i \in DOMAIN s.events /\ t.events[i] = s.events[i] /\ InOrder(s, i)
    BY <1>1, <1>4 DEF ScanCalls, Surveyed
  <2>2. \A j \in DOMAIN t.events : t.events[j].kind \in ScanKinds =>
          j \in DOMAIN s.events /\ t.events[j] = s.events[j]
    BY <1>1
  <2> QED
    BY <2>1, <2>2 DEF InOrder
<1>5. ScanRefs(t)
  BY DEF ScanRefs, Surveyed
<1>6. ASSUME Unasked(s) PROVE Unasked(t)
  <2>1. ASSUME NEW i \in DOMAIN t.events, t.events[i].kind = "scanStopped" PROVE FALSE
    BY <1>1, <1>6, <2>1 DEF Unasked, ScanKinds
  <2> QED
    BY <1>2, <1>6, <2>1 DEF Unasked
<1> QED
  BY <1>2, <1>3, <1>4, <1>5, <1>6 DEF Surveyed, ScanCalls

\* A thread goes on; what it does to the situation is Surveyed.
LEMMA WorkerSurveys ==
  ASSUME SurveyFits, SessionFits', Surveyed(Situation'), halt' = halt, ctl' = ctl,
         halt.at = "none" /\ ctl.active => Unasked(Situation'),
         Occupied(Situation) # {} \/ Occupied(Situation') = {}
  PROVE  SurveyFits'
BY DEF SurveyFits

\* The other threads.
LEMMA OtherSurveys ==
  ASSUME SurveyFits, SessionFits', UNCHANGED <<db, ctl, scans, halt>>,
         events' = events \/ \E call \in Calls : /\ call.kind \notin ScanKinds
                                                 /\ events' = events \o <<call>>
  PROVE  SurveyFits'
<1> DEFINE s == Situation
           t == Situation'
<1>1. /\ Typed(s) /\ Surveyed(s) /\ s.events = events
      /\ t.db = s.db /\ t.scans = s.scans /\ t.ctl = s.ctl /\ t.events = events'
  BY SituationParts DEF SurveyFits, SessionFits, Fit, Situation
<1>2. halt.at = "none" /\ ctl.active => Unasked(s)
  BY DEF SurveyFits
<1> HIDE DEF s, t
<1>3. CASE events' = events
  <2>1. t.events = s.events
    BY <1>1, <1>3
  <2>2. Grows(s.db, t.db) /\ Listing(t.db)
    BY <1>1 DEF Grows, Surveyed
  <2>3. Surveyed(t) /\ (Unasked(s) => Unasked(t))
    BY <1>1, <2>1, <2>2, GrownSurveyed DEF Unasked
  <2>4. Occupied(t) = Occupied(s)
    BY <1>1, <2>1, SameOccupied
  <2> QED
    BY <1>2, <2>3, <2>4, WorkerSurveys DEF s, t
<1>4. ASSUME NEW call \in Calls, call.kind \notin ScanKinds, events' = events \o <<call>>
      PROVE  SurveyFits'
  <2>1. Surveyed(t) /\ (Unasked(s) => Unasked(t)) /\ Occupied(t) = Occupied(s)
    BY <1>1, <1>4, PostedSurveyed
  <2> QED
    BY <1>2, <2>1, WorkerSurveys DEF s, t
<1> QED
  BY <1>3, <1>4

LEMMA PubRunsSurveys ==
  ASSUME SurveyFits, NEW p \in PubSlots, PubRuns(p) PROVE SurveyFits'
<1>1. /\ SessionFits' /\ events \in Seq(Calls) /\ pubs[p] \in PubThreads
  BY PubRunsFits, VariablesTyped DEF SurveyFits
<1>2. ASSUME NEW kind \in {"queueReady", "pubFinished", "pubThreadFinished"}
      PROVE  Call(kind, p) \in Calls /\ Call(kind, p).kind \notin ScanKinds
  BY DEF Call, Calls, ScanKinds
<1>3. ASSUME NEW run, NEW kind \in {"queueReady", "pubFinished", "pubThreadFinished"},
             PubStep(p, run, <<Call(kind, p)>>)
      PROVE  SurveyFits'
  <2> DEFINE call == Call(kind, p)
  <2>1. call \in Calls /\ call.kind \notin ScanKinds
    BY <1>2
  <2>2. events' = events \o <<call>> /\ UNCHANGED <<db, ctl, scans, halt>>
    BY <1>3 DEF PubStep, Emit
  <2> HIDE DEF call
  <2> QED
    BY <1>1, <2>1, <2>2, OtherSurveys
<1>4. ASSUME NEW kind \in {"published", "failed"}, pubs[p].todo # << >>, PubNext(p, kind)
      PROVE  SurveyFits'
  <2> DEFINE call == Call(kind, Head(pubs[p].todo))
  <2>1. Head(pubs[p].todo) \in Requests
    BY <1>1, <1>4 DEF PubThreads, ThreadRecords
  <2>2. call \in Calls /\ call.kind \notin ScanKinds
    BY <2>1 DEF Call, Calls, ScanKinds
  <2>3. events' = events \o <<call>> /\ UNCHANGED <<db, ctl, scans, halt>>
    BY <1>4 DEF PubNext, Emit
  <2> HIDE DEF call
  <2> QED
    BY <1>1, <2>2, <2>3, OtherSurveys
<1>5. CASE PubSend(p)
  BY <1>1, <1>5, OtherSurveys DEF PubSend
<1>6. CASE PubEmit(p)
  <2>1. pubs[p].todo # << >>
    BY <1>1, <1>6 DEF PubEmit, PubThreads
  <2> QED
    BY <1>4, <1>6, <2>1 DEF PubEmit
<1>7. CASE PubConnect(p) \/ PubConnectFails(p) \/ PubEnd(p) \/ PubExit(p)
  BY <1>3, <1>7 DEF PubConnect, PubConnectFails, PubEnd, PubExit
<1>8. CASE PubFails(p)
  <2>1. pubs[p].todo # << >>
    BY <1>1, <1>8 DEF PubFails, PubThreads
  <2> QED
    BY <1>4, <1>8, <2>1 DEF PubFails
<1>9. CASE PubLook(p)
  <2>1. events' = events \o << >> /\ UNCHANGED <<db, ctl, scans, halt>>
    BY <1>9 DEF PubLook, PubStep, Emit
  <2>2. events' = events
    BY <1>1, <2>1
  <2> QED
    BY <1>1, <2>1, <2>2, OtherSurveys
<1> QED
  BY <1>5, <1>6, <1>7, <1>8, <1>9 DEF PubRuns

LEMMA PollRunsSurveys ==
  ASSUME SurveyFits, NEW w \in PollSlots, PollStarts(w) \/ PollTick(w) \/ PollEnd(w)
  PROVE  SurveyFits'
<1>1. SessionFits' /\ events \in Seq(Calls)
  BY PollRunsFits, VariablesTyped DEF SurveyFits
<1>2. CASE PollConnect(w)
  <2>1. events' = events \o << >> /\ UNCHANGED <<db, ctl, scans, halt>>
    BY <1>2 DEF PollConnect, PollStep, Emit
  <2>2. events' = events
    BY <1>1, <2>1
  <2> QED
    BY <1>1, <2>1, <2>2, OtherSurveys
<1>3. ASSUME NEW run, NEW kind \in {"pollCycle", "pollFinished"},
             PollStep(w, run, <<Call(kind, w)>>)
      PROVE  SurveyFits'
  <2> DEFINE call == Call(kind, w)
  <2>1. call \in Calls /\ call.kind \notin ScanKinds
    BY DEF Call, Calls, ScanKinds
  <2>2. events' = events \o <<call>> /\ UNCHANGED <<db, ctl, scans, halt>>
    BY <1>3 DEF PollStep, Emit
  <2> HIDE DEF call
  <2> QED
    BY <1>1, <2>1, <2>2, OtherSurveys
<1> QED
  BY <1>2, <1>3 DEF PollStarts, PollConnectFails, PollTick, PollEnd

LEMMA PollDeliverSurveys ==
  ASSUME SurveyFits, NEW w \in PollSlots, NEW t \in BagToSet(mq), NEW v \in Verdicts,
         PollDeliver(w, t, v)
  PROVE  SurveyFits'
<1> DEFINE call == Call("result", [task |-> t, verdict |-> v])
<1>1. SessionFits' /\ t \in Requests
  BY PollDeliverFits, VariablesTyped DEF SurveyFits
<1>2. call \in Calls /\ call.kind \notin ScanKinds
  BY <1>1 DEF Call, Calls, ScanKinds
<1>3. events' = events \o <<call>> /\ UNCHANGED <<db, ctl, scans, halt>>
  BY DEF PollDeliver, Emit
<1> HIDE DEF call
<1> QED
  BY <1>1, <1>2, <1>3, OtherSurveys

\* A scan thread goes on, and posts a call or none.
LEMMA ScanGoesOn ==
  ASSUME NEW s, Typed(s), Surveyed(s), NEW k \in ScanSlots, Running(s.scans[k]),
         NEW run \in {"done", "exited"},
         NEW t, t.db = s.db, t.ctl.scanning = s.ctl.scanning,
         t.scans = [s.scans EXCEPT ![k].run = run],
         NEW calls \in Seq(Calls), t.events = s.events \o calls,
         calls = << >> \/ \E call \in Calls :
           /\ calls = <<call>> /\ call.kind \in ScanKinds /\ call.of = k
           /\ call.kind = "scanCompleted" =>
                ImagesIn(s.scans[k].queue) \subseteq Pictures(s.db, s.scans[k].queue)
           /\ call.kind = "scanThreadFinished" => run = "exited"
           /\ call.kind = "scanStopped" => ~Unasked(s)
  PROVE  Surveyed(t) /\ (Unasked(s) => Unasked(t))
<1> DEFINE th == [s.scans[k] EXCEPT !.run = run]
           n == Len(s.events) + 1
<1>1. s.scans \in [ScanSlots -> ScanThreads] /\ s.events \in Seq(Calls)
  BY DEF Typed
<1>2. /\ th.run = run /\ th.queue = s.scans[k].queue /\ th.todo = s.scans[k].todo
      /\ th.stop = s.scans[k].stop
  <2>1. s.scans[k] \in ScanThreads
    BY <1>1
  <2> QED
    BY <2>1 DEF ScanThreads
<1>3. t.scans[k] = th /\ DOMAIN t.scans = ScanSlots
      /\ \A j \in ScanSlots : j # k => t.scans[j] = s.scans[j]
  BY <1>1
<1> HIDE DEF th
<1>4. \A j \in ScanSlots : /\ t.scans[j].queue = s.scans[j].queue
                           /\ t.scans[j].todo = s.scans[j].todo
                           /\ t.scans[j].stop = s.scans[j].stop
                           /\ Running(t.scans[j]) => Running(s.scans[j])
                           /\ t.scans[j].run = "scanning" => s.scans[j].run = "scanning"
                           /\ s.scans[j].run = "exited" => j # k
  BY <1>2, <1>3 DEF Running
<1>5. \A i \in DOMAIN s.events : i \in DOMAIN t.events /\ t.events[i] = s.events[i] /\ i < n
  <2>1. CASE calls = << >>
    BY <1>1, <2>1
  <2>2. CASE \E call \in Calls : calls = <<call>>
    BY <1>1, <2>2, AppendFacts
  <2> QED
    BY <2>1, <2>2
<1>6. ASSUME NEW i \in DOMAIN t.events, i \notin DOMAIN s.events
      PROVE  /\ i = n /\ t.events[i].kind \in ScanKinds /\ t.events[i].of = k
             /\ t.events[i].kind = "scanCompleted" =>
                  ImagesIn(s.scans[k].queue) \subseteq Pictures(s.db, s.scans[k].queue)
             /\ t.events[i].kind = "scanThreadFinished" => run = "exited"
             /\ t.events[i].kind = "scanStopped" => ~Unasked(s)
  <2>1. CASE calls = << >>
    BY <1>1, <1>6, <2>1
  <2>2. ASSUME NEW call \in Calls, calls = <<call>>
        PROVE  i = n /\ t.events[i] = call
    BY <1>1, <1>6, <2>2, AppendFacts
  <2> HIDE DEF n
  <2> QED
    BY <2>1, <2>2
<1>7. \A i \in DOMAIN t.events : i \in Nat /\ i <= n
  <2>1. n \in Nat
    BY <1>1
  <2>2. DOMAIN s.events \subseteq Nat
    BY <1>1
  <2> HIDE DEF n
  <2> QED
    BY <1>5, <1>6, <2>1, <2>2
<1> HIDE DEF n
<1>8. Occupied(t) \subseteq Occupied(s)
  <2> SUFFICES ASSUME NEW j \in Occupied(t), j \in FreeScans(s) PROVE FALSE
    BY DEF Occupied
  <2>1. j \in ScanSlots /\ j \notin FreeScans(t)
    BY DEF Occupied
  <2>2. /\ j \notin Range(s.ctl.scanning) /\ ~Running(s.scans[j])
        /\ \A i \in DOMAIN s.events : s.events[i].kind \in ScanKinds => s.events[i].of # j
    BY FreeScanFacts
  <2>3. j # k
    BY <2>2
  <2>4. \A i \in DOMAIN t.events : t.events[i].kind \in ScanKinds => t.events[i].of # j
    BY <1>5, <1>6, <2>2, <2>3
  <2>5. ~Running(t.scans[j]) /\ j \notin Range(t.ctl.scanning)
    BY <1>4, <2>1, <2>2
  <2> QED
    BY <1>3, <2>1, <2>4, <2>5 DEF FreeScans, Free, ScanKinds
<1>9. Occupied(t) \subseteq ScanSlots
  BY DEF Occupied
<1>10. OwnScans(t)
  <2>1. ASSUME NEW j \in Occupied(t) PROVE Covers(t.db, t.scans[j])
    <3>1. Covers(s.db, s.scans[j]) /\ j \in ScanSlots
      BY <1>8, <1>9 DEF OwnScans, Surveyed
    <3> QED
      BY <1>4, <3>1 DEF Covers
  <2>2. \A i, j \in Occupied(t) : t.scans[i].queue = t.scans[j].queue => i = j
    BY <1>4, <1>8, <1>9 DEF OwnScans, Surveyed
  <2> QED
    BY <2>1, <2>2 DEF OwnScans
<1>11. ASSUME NEW i \in DOMAIN t.events, t.events[i].kind \in ScanKinds PROVE InOrder(t, i)
  <2>1. CASE i \in DOMAIN s.events
    <3> DEFINE j == s.events[i].of
    <3>1. t.events[i] = s.events[i] /\ InOrder(s, i) /\ s.events[i] \in Calls
      BY <1>1, <1>5, <1>11, <2>1 DEF ScanCalls, Surveyed
    <3>2. j \in ScanSlots
      BY <1>11, <3>1 DEF Calls, ScanKinds
    <3>3. t.scans[j].queue = s.scans[j].queue /\ t.scans[j].run # "scanning"
      BY <1>4, <3>1, <3>2 DEF InOrder
    <3>4. ASSUME s.events[i].kind = "scanThreadFinished"
          PROVE  /\ t.scans[j].run = "exited"
                 /\ \A h \in DOMAIN t.events :
                      h > i /\ t.events[h].kind \in ScanKinds => t.events[h].of # j
      <4>1. s.scans[j].run = "exited" /\ j # k
        BY <1>4, <3>1, <3>2, <3>4 DEF InOrder
      <4>2. t.scans[j].run = "exited"
        BY <1>3, <3>2, <4>1
      <4>3. ASSUME NEW h \in DOMAIN t.events, h > i, t.events[h].kind \in ScanKinds
            PROVE  t.events[h].of # j
        <5>1. CASE h \in DOMAIN s.events
          BY <1>5, <3>1, <3>4, <4>3, <5>1 DEF InOrder
        <5>2. CASE h \notin DOMAIN s.events
          BY <1>6, <4>1, <5>2
        <5> QED
          BY <5>1, <5>2
      <4> QED
        BY <4>2, <4>3
    <3> QED
      BY <3>1, <3>3, <3>4 DEF InOrder
  <2>2. CASE i \notin DOMAIN s.events
    <3>1. /\ i = n /\ t.events[i].of = k
          /\ t.events[i].kind = "scanCompleted" =>
               ImagesIn(s.scans[k].queue) \subseteq Pictures(s.db, s.scans[k].queue)
          /\ t.events[i].kind = "scanThreadFinished" => run = "exited"
      BY <1>6, <2>2
    <3>2. \A h \in DOMAIN t.events : ~(h > i)
      BY <1>7, <3>1
    <3>3. t.scans[k].run = run /\ t.scans[k].queue = s.scans[k].queue
      BY <1>2, <1>3
    <3> QED
      BY <3>1, <3>2, <3>3 DEF InOrder
  <2> QED
    BY <2>1, <2>2
<1>12. ScanRefs(t)
  <2>1. \A q \in Queues : s.ctl.scanning[q] # NoSlot =>
          s.ctl.scanning[q] \in ScanSlots /\ s.scans[s.ctl.scanning[q]].queue = q
    BY DEF ScanRefs, Surveyed
  <2> QED
    BY <1>4, <2>1 DEF ScanRefs, Surveyed
<1>13. ASSUME Unasked(s) PROVE Unasked(t)
  <2>1. \A j \in Occupied(t) : ~t.scans[j].stop /\ t.db.scan[t.scans[j].queue] # "WAITING"
    BY <1>4, <1>8, <1>9, <1>13 DEF Unasked
  <2>2. \A i \in DOMAIN t.events : t.events[i].kind # "scanStopped"
    BY <1>5, <1>6, <1>13 DEF Unasked
  <2> QED
    BY <2>1, <2>2 DEF Unasked
<1> QED
  BY <1>10, <1>11, <1>12, <1>13 DEF Surveyed, ScanCalls

\* What is in a list is its first entry or in the others.
LEMMA HeadOrTail ==
  ASSUME NEW X, NEW l \in Seq(X), l # << >>
  PROVE  /\ Head(l) \in Range(l) /\ Range(Tail(l)) \subseteq Range(l)
         /\ Range(l) \subseteq {Head(l)} \cup Range(Tail(l))
<1> DEFINE m == Tail(l)
<1>1. /\ 1 \in DOMAIN l /\ Head(l) = l[1]
      /\ \A i \in DOMAIN m : i + 1 \in DOMAIN l /\ m[i] = l[i + 1]
      /\ \A j \in DOMAIN l : j # 1 => j - 1 \in DOMAIN m /\ m[j - 1] = l[j]
  BY TailFacts
<1> HIDE DEF m
<1>2. \A x \in Range(l) : x = l[1] \/ x \in Range(m)
  BY <1>1 DEF Range
<1>3. Range(m) \subseteq Range(l) /\ l[1] \in Range(l)
  BY <1>1 DEF Range
<1> QED
  BY <1>1, <1>2, <1>3 DEF m

\* The rows after a batch.
LEMMA BatchListed ==
  ASSUME NEW d, Sound(d), Listing(d), NEW q \in Registered(d), NEW i \in ImagesIn(q)
  PROVE  LET m == InsertBatch(d, q, {i})
         IN  /\ Listing(m) /\ Grows(d, m) /\ m.scan = d.scan /\ i \in Pictures(m, q)
<1> DEFINE N == NewRows(d, q, {i})
           m == Inserted(d, q, N)
           x == [queue |-> q, image |-> i, gen |-> d.gen]
<1>1. InsertBatch(d, q, {i}) = m
  BY DEF InsertBatch
<1>2. /\ \A t \in N : t.queue = q /\ t.image = i
      /\ i \in Missing(d, q, {i}) => x \in N /\ x.queue = q /\ x.image = i
  BY DEF NewRows, Missing
<1>3. i \notin Missing(d, q, {i}) => \E t \in Rows(d) : t.queue = q /\ t.image = i
  BY DEF Missing, RowsOf
<1> HIDE DEF N, x
<1>4. m.scan = d.scan /\ m.tasks = WithRows(d, N)
  BY DEF Sound, TypedTables, HasColumns, Inserted
<1> HIDE DEF m
<1>5. Rows(m) = Rows(d) \cup N /\ Registered(m) = Registered(d)
  BY <1>4 DEF Rows, WithRows, Registered
<1>6. i \in Pictures(m, q)
  BY <1>2, <1>3, <1>5 DEF Pictures, RowsOf
<1>7. \A r : Pictures(d, r) \subseteq Pictures(m, r)
  BY <1>5 DEF Pictures, RowsOf
<1>8. Listing(m)
  BY <1>2, <1>4, <1>5, <1>7 DEF Listing
<1> QED
  BY <1>1, <1>4, <1>5, <1>6, <1>8 DEF Grows

\* A batch of images.
LEMMA ScanBatchSurveys ==
  ASSUME SurveyFits, NEW k \in ScanSlots, ScanBatch(k) PROVE SurveyFits'
<1> DEFINE s == Situation
           t == Situation'
           q == scans[k].queue
           i == Head(scans[k].todo)
           th == scans'[k]
<1>1. /\ Typed(s) /\ Surveyed(s) /\ s.scans = scans /\ s.db = db /\ s.ctl = ctl
      /\ s.events = events /\ t.db = db' /\ t.scans = scans' /\ t.ctl = ctl'
      /\ t.events = events' /\ Sound(db) /\ scans \in [ScanSlots -> ScanThreads]
  BY SituationParts, VariablesTyped DEF SurveyFits, SessionFits, Fit, Situation
<1>2. /\ scans[k].run = "scanning" /\ scans[k].todo # << >> /\ scans[k].todo \in Seq(Images)
      /\ ctl' = ctl /\ events' = events /\ halt' = halt
  <2>1. scans[k] \in ScanThreads
    BY <1>1
  <2> QED
    BY <2>1 DEF ScanBatch, ScanThreads
<1>3. /\ th.run = "scanning" /\ th.queue = q /\ th.todo = Tail(scans[k].todo)
      /\ th.stop = scans[k].stop /\ DOMAIN scans' = ScanSlots
      /\ \A j \in ScanSlots : j # k => scans'[j] = scans[j]
  <2> DEFINE n == scans[k].found +
                    (IF q \in Registered(db) /\ i \in Missing(db, q, {i}) THEN 1 ELSE 0)
             x == [scans[k] EXCEPT !.todo = Tail(@), !.found = n]
  <2>1. scans[k] \in ScanThreads
    BY <1>1
  <2>2. scans' = [scans EXCEPT ![k] = x]
    BY DEF ScanBatch
  <2> HIDE DEF n
  <2>3. x.run = "scanning" /\ x.queue = q /\ x.todo = Tail(scans[k].todo) /\ x.stop = scans[k].stop
    BY <1>2, <2>1 DEF ScanThreads
  <2> HIDE DEF x
  <2>4. scans'[k] = x
    BY <1>1, <2>2
  <2> QED
    BY <1>1, <2>2, <2>3, <2>4
<1>4. k \in Occupied(s)
  BY <1>1, <1>2, FreeScanFacts DEF Occupied, Running
<1>5. /\ q \in Registered(db) /\ Range(scans[k].todo) \subseteq ImagesIn(q)
      /\ ImagesIn(q) \subseteq Pictures(db, q) \cup Range(scans[k].todo)
  BY <1>1, <1>2, <1>4 DEF Surveyed, OwnScans, Covers
<1>6. i \in Range(scans[k].todo) /\ Range(Tail(scans[k].todo)) \subseteq Range(scans[k].todo)
      /\ Range(scans[k].todo) \subseteq {i} \cup Range(Tail(scans[k].todo))
  BY <1>2, HeadOrTail
<1>7. db' = InsertBatch(db, q, {i})
  BY DEF ScanBatch
<1>8. Listing(db') /\ Grows(db, db') /\ db'.scan = db.scan /\ i \in Pictures(db', q)
  BY <1>1, <1>5, <1>6, <1>7, BatchListed DEF Surveyed
<1>9. \A r : Pictures(db, r) \subseteq Pictures(db', r)
  BY <1>8 DEF Pictures, RowsOf, Grows
<1>10. Covers(db', th)
  BY <1>3, <1>5, <1>6, <1>8, <1>9 DEF Covers, Grows
<1> HIDE DEF th, i
<1>11. Occupied(t) = Occupied(s)
  <2>1. \A j \in ScanSlots : Running(scans'[j]) <=> Running(scans[j])
    BY <1>2, <1>3 DEF Running, th
  <2> QED
    BY <1>1, <1>2, <1>3, <2>1 DEF Occupied, FreeScans, Free
<1>12. Occupied(s) \subseteq ScanSlots
  BY DEF Occupied
<1>13. \A j \in ScanSlots : /\ scans'[j].queue = scans[j].queue
                            /\ scans'[j].run = scans[j].run
                            /\ scans'[j].stop = scans[j].stop
  BY <1>2, <1>3 DEF th
<1> HIDE DEF s, t, q
<1>14. OwnScans(t)
  <2>1. ASSUME NEW j \in Occupied(s) PROVE Covers(db', scans'[j])
    <3>1. CASE j = k
      BY <1>10, <3>1 DEF th
    <3>2. CASE j # k
      BY <1>1, <1>3, <1>8, <1>9, <1>12, <2>1, <3>2 DEF Surveyed, OwnScans, Covers, Grows
    <3> QED
      BY <3>1, <3>2
  <2> QED
    BY <1>1, <1>11, <1>12, <1>13, <2>1 DEF OwnScans, Surveyed
<1>15. ScanCalls(t)
  <2>1. \A h \in DOMAIN s.events : s.events[h].kind \in ScanKinds => s.events[h].of \in ScanSlots
    <3> TAKE h \in DOMAIN s.events
    <3> HAVE s.events[h].kind \in ScanKinds
    <3>1. s.events[h] \in Calls
      BY <1>1 DEF Typed
    <3> QED
      BY <3>1 DEF Calls, ScanKinds
  <2> QED
    BY <1>1, <1>2, <1>9, <1>13, <2>1 DEF ScanCalls, InOrder, Surveyed
<1>16. ScanRefs(t)
  <2>1. \A r \in Queues : ctl.scanning[r] # NoSlot =>
          ctl.scanning[r] \in ScanSlots /\ scans[ctl.scanning[r]].queue = r
    BY <1>1 DEF ScanRefs, Surveyed
  <2> QED
    BY <1>1, <1>2, <1>13, <2>1 DEF ScanRefs, Surveyed
<1>17. Unasked(s) => Unasked(t)
  BY <1>1, <1>2, <1>8, <1>11, <1>12, <1>13 DEF Unasked
<1>18. SessionFits' /\ Surveyed(t)
  BY <1>1, <1>8, <1>14, <1>15, <1>16, ScanBatchFits DEF Surveyed, SurveyFits
<1>19. halt.at = "none" /\ ctl.active => Unasked(t)
  BY <1>17 DEF SurveyFits, s
<1>20. Occupied(Situation) # {}
  BY <1>4 DEF s
<1> QED
  BY <1>2, <1>18, <1>19, <1>20, WorkerSurveys DEF t

\* A scan thread ends its work, or comes to its end.
LEMMA ScanStepSurveys ==
  ASSUME SurveyFits, NEW k \in ScanSlots, Running(scans[k]), SessionFits',
         NEW run \in {"done", "exited"}, NEW calls \in Seq(Calls), ScanStep(k, run, calls),
         calls = << >> \/ \E call \in Calls :
           /\ calls = <<call>> /\ call.kind \in ScanKinds /\ call.of = k
           /\ call.kind = "scanCompleted" =>
                ImagesIn(scans[k].queue) \subseteq Pictures(db, scans[k].queue)
           /\ call.kind = "scanThreadFinished" => run = "exited"
           /\ call.kind = "scanStopped" => ~Unasked(Situation)
  PROVE  SurveyFits'
<1> DEFINE s == Situation
           t == Situation'
<1>1. /\ Typed(s) /\ Surveyed(s) /\ s.scans = scans /\ s.db = db /\ s.ctl = ctl
      /\ s.events = events
  BY SituationParts DEF SurveyFits, SessionFits, Fit
<1>2. /\ t.db = s.db /\ t.ctl = s.ctl /\ t.events = s.events \o calls
      /\ t.scans = [s.scans EXCEPT ![k].run = run] /\ halt' = halt /\ ctl' = ctl
  BY DEF ScanStep, Emit, Situation
<1>3. k \in Occupied(s)
  BY <1>1, FreeScanFacts DEF Occupied
<1>4. halt.at = "none" /\ ctl.active => Unasked(s)
  BY DEF SurveyFits
<1>5. calls = << >> \/ \E call \in Calls :
        /\ calls = <<call>> /\ call.kind \in ScanKinds /\ call.of = k
        /\ call.kind = "scanCompleted" =>
             ImagesIn(s.scans[k].queue) \subseteq Pictures(s.db, s.scans[k].queue)
        /\ call.kind = "scanThreadFinished" => run = "exited"
        /\ call.kind = "scanStopped" => ~Unasked(s)
  BY <1>1
<1>6. Occupied(Situation) # {}
  BY <1>3
<1> HIDE DEF s, t
<1>7. Running(s.scans[k]) /\ t.ctl.scanning = s.ctl.scanning
  BY <1>1, <1>2
<1>8. Surveyed(t) /\ (Unasked(s) => Unasked(t))
  BY <1>1, <1>2, <1>5, <1>7, ScanGoesOn
<1> QED
  BY <1>2, <1>4, <1>6, <1>8, WorkerSurveys DEF t

\* A scan thread has the work of its queue; a request to stop is known of.
LEMMA ScanThreadFacts ==
  ASSUME SurveyFits, NEW k \in ScanSlots, Running(scans[k])
  PROVE  /\ scans[k].run = "scanning" /\ scans[k].todo = << >> =>
              ImagesIn(scans[k].queue) \subseteq Pictures(db, scans[k].queue)
         /\ scans[k].stop => ~Unasked(Situation)
<1>1. /\ Surveyed(Situation) /\ Situation.scans = scans /\ Situation.db = db
  BY SituationParts DEF SurveyFits
<1>2. k \in Occupied(Situation)
  BY <1>1, FreeScanFacts DEF Occupied
<1>3. Covers(db, scans[k])
  BY <1>1, <1>2 DEF Surveyed, OwnScans
<1>4. scans[k].stop => ~Unasked(Situation)
  BY <1>1, <1>2 DEF Unasked
<1>5. scans[k].todo = << >> => Range(scans[k].todo) = {}
  BY DEF Range
<1> QED
  BY <1>3, <1>4, <1>5 DEF Covers

LEMMA ScanRunsSurveys ==
  ASSUME SurveyFits, NEW k \in ScanSlots, ScanRuns(k) PROVE SurveyFits'
<1>1. SessionFits'
  BY ScanRunsFits DEF SurveyFits
<1>2. /\ << >> \in Seq(Calls)
      /\ \A kind \in ScanKinds : /\ <<Call(kind, k)>> \in Seq(Calls) /\ Call(kind, k) \in Calls
                                 /\ Call(kind, k).kind = kind /\ Call(kind, k).of = k
  BY CallsTyped DEF ScanKinds, Calls, Call
<1>3. ASSUME NEW kind \in ScanKinds, Running(scans[k]), NEW run \in {"done", "exited"},
             ScanStep(k, run, <<Call(kind, k)>>),
             kind = "scanCompleted" =>
               ImagesIn(scans[k].queue) \subseteq Pictures(db, scans[k].queue),
             kind = "scanThreadFinished" => run = "exited",
             kind = "scanStopped" => ~Unasked(Situation)
      PROVE  SurveyFits'
  <2> DEFINE call == Call(kind, k)
             calls == <<call>>
  <2>1. /\ call \in Calls /\ calls = <<call>> /\ call.kind = kind /\ call.of = k
        /\ calls \in Seq(Calls) /\ ScanStep(k, run, calls)
    BY <1>2, <1>3
  <2> HIDE DEF call, calls
  <2> QED
    BY <1>1, <1>3, <2>1, ScanStepSurveys
<1>4. /\ scans[k].run \in {"scanning", "done"} => Running(scans[k])
      /\ "scanCompleted" \in ScanKinds /\ "scanStopped" \in ScanKinds
      /\ "scanFailed" \in ScanKinds /\ "scanThreadFinished" \in ScanKinds
  BY DEF Running, ScanKinds
<1>5. CASE ScanBatch(k)
  BY <1>5, ScanBatchSurveys
<1>6. CASE ScanCompletes(k)
  <2>1. /\ Running(scans[k]) /\ ScanStep(k, "done", <<Call("scanCompleted", k)>>)
        /\ scans[k].run = "scanning" /\ scans[k].todo = << >>
    BY <1>4, <1>6 DEF ScanCompletes
  <2> QED
    BY <1>3, <1>4, <2>1, ScanThreadFacts
<1>7. CASE ScanStops(k)
  <2>1. /\ Running(scans[k]) /\ ScanStep(k, "done", <<Call("scanStopped", k)>>)
        /\ scans[k].stop
    BY <1>4, <1>7 DEF ScanStops
  <2> QED
    BY <1>3, <1>4, <2>1, ScanThreadFacts
<1>8. CASE ScanFails(k)
  <2>1. /\ Running(scans[k]) /\ ScanStep(k, "done", <<Call("scanFailed", k)>>)
    BY <1>4, <1>8 DEF ScanFails
  <2> QED
    BY <1>3, <1>4, <2>1
<1>9. CASE ScanExit(k)
  <2>1. Running(scans[k])
    BY <1>4, <1>9 DEF ScanExit
  <2>2. CASE ScanStep(k, "exited", <<Call("scanThreadFinished", k)>>)
    BY <1>3, <1>4, <2>1, <2>2
  <2>3. CASE ScanStep(k, "exited", << >>)
    BY <1>1, <1>2, <2>1, <2>3, ScanStepSurveys
  <2> QED
    BY <1>9, <2>2, <2>3 DEF ScanExit
<1> QED
  BY <1>5, <1>6, <1>7, <1>8, <1>9 DEF ScanRuns

-----------------------------------------------------------------------------
(* The turns of the GUI thread. *)

\* A turn that keeps what the scans have found.
LEMMA GuiTurnSurveys ==
  ASSUME SurveyFits, NEW s, Surveying(s), GuiTurn(s) PROVE SurveyFits'
<1>1. Fit(s) /\ SessionFits'
  BY GuiTurnFits DEF Surveying, SurveyFits
<1>2. Situation' = s /\ ctl' = s.ctl
  BY <1>1, Became DEF Fit, Typed, GuiTurn, Become
<1>3. halt'.at = "none" /\ halt' = NotHalted
  BY DEF GuiTurn, NotHalted
<1>4. Surveyed(Situation') /\ (ctl'.active => Unasked(Situation'))
  BY <1>2 DEF Surveying
<1> QED
  BY <1>1, <1>3, <1>4 DEF SurveyFits, NotHalted

\* Outside of a stop.
LEMMA SituationSurveying ==
  ASSUME SurveyFits, halt = NotHalted
  PROVE  Surveying(Situation) /\ Fit(Situation) /\ Typed(Situation)
<1>1. halt.at = "none"
  BY DEF NotHalted
<1> QED
  BY <1>1, SituationParts DEF SurveyFits, SessionFits, Surveying, Fit

\* A call is taken.
LEMMA TakenSurveying ==
  ASSUME SurveyFits, halt = NotHalted, events # << >>
  PROVE  Surveying(Taken) /\ Taken = Rest(Situation) /\ Head(events) \in Calls
<1>1. Taken = Rest(Situation) /\ Situation.events = events
  BY SituationParts DEF Taken, Rest
<1>2. Surveying(Situation) /\ Head(events) \in Calls
  BY SituationSurveying, TakenFit DEF SurveyFits
<1> QED
  BY <1>1, <1>2, RestSurveying

\* The calls handled.
LEMMA HandleCallSurveys == ASSUME SlotEach, SurveyFits, HandleCall PROVE SurveyFits'
<1> DEFINE u == Taken
           s == Situation
           head == Head(events)
<1>1. ASSUME NEW kind, NEW v, Called(kind), GuiTurn(v)
      PROVE  /\ Surveying(u) /\ Fit(u) /\ Typed(u) /\ u = Rest(s) /\ head \in Calls
             /\ Surveying(s) /\ s.events # << >> /\ Head(s.events) = head /\ head.kind = kind
             /\ events # << >>
  <2>1. halt = NotHalted /\ events # << >> /\ head.kind = kind /\ s.events = events
    BY <1>1, SituationParts DEF GuiTurn, Called
  <2>2. Surveying(u) /\ u = Rest(s) /\ head \in Calls /\ Surveying(s)
    BY <2>1, TakenSurveying, SituationSurveying
  <2> QED
    BY <2>1, <2>2 DEF Surveying, Fit
<1> HIDE DEF s, u, head
<1>2. ASSUME NEW kind, NEW v, Called(kind), GuiTurn(v), SameScans(u, v), Fit(v)
      PROVE  SurveyFits'
  BY <1>1, <1>2, SameSurveying, GuiTurnSurveys
<1>3. CASE HandleQueueReady
  <2> DEFINE v == OnQueueReady(Taken)
  <2>1. Called("queueReady") /\ GuiTurn(v)
    BY <1>3 DEF HandleQueueReady
  <2>2. Calm(u, v) /\ SameScans(u, v)
    BY <1>1, <2>1, OnQueueReadyCalm, OnQueueReadyScans DEF u
  <2> HIDE DEF v
  <2> QED
    BY <1>1, <1>2, <2>1, <2>2, CalmFit
<1>4. CASE HandlePublished
  <2> DEFINE v == OnPublished(Taken, Arg)
  <2>1. Called("published") /\ GuiTurn(v)
    BY <1>4 DEF HandlePublished
  <2>2. Calm(u, v) /\ SameScans(u, v)
    BY <1>1, <2>1, OnPublishedCalm, OnPublishedScans DEF u
  <2> HIDE DEF v
  <2> QED
    BY <1>1, <1>2, <2>1, <2>2, CalmFit
<1>5. CASE HandleFailed
  <2> DEFINE v == OnFailed(Taken, Arg)
  <2>1. Called("failed") /\ GuiTurn(v)
    BY <1>5 DEF HandleFailed
  <2>2. Calm(u, v) /\ SameScans(u, v)
    BY <1>1, <2>1, OnFailedCalm, OnFailedScans DEF u
  <2> HIDE DEF v
  <2> QED
    BY <1>1, <1>2, <2>1, <2>2, CalmFit
<1>6. CASE HandleResult
  <2> DEFINE v == OnResult(Taken, Arg.task, Arg.verdict)
  <2>1. Called("result") /\ GuiTurn(v)
    BY <1>6 DEF HandleResult
  <2>2. Arg.verdict \in Verdicts
    BY <1>1, <2>1, ArgTyped DEF head
  <2>3. Fit(v) /\ SameScans(u, v)
    BY <1>1, <2>1, <2>2, OnResultFit, OnResultScans DEF u
  <2> HIDE DEF v
  <2> QED
    BY <1>2, <2>1, <2>3
<1>7. ASSUME NEW T, HandlePollCycle(T) PROVE SurveyFits'
  <2> DEFINE v == OnPollCycle(Taken, T)
  <2>1. Called("pollCycle") /\ GuiTurn(v)
    BY <1>7 DEF HandlePollCycle
  <2>2. Fit(v) /\ SameScans(u, v)
    BY <1>1, <2>1, OnPollCycleFit, OnPollCycleScans DEF u
  <2> HIDE DEF v
  <2> QED
    BY <1>2, <2>1, <2>2
<1>8. CASE HandlePubFinished
  <2>1. PICK known \in BOOLEAN : GuiTurn(OnPubFinished(Taken, Arg, known))
    BY <1>8 DEF HandlePubFinished
  <2> DEFINE v == OnPubFinished(Taken, Arg, known)
  <2>2. Called("pubFinished") /\ GuiTurn(v)
    BY <1>8, <2>1 DEF HandlePubFinished
  <2>3. Arg \in PubSlots
    BY <1>1, <2>2, ArgTyped DEF head
  <2>4. Calm(u, v) /\ SameScans(u, v)
    BY <1>1, <2>2, <2>3, OnPubFinishedCalm, OnPubFinishedScans DEF u
  <2> HIDE DEF v
  <2> QED
    BY <1>1, <1>2, <2>2, <2>4, CalmFit
<1>9. CASE HandlePubThreadFinished
  <2> DEFINE v == OnPubThreadFinished(Taken, Arg)
  <2>1. Called("pubThreadFinished") /\ GuiTurn(v)
    BY <1>9 DEF HandlePubThreadFinished
  <2>2. Arg \in PubSlots
    BY <1>1, <2>1, ArgTyped DEF head
  <2>3. Fit(v) /\ SameScans(u, v)
    BY <1>1, <2>1, <2>2, OnPubThreadFinishedFit, OnPubThreadFinishedScans DEF u
  <2> HIDE DEF v
  <2> QED
    BY <1>2, <2>1, <2>3
<1>10. CASE HandlePollFinished
  <2> DEFINE v == OnPollFinished(Taken, Arg)
  <2>1. Called("pollFinished") /\ GuiTurn(v)
    BY <1>10 DEF HandlePollFinished
  <2>2. Arg \in PollSlots
    BY <1>1, <2>1, ArgTyped DEF head
  <2>3. Fit(v) /\ SameScans(u, v)
    BY <1>1, <2>1, <2>2, OnPollFinishedFit, OnPollFinishedScans DEF u
  <2> HIDE DEF v
  <2> QED
    BY <1>2, <2>1, <2>3
<1>11. CASE HandleScanCompleted
  <2> DEFINE v == OnScanCompleted(Taken, Arg)
  <2>1. Called("scanCompleted") /\ GuiTurn(v)
    BY <1>11 DEF HandleScanCompleted
  <2>2. v = OnScanCompleted(Rest(s), Head(s.events).of)
    BY <1>1, <2>1 DEF u, head, Arg
  <2>3. Surveying(v)
    BY <1>1, <2>1, <2>2, OnScanCompletedSurveying
  <2> HIDE DEF v
  <2> QED
    BY <2>1, <2>3, GuiTurnSurveys
<1>12. CASE HandleScanStopped
  <2> DEFINE v == OnScanStopped(Taken, Arg)
  <2>1. Called("scanStopped") /\ GuiTurn(v)
    BY <1>12 DEF HandleScanStopped
  <2>2. v = OnScanStopped(Rest(s), Head(s.events).of)
    BY <1>1, <2>1 DEF u, head, Arg
  <2>3. Surveying(v)
    BY <1>1, <2>1, <2>2, OnScanStoppedSurveying
  <2> HIDE DEF v
  <2> QED
    BY <2>1, <2>3, GuiTurnSurveys
<1>13. CASE HandleScanFailed
  <2> DEFINE v == OnScanFailed(Taken, Arg)
  <2>1. Called("scanFailed") /\ GuiTurn(v)
    BY <1>13 DEF HandleScanFailed
  <2>2. v = OnScanFailed(Rest(s), Head(s.events).of)
    BY <1>1, <2>1 DEF u, head, Arg
  <2>3. Surveying(v)
    BY <1>1, <2>1, <2>2, OnScanFailedSurveying
  <2> HIDE DEF v
  <2> QED
    BY <2>1, <2>3, GuiTurnSurveys
<1>14. CASE HandleScanThreadFinished
  <2> DEFINE v == OnScanThreadFinished(Taken, Arg)
  <2>1. Called("scanThreadFinished") /\ GuiTurn(v)
    BY <1>14 DEF HandleScanThreadFinished
  <2>2. v = OnScanThreadFinished(Rest(s), Head(s.events).of)
    BY <1>1, <2>1 DEF u, head, Arg
  <2>3. Surveying(v)
    BY <1>1, <2>1, <2>2, OnScanThreadFinishedSurveying
  <2> HIDE DEF v
  <2> QED
    BY <2>1, <2>3, GuiTurnSurveys
<1> QED
  BY <1>3, <1>4, <1>5, <1>6, <1>7, <1>8, <1>9, <1>10, <1>11, <1>12, <1>13, <1>14
     DEF HandleCall

\* Metrics and timers.
LEMMA TimersSurvey ==
  ASSUME SlotEach, SurveyFits,
         (\E r \in Readings : Metrics(r)) \/ RetryTimer \/ RefreshTimer
  PROVE  SurveyFits'
<1> DEFINE s == Situation
<1>1. ASSUME NEW v, GuiTurn(v) PROVE Surveying(s) /\ Fit(s) /\ Typed(s)
  BY <1>1, SituationSurveying DEF GuiTurn
<1> HIDE DEF s
<1>2. ASSUME NEW v, GuiTurn(v), Fit(v), SameScans(s, v) PROVE SurveyFits'
  BY <1>1, <1>2, SameSurveying, GuiTurnSurveys
<1>3. ASSUME NEW r \in Readings, Metrics(r) PROVE SurveyFits'
  <2> DEFINE v == OnMetrics(Situation, r[1], r[2])
  <2>1. r[1] \in Nat \cup {Unknown} /\ r[2] \in Nat \cup {Unknown}
    BY SessionAssumption
  <2>2. GuiTurn(v)
    BY <1>3 DEF Metrics
  <2>3. Fit(v) /\ SameScans(s, v)
    BY <1>1, <2>1, <2>2, OnMetricsFit, TimersScans DEF s
  <2> HIDE DEF v
  <2> QED
    BY <1>2, <2>2, <2>3
<1>4. CASE RetryTimer
  <2> DEFINE v == OnRetry(Situation)
  <2>1. GuiTurn(v)
    BY <1>4 DEF RetryTimer
  <2>2. Fit(v)
    BY <1>1, <2>1, OnRetryFit DEF s
  <2>3. SameScans(s, v)
    <3>1. Fit(s) /\ Unknown \in Nat \cup {Unknown}
      BY <1>1, <2>1
    <3> QED
      BY <3>1, TimersScans DEF s
  <2> HIDE DEF v
  <2> QED
    BY <1>2, <2>1, <2>2, <2>3
<1>5. CASE RefreshTimer
  <2> DEFINE v == ReconcileScans(Situation)
  <2>1. GuiTurn(v)
    BY <1>5 DEF RefreshTimer
  <2>2. Surveying(v)
    BY <1>1, <2>1, ReconcileScansSurveying DEF s
  <2> HIDE DEF v
  <2> QED
    BY <2>1, <2>2, GuiTurnSurveys
<1> QED
  BY <1>3, <1>4, <1>5

-----------------------------------------------------------------------------
(* The user. *)

\* No queue is deleted, and no session follows the first.
OneSession == MaxGen = 0

LEMMA FirstSession ==
  ASSUME OneSession, SessionFits
  PROVE  ~(db.gen < MaxGen) /\ (PrepareSession(db) # db => db.session = "COMPLETED")
<1>1. db.gen \in Nat
  BY VariablesTyped DEF Sound, TypedTables, HasColumns
<1> QED
  BY <1>1 DEF OneSession, PrepareSession

\* A queue more waits for its scan.
LEMMA RegisteredSurveying ==
  ASSUME NEW s, Surveying(s), NEW q \in Queues, Fit([s EXCEPT !.db = Register(s.db, q)])
  PROVE  Surveying([s EXCEPT !.db = Register(s.db, q)])
<1> DEFINE d == Register(s.db, q)
           t == [s EXCEPT !.db = d]
<1>1. Typed(s) /\ Surveyed(s) /\ Sound(s.db) /\ (s.ctl.active => Unasked(s))
  BY DEF Surveying, Fit, Typed
<1>2. t.db = d /\ t.ctl = s.ctl /\ t.scans = s.scans /\ t.events = s.events
  BY <1>1 DEF Typed, Parts
<1>3. /\ Rows(d) = Rows(s.db)
      /\ \A r \in Queues : r \in Registered(s.db) => d.scan[r] = s.db.scan[r]
      /\ \A r \in Queues : d.scan[r] = s.db.scan[r] \/ d.scan[r] = "WAITING"
  <2>1. CASE q \in Registered(s.db)
    BY <2>1 DEF Register
  <2>2. CASE q \notin Registered(s.db)
    <3>1. d.tasks = s.db.tasks /\ d.scan = [s.db.scan EXCEPT ![q] = "WAITING"]
      BY <1>1, <2>2 DEF Register, Sound, TypedTables, HasColumns
    <3>2. DOMAIN s.db.scan = Queues
      BY <1>1 DEF Sound, TypedTables, HasColumns
    <3> HIDE DEF d
    <3> QED
      BY <2>2, <3>1, <3>2 DEF Rows
  <2> QED
    BY <2>1, <2>2
<1> HIDE DEF d
<1>4. Registered(s.db) \subseteq Registered(d)
  BY <1>3 DEF Registered
<1>5. \A r \in Queues : Pictures(d, r) = Pictures(s.db, r)
  BY <1>3 DEF Pictures, RowsOf
<1>6. Listing(d)
  BY <1>1, <1>3, <1>5 DEF Listing, Surveyed
<1>7. Grows(s.db, t.db) /\ Listing(t.db) /\ t.ctl.scanning = s.ctl.scanning
  BY <1>2, <1>3, <1>4, <1>6 DEF Grows
<1>8. ASSUME Unasked(s), NEW k \in Occupied(s)
      PROVE  t.db.scan[s.scans[k].queue] # "WAITING"
  <2>1. s.scans[k].queue \in Registered(s.db) /\ s.db.scan[s.scans[k].queue] # "WAITING"
    BY <1>1, <1>8 DEF Surveyed, OwnScans, Covers, Unasked
  <2> QED
    BY <1>2, <1>3, <2>1 DEF Registered
<1> HIDE DEF t
<1>9. Surveyed(t) /\ (Unasked(s) => Unasked(t))
  BY <1>1, <1>2, <1>7, <1>8, GrownSurveyed
<1>10. Surveying(t)
  BY <1>1, <1>2, <1>9 DEF Surveying, t, d
<1> QED
  BY <1>10 DEF t, d

\* add
LEMMA AddFolderSurveys ==
  ASSUME SlotEach, OneSession, SurveyFits, NEW q \in Queues, AddFolder(q) PROVE SurveyFits'
<1> DEFINE d == Register(PrepareSession(db), q)
           s == [Situation EXCEPT !.db = d]
           c == [s.ctl EXCEPT !.preparing = TRUE]
           t == [s EXCEPT !.ctl = c]
<1>1. /\ GuiTurn(s) \/ GuiTurn(Inventory(t))
      /\ db.session # "COMPLETED" /\ SessionFits
  BY FirstSession DEF AddFolder, UserTurn, SurveyFits
<1>2. halt = NotHalted
  BY <1>1 DEF GuiTurn
<1>3. Surveying(Situation) /\ Situation.db = db /\ PrepareSession(db) = db
  BY <1>1, <1>2, SituationSurveying, FirstSession, SituationParts
<1>4. Fit(s)
  BY <1>1, RegisteredFit
<1>5. Surveying(s)
  BY <1>3, <1>4, RegisteredSurveying
<1> HIDE DEF s
<1>6. Attributes(c) /\ c.active = s.ctl.active /\ c.pub = s.ctl.pub
      /\ c.scanning = s.ctl.scanning
  BY <1>4 DEF Fit, Typed, Attributes
<1> HIDE DEF c
<1>7. Calm(s, t) /\ SameScans(s, t)
  BY <1>4, <1>6, CtlCalm, CtlSame DEF Fit
<1> HIDE DEF t
<1>8. Surveying(Inventory(t))
  BY <1>4, <1>5, <1>7, CalmFit, SameSurveying, InventorySurveying
<1> QED
  BY <1>1, <1>5, <1>8, GuiTurnSurveys

\* start
LEMMA StartSurveys == ASSUME SlotEach, SurveyFits, Start PROVE SurveyFits'
<1> DEFINE d == ResumeByUser(db)
           s == [Situation EXCEPT !.db = d]
<1>1. GuiTurn(StartSession(s)) \/ GuiTurn(StartSession(Situation))
  BY DEF Start, UserTurn
<1>2. halt = NotHalted
  BY <1>1 DEF GuiTurn
<1>3. /\ Surveyed(Situation) /\ Fit(Situation) /\ Typed(Situation) /\ Situation.db = db
      /\ Sound(db) /\ Situation.ctl = ctl /\ ~Situation.ctl.active
  BY <1>2, SituationSurveying, SituationParts DEF Surveying, Fit, Typed, Start
<1>4. Occupied(Situation) = {}
  BY DEF Start, RoomToStart, Occupied
<1>5. Kept(db, d) /\ d.session = "ACTIVE"
  BY <1>3, ResumeKept DEF Sound, TypedTables, HasColumns, ResumeByUser
<1>6. d.scan = db.scan /\ Rows(d) = Rows(db)
  BY <1>3, SessionSame
<1> HIDE DEF d
<1>7. Fit(s)
  BY <1>3, <1>5, InactiveFit DEF Kept
<1>8. SameScans(Situation, s)
  BY <1>3, <1>6, TablesSame
<1> HIDE DEF s
<1>9. Surveyed(s) /\ Occupied(s) = {} /\ ~s.ctl.active
  <2>1. s.scans = Situation.scans /\ s.ctl.scanning = Situation.ctl.scanning
        /\ s.events = Situation.events
    BY <1>8 DEF SameScans
  <2>2. Occupied(s) = Occupied(Situation)
    BY <2>1, SameOccupied
  <2> QED
    BY <1>3, <1>4, <1>8, <2>2, SameSurveyed DEF SameScans
<1>10. Surveying(StartSession(s)) /\ Surveying(StartSession(Situation))
  BY <1>3, <1>4, <1>7, <1>9, StartSessionSurveying
<1> QED
  BY <1>1, <1>10, GuiTurnSurveys

\* hold and release, move up and down; nothing is deleted
LEMMA FolderActionsSurvey ==
  ASSUME OneSession, SurveyFits, NEW S,
         \/ \E held \in BOOLEAN : HoldFolders(S, held)
         \/ \E op \in Operations : MoveFolders(S, op)
         \/ DeleteFolders(S)
  PROVE  SurveyFits'
<1>0. SessionFits /\ Situation.db = db /\ Sound(db)
  BY SituationParts, VariablesTyped DEF SurveyFits
<1>1. ASSUME NEW d, Kept(db, d), d.session = db.session, d.resume = db.resume,
             d.tasks = db.tasks, d.scan = db.scan, halt = NotHalted
      PROVE  Surveying([Situation EXCEPT !.db = d]) /\ Fit([Situation EXCEPT !.db = d])
  <2> DEFINE t == [Situation EXCEPT !.db = d]
  <2>1. Surveying(Situation) /\ Fit(Situation) /\ Typed(Situation)
    BY <1>1, SituationSurveying
  <2>2. Claims(d) = Claims(db) /\ Rows(d) = Rows(db)
    BY <1>1 DEF Claims, RowsIn, Rows
  <2>3. Calm(Situation, t)
    BY <1>0, <1>1, <2>1, <2>2, TablesCalm DEF Kept
  <2>4. SameScans(Situation, t)
    BY <1>0, <1>1, <2>1, <2>2, TablesSame
  <2> HIDE DEF t
  <2>5. Fit(t)
    BY <2>1, <2>3, CalmFit
  <2>6. Surveying(t)
    BY <2>1, <2>4, <2>5, SameSurveying
  <2> QED
    BY <2>5, <2>6 DEF t
<1>2. ASSUME NEW held \in BOOLEAN, HoldFolders(S, held) PROVE SurveyFits'
  <2> DEFINE d == SetHeld(db, S \ UnderWay(Situation), held)
             s == [Situation EXCEPT !.db = d]
  <2>1. GuiTurn(s) \/ GuiTurn(Dispatch(s))
    BY <1>2 DEF HoldFolders, UserTurn
  <2>2. halt = NotHalted
    BY <2>1 DEF GuiTurn
  <2>3. Kept(db, d)
    BY <1>0, SetHeldKept
  <2>4. d.session = db.session /\ d.resume = db.resume /\ d.tasks = db.tasks /\ d.scan = db.scan
    BY <1>0 DEF Sound, TypedTables, HasColumns, SetHeld
  <2> HIDE DEF d
  <2>5. Surveying(s) /\ Fit(s)
    BY <1>1, <2>2, <2>3, <2>4
  <2> HIDE DEF s
  <2>6. Surveying(Dispatch(s))
    BY <2>5, DispatchScans, DispatchFit, SameSurveying
  <2> QED
    BY <2>1, <2>5, <2>6, GuiTurnSurveys
<1>3. ASSUME NEW op \in Operations, MoveFolders(S, op) PROVE SurveyFits'
  <2> DEFINE d == Reorder(db, S \ UnderWay(Situation), op)
             s == [Situation EXCEPT !.db = d]
  <2>1. GuiTurn(s)
    BY <1>3 DEF MoveFolders, UserTurn
  <2>2. halt = NotHalted
    BY <2>1 DEF GuiTurn
  <2>3. Kept(db, d)
    BY <1>0, ReorderKept
  <2>4. d.session = db.session /\ d.resume = db.resume /\ d.tasks = db.tasks /\ d.scan = db.scan
    BY <1>0 DEF Sound, TypedTables, HasColumns, Reorder
  <2> HIDE DEF d
  <2>5. Surveying(s)
    BY <1>1, <2>2, <2>3, <2>4
  <2> HIDE DEF s
  <2> QED
    BY <2>1, <2>5, GuiTurnSurveys
<1>4. ~DeleteFolders(S)
  BY <1>0, FirstSession DEF DeleteFolders
<1> QED
  BY <1>2, <1>3, <1>4

\* The answer to the dialog.
LEMMA ConfirmSurveys == ASSUME SurveyFits, Confirm PROVE SurveyFits'
<1> DEFINE c == [Situation.ctl EXCEPT !.asking = FALSE]
           s == [Situation EXCEPT !.ctl = c]
<1>1. GuiTurn(Prepared(s))
  BY DEF Confirm
<1>2. Surveying(Situation) /\ Fit(Situation) /\ Typed(Situation)
  BY <1>1, SituationSurveying DEF GuiTurn
<1>3. Attributes(c) /\ c.active = Situation.ctl.active /\ c.pub = Situation.ctl.pub
      /\ c.scanning = Situation.ctl.scanning
  BY <1>2 DEF Typed, Attributes
<1> HIDE DEF c
<1>4. Calm(Situation, s) /\ SameScans(Situation, s)
  BY <1>2, <1>3, CtlCalm, CtlSame
<1> HIDE DEF s
<1>5. Fit(s) /\ Surveying(s)
  BY <1>2, <1>4, CalmFit, SameSurveying
<1>6. Surveying(Prepared(s))
  BY <1>5, PreparedScans, PreparedFit, SameSurveying
<1> QED
  BY <1>1, <1>6, GuiTurnSurveys

-----------------------------------------------------------------------------
(* Stops, crashes and restarts. *)

\* What keeps the invariant when halt changes.
LEMMA HaltSurveys ==
  ASSUME SurveyFits, SessionFits', NEW s, Parts(s), Become(s), Surveyed(s),
         halt' \in [at : {"none", "scans", "messaging", "down"},
                    then : {"none", "pause", "decline", "exit"}],
         halt'.at = "none" /\ s.ctl.active => Unasked(s),
         halt'.at = "down" => Occupied(s) = {}
  PROVE  SurveyFits'
<1>1. Situation' = s /\ ctl' = s.ctl
  BY Became DEF Become
<1> QED
  BY <1>1 DEF SurveyFits

\* Nothing of a process that has just begun, or is gone, scans.
LEMMA FreshSurveyed ==
  ASSUME NEW s, s.ctl = FreshController, s.events = << >>, DOMAIN s.scans = ScanSlots,
         \A k \in ScanSlots : s.scans[k] = NoScan, Listing(s.db)
  PROVE  Surveyed(s) /\ Occupied(s) = {}
<1>1. s.ctl.scanning = [q \in Queues |-> NoSlot]
  BY DEF FreshController
<1>2. \A k \in ScanSlots : k \notin Range(s.ctl.scanning) /\ ~Running(s.scans[k])
  BY <1>1, ControllerAssumption DEF Range, Running, NoScan, NoSlot
<1>3. DOMAIN s.events = {}
  OBVIOUS
<1>4. Occupied(s) = {}
  BY <1>2, <1>3 DEF Occupied, FreeScans, Free
<1> QED
  BY <1>1, <1>3, <1>4 DEF Surveyed, OwnScans, ScanCalls, ScanRefs

\* The stop begins.
LEMMA StopBeginsSurveys ==
  ASSUME SurveyFits, NEW then \in {"pause", "decline", "exit"}, StopBegins(then)
  PROVE  SurveyFits'
<1> DEFINE c == [Situation.ctl EXCEPT !.asking = FALSE]
           s == [Situation EXCEPT !.ctl = c]
           t == StopScans(s)
<1>1. Become(t) /\ halt' = [at |-> "scans", then |-> then] /\ halt = NotHalted
  BY DEF StopBegins
<1>2. SessionFits'
  BY StopBeginsFits DEF SurveyFits
<1>3. Surveying(Situation) /\ Fit(Situation) /\ Typed(Situation)
  BY <1>1, SituationSurveying
<1>4. Attributes(c) /\ c.active = Situation.ctl.active /\ c.pub = Situation.ctl.pub
      /\ c.scanning = Situation.ctl.scanning
  BY <1>3 DEF Typed, Attributes
<1> HIDE DEF c
<1>5. Calm(Situation, s) /\ SameScans(Situation, s)
  BY <1>3, <1>4, CtlCalm, CtlSame
<1> HIDE DEF s
<1>6. Fit(s) /\ Typed(s)
  BY <1>3, <1>5, CalmFit DEF Fit
<1>7. Surveyed(s)
  BY <1>3, <1>5, SameSurveyed DEF Surveying
<1>8. /\ Parts(t) /\ t.db = s.db /\ t.events = s.events /\ t.ctl = s.ctl
      /\ DOMAIN t.scans = ScanSlots
      /\ \A k \in ScanSlots :
           t.scans[k] \in {s.scans[k], [s.scans[k] EXCEPT !.stop = TRUE, !.quit = TRUE]}
  BY <1>6 DEF StopScans, Typed, Parts
<1> HIDE DEF t
<1>9. \A k \in ScanSlots : /\ t.scans[k].run = s.scans[k].run
                           /\ t.scans[k].queue = s.scans[k].queue
                           /\ t.scans[k].todo = s.scans[k].todo
  <2> TAKE k \in ScanSlots
  <2>1. s.scans[k] \in ScanThreads
    BY <1>6 DEF Typed
  <2> QED
    BY <1>8, <2>1 DEF ScanThreads
<1>10. Surveyed(t)
  BY <1>6, <1>7, <1>8, <1>9, ToldSurveyed
<1> QED
  BY <1>1, <1>2, <1>8, <1>10, HaltSurveys

\* The stop goes on with publisher and poller.
LEMMA StopMessagingSurveys == ASSUME SurveyFits, StopMessagingNext PROVE SurveyFits'
<1> DEFINE s == Situation
           t == StopMessaging(Situation)
<1>1. Become(t) /\ halt' = [halt EXCEPT !.at = "messaging"]
  BY DEF StopMessagingNext
<1>2. SessionFits'
  BY StopMessagingFits DEF SurveyFits
<1>3. Typed(s) /\ Surveyed(s)
  BY DEF SurveyFits, SessionFits, Fit
<1>4. halt'.at = "messaging"
      /\ halt' \in [at : {"none", "scans", "messaging", "down"},
                    then : {"none", "pause", "decline", "exit"}]
  BY <1>1 DEF SurveyFits
<1> HIDE DEF s
<1>5. /\ Parts(t) /\ t.db = s.db /\ t.events = s.events /\ t.scans = s.scans
      /\ t.ctl.scanning = [q \in Queues |-> NoSlot]
  BY <1>3 DEF StopMessaging, Typed, Parts, Attributes, s
<1> HIDE DEF t
<1>6. Surveyed(t)
  BY <1>3, <1>5, LessSurveyed
<1> QED
  BY <1>1, <1>2, <1>4, <1>5, <1>6, HaltSurveys

\* The process is gone.
LEMMA KilledSurveys ==
  ASSUME SurveyFits, SessionFits', NEW d, Listing(d), Killed(d) PROVE SurveyFits'
<1> DEFINE s == [db |-> d, ctl |-> FreshController, pubs |-> Idle(pubs, NoThread),
                 polls |-> Idle(polls, NoThread), scans |-> Idle(scans, NoScan),
                 events |-> << >>]
<1>1. Become(s) /\ halt' = Down
  BY DEF Killed, Become
<1>2. /\ Parts(s) /\ s.db = d /\ s.ctl = FreshController /\ s.events = << >>
      /\ s.scans = Idle(scans, NoScan)
  BY DEF Parts
<1> HIDE DEF s
<1>3. DOMAIN scans = ScanSlots
  BY VariablesTyped DEF SurveyFits
<1>4. Surveyed(s) /\ Occupied(s) = {}
  BY <1>2, <1>3, FreshSurveyed DEF Idle
<1>5. ~s.ctl.active
  BY <1>2 DEF FreshController
<1> QED
  BY <1>1, <1>2, <1>4, <1>5, HaltSurveys DEF Down

\* The stop ends.
LEMMA StopEndsSurveys == ASSUME SurveyFits, StopEnds PROVE SurveyFits'
<1> DEFINE s == Stopped(Situation)
           d == CASE halt.then = "pause" /\ HasResumable(s.db) -> PauseByUser(s.db)
                  [] halt.then = "decline" -> PauseByUser(s.db)
                  [] halt.then = "reset"   -> ClearSession(s.db)
                  [] OTHER                 -> s.db
           t == [s EXCEPT !.db = d]
<1>1. \/ Killed(d)
      \/ Become(t) /\ halt' = NotHalted
  BY DEF StopEnds
<1>2. SessionFits'
  BY StopEndsFits DEF SurveyFits
<1>3. /\ Typed(Situation) /\ Surveyed(Situation) /\ Fit(Situation) /\ Silent(Situation)
      /\ halt.then # "reset"
  BY EndsSilent DEF SurveyFits, SessionFits, Fit
<1>4. SameScans(Situation, s) /\ Fit(s) /\ Typed(s) /\ ~s.ctl.active
  <2>1. Fit(s) /\ Typed(s) /\ ~s.ctl.active
    BY <1>3, StoppedFit DEF Fit
  <2>2. /\ s.scans = Situation.scans /\ s.ctl.scanning = Situation.ctl.scanning
        /\ s.events = Situation.events /\ s.db = ReleaseClaimed(Situation.db)
    BY <1>3 DEF Stopped, ResetSchedule, Typed, Parts, Attributes
  <2> HIDE DEF s
  <2>3. s.db.scan = Situation.db.scan /\ Rows(s.db) = Rows(Situation.db)
    BY <1>3, <2>2, SessionSame DEF Typed
  <2> QED
    BY <2>1, <2>2, <2>3 DEF SameScans
<1>5. d \in {PauseByUser(s.db), s.db}
  <2> HIDE DEF s
  <2>1. CASE halt.then = "pause" /\ HasResumable(s.db)
    BY <2>1
  <2>2. CASE halt.then = "decline"
    BY <2>2
  <2>3. CASE ~(halt.then = "pause" /\ HasResumable(s.db)) /\ halt.then # "decline"
    BY <1>3, <2>3
  <2> QED
    BY <2>1, <2>2, <2>3
<1> HIDE DEF s, d
<1>6. d.scan = s.db.scan /\ Rows(d) = Rows(s.db)
  BY <1>4, <1>5, SessionSame DEF Typed
<1>7. Parts(t) /\ t.db = d /\ t.ctl = s.ctl
  BY <1>4 DEF Typed, Parts
<1>8. SameScans(s, t)
  BY <1>4, <1>6, TablesSame
<1>9. Surveyed(t)
  BY <1>3, <1>4, <1>8, SameSurveyed
<1> HIDE DEF t
<1>10. CASE Killed(d)
  BY <1>2, <1>7, <1>9, <1>10, KilledSurveys DEF Surveyed
<1>11. CASE Become(t) /\ halt' = NotHalted
  <2>1. ~t.ctl.active
    BY <1>4, <1>7
  <2> QED
    BY <1>2, <1>7, <1>9, <1>11, <2>1, HaltSurveys DEF NotHalted
<1> QED
  BY <1>1, <1>10, <1>11 DEF d, s, t

\* The tables after the database has been opened again in the same session.
LEMMA ReopenListing ==
  ASSUME NEW d, Sound(d), Listing(d), PrepareSession(d) = d
  PROVE  Grows(d, Reopen(d)) /\ Listing(Reopen(d))
<1> DEFINE r == ReleaseClaimed(d)
           m == Reopen(d)
<1>1. r.scan = d.scan /\ Rows(r) = Rows(d) /\ Sound(r)
  BY SessionSame, Released DEF Kept
<1>2. m = RecoverScans(r)
  BY DEF Reopen
<1> HIDE DEF r, m
<1>3. m.tasks = r.tasks /\ DOMAIN m.scan = Queues
      /\ \A q \in Queues :
           m.scan[q] = IF r.scan[q] = "SCANNING" THEN "WAITING" ELSE r.scan[q]
  BY <1>1, <1>2 DEF Sound, TypedTables, HasColumns, RecoverScans
<1>4. Rows(m) = Rows(d)
  BY <1>1, <1>3 DEF Rows
<1>5. \A q \in Queues : /\ m.scan[q] = "NONE" => d.scan[q] = "NONE"
                        /\ m.scan[q] = "SCANNED" => d.scan[q] = "SCANNED"
  BY <1>1, <1>3
<1>6. \A q \in Queues : Pictures(m, q) = Pictures(d, q)
  BY <1>4 DEF Pictures, RowsOf
<1> QED
  BY <1>4, <1>5, <1>6 DEF Grows, Listing, Registered, m

\* The program starts again.
LEMMA RestartSurveys ==
  ASSUME SlotEach, OneSession, SurveyFits, NEW accept, Restart(accept) PROVE SurveyFits'
<1> DEFINE d == Reopen(db)
           s == [Situation EXCEPT !.db = d]
           e == ResumeByUser(s.db)
           t == [s EXCEPT !.db = e]
<1>1. /\ Become(s) \/ Become(ResumePersisted(s)) \/ Become(ResumePersisted(t))
      /\ halt' = NotHalted /\ halt = Down /\ (db.session = "COMPLETED" => db.gen < MaxGen)
  BY DEF Restart
<1>2. SessionFits' /\ SessionFits
  BY RestartFits DEF SurveyFits
<1>3. /\ Fit(Situation) /\ Typed(Situation) /\ Surveyed(Situation) /\ ~Situation.ctl.active
      /\ Situation.db = db /\ Sound(db) /\ Occupied(Situation) = {} /\ Silent(Situation)
      /\ PrepareSession(db) = db
  BY <1>1, <1>2, FirstSession, SituationParts, VariablesTyped
     DEF SurveyFits, SessionFits, Fit, Down
<1>4. Kept(db, d) /\ Claims(d) = {}
  BY <1>3, ReopenFields
<1>5. Grows(db, d) /\ Listing(d)
  BY <1>3, ReopenListing DEF Surveyed
<1> HIDE DEF d
<1>6. Fit(s)
  BY <1>3, <1>4, InactiveFit DEF Kept
<1>7. /\ s.db = d /\ s.ctl = Situation.ctl /\ s.scans = Situation.scans
      /\ s.events = Situation.events
  BY <1>3 DEF Typed, Parts
<1> HIDE DEF s
<1>8. Surveyed(s)
  BY <1>3, <1>5, <1>7, GrownSurveyed
<1>9. Occupied(s) = {} /\ ~s.ctl.active
  BY <1>3, <1>7, SameOccupied
<1>10. Surveying(s)
  BY <1>6, <1>8, <1>9 DEF Surveying
<1>11. Kept(s.db, e) /\ e.session = "ACTIVE" /\ e.scan = s.db.scan /\ Rows(e) = Rows(s.db)
  BY <1>6, ResumeKept, SessionSame
     DEF Fit, Typed, Sound, TypedTables, HasColumns, ResumeByUser
<1> HIDE DEF e
<1>12. Fit(t)
  BY <1>6, <1>9, <1>11, InactiveFit DEF Kept
<1>13. SameScans(s, t)
  BY <1>6, <1>11, TablesSame DEF Fit
<1> HIDE DEF t
<1>14. Surveying(t)
  BY <1>10, <1>12, <1>13, SameSurveying
<1>15. Occupied(t) = {}
  BY <1>9, <1>13, SameOccupied DEF SameScans
<1>16. Surveying(ResumePersisted(s)) /\ Surveying(ResumePersisted(t))
  BY <1>9, <1>10, <1>14, <1>15, ResumePersistedSurveying
<1>17. ASSUME NEW u, Surveying(u), Become(u) PROVE SurveyFits'
  BY <1>1, <1>2, <1>17, HaltSurveys DEF Surveying, Fit, Typed, NotHalted
<1> QED
  BY <1>1, <1>10, <1>16, <1>17

\* The invariant holds at first.
LEMMA InitSurveys == Init => SurveyFits
<1> SUFFICES ASSUME Init PROVE SurveyFits
  OBVIOUS
<1> DEFINE s == Situation
<1>1. /\ s.db = EmptyTables(0) /\ s.ctl = FreshController /\ s.events = << >>
      /\ DOMAIN s.scans = ScanSlots /\ \A k \in ScanSlots : s.scans[k] = NoScan
  BY SituationParts DEF Init
<1> HIDE DEF s
<1>2. Listing(s.db)
  BY <1>1 DEF Listing, EmptyTables, Rows
<1>3. Surveyed(s) /\ Occupied(s) = {}
  BY <1>1, <1>2, FreshSurveyed
<1>4. ~ctl.active /\ halt = NotHalted
  BY DEF Init, FreshController
<1> QED
  BY <1>3, <1>4, InitFits DEF SurveyFits, NotHalted, s

\* Every step keeps it.
LEMMA NextSurveys ==
  ASSUME SlotEach, OneSession PROVE SurveyFits /\ [Next]_vars => SurveyFits'
<1> SUFFICES ASSUME SurveyFits, [Next]_vars PROVE SurveyFits'
  OBVIOUS
<1>1. CASE UNCHANGED vars
  <2>1. UNCHANGED <<Situation, ctl, halt, mq>>
    BY <1>1 DEF vars, Situation
  <2>2. SessionFits'
    BY <1>1, NextFits DEF SurveyFits
  <2> QED
    BY <2>1, <2>2 DEF SurveyFits
<1>2. ASSUME NEW q \in Queues, AddFolder(q) PROVE SurveyFits'
  BY <1>2, AddFolderSurveys
<1>3. ASSUME NEW S, \/ \E held \in BOOLEAN : HoldFolders(S, held)
                    \/ \E op \in Operations : MoveFolders(S, op)
                    \/ DeleteFolders(S)
      PROVE  SurveyFits'
  BY <1>3, FolderActionsSurvey
<1>4. CASE Start
  BY <1>4, StartSurveys
<1>5. CASE Confirm
  BY <1>5, ConfirmSurveys
<1>6. CASE Stop \/ Refuse \/ Reset \/ Exit
  <2>1. ~Reset
    BY FirstSession DEF Reset, SurveyFits
  <2> QED
    BY <1>6, <2>1, StopBeginsSurveys DEF Stop, Refuse, Exit
<1>7. CASE StopMessagingNext
  BY <1>7, StopMessagingSurveys
<1>8. CASE StopEnds
  BY <1>8, StopEndsSurveys
<1>9. CASE Crash
  <2>1. Killed(db) /\ Listing(db)
    BY <1>9, SituationParts DEF Crash, SurveyFits, Surveyed
  <2>2. SessionFits'
    BY <1>9, NextFits DEF Next, SurveyFits
  <2> QED
    BY <2>1, <2>2, KilledSurveys
<1>10. ASSUME NEW accept \in BOOLEAN, Restart(accept) PROVE SurveyFits'
  BY <1>10, RestartSurveys
<1>11. CASE HandleCall
  BY <1>11, HandleCallSurveys
<1>12. CASE (\E r \in Readings : Metrics(r)) \/ RetryTimer \/ RefreshTimer
  BY <1>12, TimersSurvey
<1>13. ASSUME NEW p \in PubSlots, PubRuns(p) PROVE SurveyFits'
  BY <1>13, PubRunsSurveys
<1>14. ASSUME NEW w \in PollSlots, PollStarts(w) \/ PollTick(w) \/ PollEnd(w)
       PROVE  SurveyFits'
  BY <1>14, PollRunsSurveys
<1>15. ASSUME NEW w \in PollSlots, NEW t \in BagToSet(mq), NEW v \in Verdicts,
              PollDeliver(w, t, v)
       PROVE  SurveyFits'
  BY <1>15, PollDeliverSurveys
<1>16. ASSUME NEW k \in ScanSlots, ScanRuns(k) PROVE SurveyFits'
  BY <1>16, ScanRunsSurveys
<1> QED
  BY <1>1, <1>2, <1>3, <1>4, <1>5, <1>6, <1>7, <1>8, <1>9, <1>10, <1>11, <1>12, <1>13,
     <1>14, <1>15, <1>16 DEF Next

\* With a slot for the scan of each queue, and in a session from which no queue is
\* deleted, a queue is shown as SCANNED only with a request for every image of its
\* folder: through stops whose waits run out, crashes between two batches, lost
\* reports of scan threads and repeated scans, with every other fault and action of
\* the user.
THEOREM ScannedIsInventoried ==
  SlotEach /\ OneSession => (Spec => []ScannedMeansInventoried)
<1> SUFFICES ASSUME SlotEach, OneSession PROVE Spec => []ScannedMeansInventoried
  OBVIOUS
<1>1. Init => SurveyFits
  BY InitSurveys
<1>2. SurveyFits /\ [Next]_vars => SurveyFits'
  BY NextSurveys
<1>3. SurveyFits => ScannedMeansInventoried
  <2> SUFFICES ASSUME SurveyFits, NEW q \in Queues, db.scan[q] = "SCANNED"
               PROVE  {t.image : t \in RowsOf(db, q)} = ImagesIn(q)
    BY DEF ScannedMeansInventoried
  <2>1. Listing(db)
    BY SituationParts DEF SurveyFits, Surveyed
  <2>2. ImagesIn(q) \subseteq Pictures(db, q)
    BY <2>1 DEF Listing
  <2>3. Pictures(db, q) \subseteq ImagesIn(q)
    BY <2>1 DEF Listing, Pictures, RowsOf
  <2> QED
    BY <2>2, <2>3 DEF Pictures
<1> QED
  BY <1>1, <1>2, <1>3, PTL DEF Spec

=============================================================================
