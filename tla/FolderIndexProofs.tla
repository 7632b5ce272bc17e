------------------------- MODULE FolderIndexProofs -------------------------
(***************************************************************************)
(* Proofs about module FolderIndex, for every number of roots and folders, *)
(* every batch size, and any number of events.  First each transaction on  *)
(* the rows of one root, then each step of the two threads.                *)
(***************************************************************************)
EXTENDS FolderIndex, FiniteSetTheorems, TLAPS

Record(t) ==
  t \in [status : {t.status}, scope : {t.scope}, limit : {t.limit}, kind : {t.kind},
         online : {t.online}, index : {t.index}, queue : {t.queue}, errs : {t.errs},
         indexed : {t.indexed}, pending : {t.pending}, errors : {t.errors}]

WorkTyped(t) == \A f \in DOMAIN t.queue : t.queue[f] \in WorkRow
Clean(t) == t.status = "READY" => DOMAIN t.queue = {} /\ t.errs = {}
Agree(t) == t = Counted(t)
Sound(t) == Record(t) /\ WorkTyped(t) /\ Clean(t) /\ (~Known(t) => t = NoFavourite)

\* u is t but for columns that soundness does not depend on.
SameWork(t, u) ==
  Record(u) /\ u.queue = t.queue /\ u.errs = t.errs /\ u.index = t.index
  /\ u.indexed = t.indexed /\ u.pending = t.pending /\ u.errors = t.errors

\* The counts agree or not by these columns alone.
LEMMA AgreeFacts ==
  ASSUME NEW t, Record(t)
  PROVE  Agree(t) <=> /\ t.indexed = Cardinality(DOMAIN t.index)
                      /\ t.pending = Cardinality(Open(t))
                      /\ t.errors = Cardinality(t.errs)
<1>1. /\ Counted(t).status = t.status /\ Counted(t).scope = t.scope
      /\ Counted(t).index = t.index /\ Counted(t).queue = t.queue
      /\ Counted(t).errs = t.errs /\ Counted(t).limit = t.limit
      /\ Counted(t).kind = t.kind /\ Counted(t).online = t.online
      /\ Counted(t).indexed = Cardinality(DOMAIN t.index)
      /\ Counted(t).pending = Cardinality(Open(t))
      /\ Counted(t).errors = Cardinality(t.errs) /\ Record(Counted(t))
  BY DEF Counted, Record
<1> QED
  BY <1>1 DEF Agree, Record

LEMMA SameWorkFacts ==
  ASSUME NEW t, NEW u, Sound(t), SameWork(t, u), Known(u),
         u.status = "READY" => t.status = "READY"
  PROVE  /\ Sound(u) /\ (Agree(t) => Agree(u)) /\ Processing(u) = Processing(t)
<1>1. Open(u) = Open(t) /\ Processing(u) = Processing(t)
  BY DEF SameWork, Open, Processing
<1>2. Agree(t) => Agree(u)
  BY <1>1, AgreeFacts DEF SameWork, Sound
<1>3. Sound(u)
  BY DEF SameWork, Sound, Clean, WorkTyped
<1> QED
  BY <1>1, <1>2, <1>3

\* Counting changes nothing but the three counts.
LEMMA CountedFacts ==
  ASSUME NEW t, Record(t)
  PROVE  /\ Record(Counted(t)) /\ Agree(Counted(t))
         /\ Counted(t).status = t.status /\ Counted(t).scope = t.scope
         /\ Counted(t).index = t.index /\ Counted(t).queue = t.queue
         /\ Counted(t).errs = t.errs
         /\ Processing(Counted(t)) = Processing(t)
<1> DEFINE c == Counted(t)
<1>1. /\ c.status = t.status /\ c.scope = t.scope /\ c.index = t.index
      /\ c.queue = t.queue /\ c.errs = t.errs /\ Record(c)
      /\ c.indexed = Cardinality(DOMAIN t.index) /\ c.pending = Cardinality(Open(t))
      /\ c.errors = Cardinality(t.errs)
      /\ c.limit = t.limit /\ c.kind = t.kind /\ c.online = t.online
  BY DEF Counted, Record
<1>2. Open(c) = Open(t) /\ Processing(c) = Processing(t)
  BY <1>1 DEF Open, Processing
<1>3. Agree(c)
  BY <1>1, <1>2, AgreeFacts
<1> QED
  BY <1>1, <1>2, <1>3

LEMMA RestateFacts ==
  ASSUME NEW queue, \A f \in DOMAIN queue : queue[f] \in WorkRow, NEW S,
         NEW state, state \in {"PENDING", "PROCESSING", "DONE", "ERROR"}
  PROVE  /\ DOMAIN Restate(queue, S, state) = DOMAIN queue
         /\ \A f \in DOMAIN queue : Restate(queue, S, state)[f] \in WorkRow
         /\ \A f \in DOMAIN queue \cap S : Restate(queue, S, state)[f].state = state
         /\ \A f \in DOMAIN queue \ S : Restate(queue, S, state)[f] = queue[f]
BY DEF Restate, WorkRow

\* A root without a favourite has no rows to count.
LEMMA NoFavouriteFacts ==
  /\ Record(NoFavourite) /\ Sound(NoFavourite) /\ Agree(NoFavourite)
  /\ Processing(NoFavourite) = {} /\ Open(NoFavourite) = {}
  /\ DOMAIN NoFavourite.queue = {} /\ DOMAIN NoFavourite.index = {}
  /\ NoFavourite.status = "NONE" /\ ~Known(NoFavourite) /\ NoFavourite.errs = {}
  /\ NoFavourite.queue = NoRows
<1>1. DOMAIN NoRows = {}
  BY DEF NoRows
<1>2. Cardinality({}) = 0
  BY FS_EmptySet
<1>3. /\ NoFavourite.queue = NoRows /\ NoFavourite.index = NoRows /\ NoFavourite.errs = {}
      /\ NoFavourite.status = "NONE" /\ Record(NoFavourite)
      /\ NoFavourite.indexed = 0 /\ NoFavourite.pending = 0 /\ NoFavourite.errors = 0
  BY DEF NoFavourite, Favourite, Record
<1>4. Processing(NoFavourite) = {} /\ Open(NoFavourite) = {}
  BY <1>1, <1>3 DEF Processing, Open
<1>5. Agree(NoFavourite)
  BY <1>1, <1>2, <1>3, <1>4, AgreeFacts
<1>6. Sound(NoFavourite) /\ ~Known(NoFavourite)
  BY <1>1, <1>3 DEF Sound, Clean, Known, WorkTyped
<1> QED
  BY <1>1, <1>3, <1>4, <1>5, <1>6

LEMMA AddedFacts ==
  ASSUME NEW scope, NEW online
  PROVE  LET t == Added(scope, online)
         IN  /\ Sound(t) /\ Agree(t) /\ Processing(t) = {}
             /\ t.status # "READY" /\ Known(t)
<1> DEFINE t == Added(scope, online)
<1>1. DOMAIN NoRows = {}
  BY DEF NoRows
<1>2. /\ Record(t) /\ t.queue = NoRows /\ t.index = NoRows /\ t.errs = {}
      /\ t.indexed = 0 /\ t.pending = 0 /\ t.errors = 0
      /\ t.status \in {"EXCLUDED", "EMPTY", "OFFLINE"}
  BY DEF Added, Favourite, Record
<1>3. Open(t) = {} /\ Processing(t) = {}
  BY <1>1, <1>2 DEF Open, Processing
<1>4. Agree(t)
  BY <1>1, <1>2, <1>3, FS_EmptySet, AgreeFacts
<1> QED
  BY <1>1, <1>2, <1>3, <1>4 DEF Sound, Clean, Known, WorkTyped

\* Counting keeps what is sound.
LEMMA CountedSound ==
  ASSUME NEW t, Sound(t)
  PROVE  Sound(Counted(t)) /\ Agree(Counted(t)) /\ Processing(Counted(t)) = Processing(t)
<1>1. CASE Known(t)
  BY <1>1, CountedFacts DEF Sound, Clean, WorkTyped, Known
<1>2. CASE ~Known(t)
  BY <1>2, CountedFacts, NoFavouriteFacts DEF Sound, Agree
<1> QED
  BY <1>1, <1>2

-----------------------------------------------------------------------------
(* The transactions of the GUI thread, and the start of the process. *)

LEMMA ReturnedFacts ==
  ASSUME NEW t, Sound(t)
  PROVE  Sound(Returned(t)) /\ Processing(Returned(t)) = {}
         /\ Returned(t).status = t.status
<1> DEFINE u == Returned(t)
           S == Processing(t)
<1>1. /\ Record(u) /\ u.queue = Restate(t.queue, S, "PENDING") /\ u.errs = t.errs
      /\ u.status = t.status /\ u.scope = t.scope /\ u.limit = t.limit /\ u.kind = t.kind
      /\ u.online = t.online /\ u.index = t.index /\ u.indexed = t.indexed
      /\ u.pending = t.pending /\ u.errors = t.errors
  BY DEF Returned, Record, Sound
<1>2. /\ DOMAIN u.queue = DOMAIN t.queue
      /\ \A f \in DOMAIN u.queue : u.queue[f] \in WorkRow
      /\ \A f \in DOMAIN u.queue \cap S : u.queue[f].state = "PENDING"
      /\ \A f \in DOMAIN u.queue \ S : u.queue[f] = t.queue[f]
  <2> DEFINE q == Restate(t.queue, S, "PENDING")
  <2>1. \A f \in DOMAIN t.queue : t.queue[f] \in WorkRow
    BY DEF Sound, WorkTyped
  <2>2. /\ DOMAIN q = DOMAIN t.queue
        /\ \A f \in DOMAIN q : q[f] \in WorkRow
        /\ \A f \in DOMAIN q \cap S : q[f].state = "PENDING"
        /\ \A f \in DOMAIN q \ S : q[f] = t.queue[f]
    BY <2>1, RestateFacts
  <2>3. u.queue = q
    BY <1>1
  <2> HIDE DEF q, u
  <2> QED
    BY <2>2, <2>3
<1>3. Processing(u) = {}
  BY <1>2 DEF Processing
<1>4. CASE Known(t)
  BY <1>1, <1>2, <1>3, <1>4 DEF Sound, Known, Clean, WorkTyped
<1>5. CASE ~Known(t)
  <2>1. t = NoFavourite
    BY <1>5 DEF Sound
  <2>2. u.queue = NoRows
    BY <1>1, <2>1, NoFavouriteFacts DEF Restate, NoRows
  <2>3. u.queue = t.queue /\ Record(t)
    BY <2>1, <2>2, NoFavouriteFacts
  <2>4. u = t
    BY <1>1, <2>3 DEF Record
  <2> QED
    BY <2>1, <2>4, NoFavouriteFacts
<1> QED
  BY <1>1, <1>3, <1>4, <1>5

LEMMA RescopedFacts ==
  ASSUME NEW t, Sound(t), NEW scope
  PROVE  LET u == Rescoped(t, scope)
         IN  /\ Sound(u) /\ (Agree(t) => Agree(u)) /\ Processing(u) = {}
             /\ u.status # "READY" /\ Known(u)
<1> DEFINE u == Rescoped(t, scope)
<1>1. DOMAIN NoRows = {}
  BY DEF NoRows
<1>2. /\ Record(u) /\ u.queue = NoRows /\ u.index = t.index /\ u.errs = {}
      /\ u.indexed = t.indexed /\ u.pending = 0 /\ u.errors = 0
      /\ u.status \in {"EXCLUDED", "INCOMPLETE"}
  BY DEF Rescoped, Record, Sound
<1>3. Open(u) = {} /\ Processing(u) = {}
  BY <1>1, <1>2 DEF Open, Processing
<1>4. Agree(t) => Agree(u)
  BY <1>2, <1>3, FS_EmptySet, AgreeFacts DEF Sound
<1> QED
  BY <1>1, <1>2, <1>3, <1>4 DEF Sound, Clean, Known, WorkTyped

LEMMA PausedFacts ==
  ASSUME NEW t, Sound(t), Known(t)
  PROVE  LET u == Paused(t)
         IN  /\ Sound(u) /\ Agree(u) /\ Processing(u) = {} /\ Known(u)
             /\ u.status = "READY" => t.status = "READY"
<1> DEFINE v == IF t.scope = "EXCLUDED" THEN t ELSE [t EXCEPT !.status = "PAUSED"]
<1>1. SameWork(t, v) /\ Known(v) /\ (v.status = "READY" => t.status = "READY")
  BY DEF SameWork, Record, Sound, Known
<1> HIDE DEF v
<1>2. Sound(v)
  BY <1>1, SameWorkFacts
<1>3. Sound(Returned(v)) /\ Processing(Returned(v)) = {} /\ Returned(v).status = v.status
  BY <1>2, ReturnedFacts
<1>4. Paused(t) = Counted(Returned(v))
  BY DEF Paused, v
<1>5. Paused(t).status = v.status
  BY <1>3, <1>4, CountedFacts DEF Sound
<1> QED
  BY <1>1, <1>3, <1>4, <1>5, CountedSound DEF Known

LEMMA ResumedFacts ==
  ASSUME NEW t, Sound(t)
  PROVE  LET u == Resumed(t)
         IN  /\ Sound(u) /\ (Agree(t) => Agree(u)) /\ Processing(u) = Processing(t)
             /\ u.status # "READY" /\ Known(u)
<1>1. SameWork(t, Resumed(t)) /\ Resumed(t).status = "INCOMPLETE"
  BY DEF SameWork, Record, Sound, Resumed
<1> QED
  BY <1>1, SameWorkFacts DEF Known

LEMMA MissingFacts ==
  ASSUME NEW t, Sound(t), Known(t), NEW f
  PROVE  LET u == Missing(t, f)
         IN  /\ Sound(u) /\ Agree(u) /\ Processing(u) = Processing(t)
             /\ u.status = "READY" => t.status = "READY"
<1> DEFINE v == [t EXCEPT !.index = Keep(t.index, Folders \ Under(f)),
                          !.status = IF t.scope = "EXCLUDED" THEN @ ELSE "INCOMPLETE"]
<1>1. /\ Record(v) /\ v.queue = t.queue /\ v.errs = t.errs
      /\ v.status = t.status \/ v.status = "INCOMPLETE"
  BY DEF Record, Sound
<1>2. Missing(t, f) = Counted(v)
  BY DEF Missing
<1> HIDE DEF v
<1>3. Sound(v) /\ Processing(v) = Processing(t)
  BY <1>1 DEF Sound, Clean, WorkTyped, Known, Processing
<1> QED
  BY <1>1, <1>2, <1>3, CountedSound, CountedFacts DEF Sound

LEMMA RecoveredFacts ==
  ASSUME NEW t, Sound(t)
  PROVE  LET u == Recovered(t)
         IN  /\ Sound(u) /\ Agree(u) /\ Processing(u) = {}
             /\ Known(u) <=> Known(t)
<1> DEFINE v == IF t.status = "INDEXING" THEN [t EXCEPT !.status = "INCOMPLETE"] ELSE t
<1>1. Sound(v) /\ (Known(v) <=> Known(t))
  <2>1. CASE t.status = "INDEXING"
    <3>1. SameWork(t, v) /\ v.status = "INCOMPLETE"
      BY <2>1 DEF SameWork, Record, Sound
    <3> QED
      BY <2>1, <3>1, SameWorkFacts DEF Known
  <2>2. CASE t.status # "INDEXING"
    BY <2>2
  <2> QED
    BY <2>1, <2>2
<1> HIDE DEF v
<1>2. Recovered(t) = Counted(Returned(v))
  BY DEF Recovered, v
<1>3. Recovered(t).status = v.status
  BY <1>1, <1>2, ReturnedFacts, CountedFacts DEF Sound
<1> QED
  BY <1>1, <1>2, <1>3, ReturnedFacts, CountedSound DEF Known

-----------------------------------------------------------------------------
(* The transactions of a scan. *)

LEMMA ConnectedFacts ==
  ASSUME NEW t, Sound(t), Known(t), NEW online
  PROVE  LET u == Connected(t, online)
         IN  /\ Sound(u) /\ (Agree(t) => Agree(u)) /\ Processing(u) = Processing(t)
             /\ u.status = "READY" => t.status = "READY"
<1>1. /\ SameWork(t, Connected(t, online)) /\ Known(Connected(t, online))
      /\ Connected(t, online).status = "READY" => t.status = "READY"
  BY DEF SameWork, Record, Sound, Connected, Known
<1> QED
  BY <1>1, SameWorkFacts

LEMMA StartedFacts ==
  ASSUME NEW t, Sound(t)
  PROVE  LET u == Started(t)
         IN  /\ Sound(u) /\ (Agree(t) => Agree(u)) /\ Processing(u) = Processing(t)
             /\ u.status # "READY"
<1>1. SameWork(t, Started(t)) /\ Started(t).status = "INDEXING"
  BY DEF SameWork, Record, Sound, Started
<1> QED
  BY <1>1, SameWorkFacts DEF Known

LEMMA RenewedFacts ==
  ASSUME NEW t, Sound(t), NEW kind, NEW queue, NEW pending,
         \A f \in DOMAIN queue : queue[f] \in WorkRow /\ queue[f].state = "PENDING"
  PROVE  LET u == Renewed(t, kind, queue, pending)
         IN  /\ Sound(u) /\ Processing(u) = {} /\ u.status # "READY"
             /\ u.queue = queue /\ u.errs = {} /\ u.pending = pending /\ u.errors = 0
             /\ DOMAIN u.index = DOMAIN t.index /\ u.indexed = t.indexed
<1> DEFINE u == Renewed(t, kind, queue, pending)
<1>1. /\ Record(u) /\ u.queue = queue /\ u.errs = {} /\ u.status = "INDEXING"
      /\ u.pending = pending /\ u.errors = 0
      /\ DOMAIN u.index = DOMAIN t.index /\ u.indexed = t.indexed
  BY DEF Renewed, Record, Sound
<1> HIDE DEF u
<1>2. Sound(u)
  BY <1>1 DEF Sound, Clean, WorkTyped, Known
<1>3. Processing(u) = {}
  BY <1>1 DEF Processing
<1> QED
  BY <1>1, <1>2, <1>3 DEF u

LEMMA PreparedFullFacts ==
  ASSUME NEW t, Sound(t)
  PROVE  LET u == PreparedFull(t)
         IN  /\ Sound(u) /\ Processing(u) = {} /\ u.status # "READY"
             /\ Agree(t) => Agree(u)
<1> DEFINE queue == [f \in {Top} |-> Work("DISCOVER")]
           u == Renewed(t, "FULL", queue, 1)
<1>1. /\ DOMAIN queue = {Top}
      /\ \A f \in DOMAIN queue : queue[f] \in WorkRow /\ queue[f].state = "PENDING"
  BY DEF Work, WorkRow
<1> HIDE DEF queue
<1>2. /\ Sound(u) /\ Processing(u) = {} /\ u.status # "READY"
      /\ u.queue = queue /\ u.errs = {} /\ u.pending = 1 /\ u.errors = 0
      /\ DOMAIN u.index = DOMAIN t.index /\ u.indexed = t.indexed
  BY <1>1, RenewedFacts
<1>3. PreparedFull(t) = u
  BY DEF PreparedFull, queue
<1> HIDE DEF u
<1>4. Open(u) = {Top}
  BY <1>1, <1>2 DEF Open
<1>5. Cardinality({Top}) = 1 /\ Cardinality({}) = 0
  BY FS_Singleton, FS_EmptySet
<1>6. Agree(t) => Agree(u)
  BY <1>2, <1>4, <1>5, AgreeFacts DEF Sound
<1> QED
  BY <1>2, <1>3, <1>6

LEMMA PreparedIncrementalFacts ==
  ASSUME NEW t, Sound(t), NEW cached
  PROVE  LET u == PreparedIncremental(t, cached)
         IN  Sound(u) /\ Processing(u) = {} /\ u.status # "READY"
<1> DEFINE queue == [f \in DOMAIN t.index |-> Work("VERIFY")]
<1>1. \A f \in DOMAIN queue : queue[f] \in WorkRow /\ queue[f].state = "PENDING"
  BY DEF Work, WorkRow
<1>2. PreparedIncremental(t, cached) = Renewed(t, "INCREMENTAL", queue, cached)
  BY DEF PreparedIncremental
<1> HIDE DEF queue
<1> QED
  BY <1>1, <1>2, RenewedFacts

\* A change of states in the queue alone.
LEMMA RequeuedFacts ==
  ASSUME NEW t, Sound(t), Known(t), NEW S \in SUBSET DOMAIN t.queue,
         NEW state, state \in {"PENDING", "PROCESSING"}
  PROVE  LET u == [t EXCEPT !.queue = Restate(t.queue, S, state)]
         IN  /\ Sound(u) /\ u.status = t.status
             /\ Processing(u) \subseteq
                  IF state = "PENDING" THEN Processing(t) ELSE Processing(t) \cup S
<1> DEFINE q == Restate(t.queue, S, state)
           u == [t EXCEPT !.queue = q]
<1>1. /\ Record(u) /\ u.queue = q /\ u.errs = t.errs /\ u.status = t.status
  BY DEF Record, Sound
<1>2. \A f \in DOMAIN t.queue : t.queue[f] \in WorkRow
  BY DEF Sound, WorkTyped
<1>3. /\ DOMAIN q = DOMAIN t.queue
      /\ \A f \in DOMAIN t.queue : q[f] \in WorkRow
      /\ \A f \in DOMAIN t.queue \cap S : q[f].state = state
      /\ \A f \in DOMAIN t.queue \ S : q[f] = t.queue[f]
  BY <1>2, RestateFacts
<1> HIDE DEF q, u
<1>4. Sound(u)
  BY <1>1, <1>3 DEF Sound, Clean, WorkTyped, Known
<1>5. Processing(u) \subseteq IF state = "PENDING" THEN Processing(t) ELSE Processing(t) \cup S
  BY <1>1, <1>3 DEF Processing
<1> QED
  BY <1>1, <1>4, <1>5 DEF q, u

LEMMA RetriedFacts ==
  ASSUME NEW t, Sound(t), Known(t)
  PROVE  LET u == Retried(t)
         IN  /\ Sound(u) /\ Agree(u) /\ Processing(u) \subseteq Processing(t)
             /\ u.status = t.status
<1> DEFINE S == {f \in DOMAIN t.queue : /\ t.queue[f].state = "ERROR"
                                        /\ t.queue[f].tries < MaxTries}
           v == [t EXCEPT !.queue = Restate(t.queue, S, "PENDING")]
<1>1. Retried(t) = Counted(v)
  BY DEF Retried
<1>2. S \in SUBSET DOMAIN t.queue
  OBVIOUS
<1> HIDE DEF S
<1>3. Sound(v) /\ v.status = t.status /\ Processing(v) \subseteq Processing(t)
  BY <1>2, RequeuedFacts
<1> HIDE DEF v
<1> QED
  BY <1>1, <1>3, CountedSound, CountedFacts DEF Sound

LEMMA ClaimedFacts ==
  ASSUME NEW t, Sound(t), Known(t), NEW S \in SUBSET Claimable(t)
  PROVE  LET u == Claimed(t, S)
         IN  /\ Sound(u) /\ Processing(u) \subseteq Processing(t) \cup S
             /\ u.status = t.status
<1>1. S \in SUBSET DOMAIN t.queue
  BY DEF Claimable
<1> QED
  BY <1>1, RequeuedFacts DEF Claimed

LEMMA InterruptedFacts ==
  ASSUME NEW t, Sound(t)
  PROVE  LET u == Interrupted(t)
         IN  /\ Sound(u) /\ Agree(u) /\ Processing(u) = Processing(t)
             /\ u.status = "READY" => t.status = "READY"
<1> DEFINE v == IF t.status = "INDEXING" THEN [t EXCEPT !.status = "INCOMPLETE"] ELSE t
<1>1. Sound(v) /\ Processing(v) = Processing(t) /\ (v.status = "READY" => t.status = "READY")
  <2>1. CASE t.status = "INDEXING"
    <3>1. SameWork(t, v) /\ v.status = "INCOMPLETE"
      BY <2>1 DEF SameWork, Record, Sound
    <3> QED
      BY <2>1, <3>1, SameWorkFacts DEF Known
  <2>2. CASE t.status # "INDEXING"
    BY <2>2
  <2> QED
    BY <2>1, <2>2
<1>2. Interrupted(t) = Counted(v)
  BY DEF Interrupted
<1> HIDE DEF v
<1> QED
  BY <1>1, <1>2, CountedSound, CountedFacts DEF Sound

LEMMA FinalizedFacts ==
  ASSUME NEW t, Sound(t), Known(t)
  PROVE  LET u == Finalized(t)
         IN  Sound(u) /\ Agree(u) /\ Processing(u) \subseteq Processing(t)
<1>1. CASE Finished(t)
  <2> DEFINE v == [t EXCEPT !.status = "READY", !.online = TRUE, !.queue = NoRows, !.errs = {},
                            !.index = IF t.kind = "FULL"
                                      THEN Keep(t.index, {f \in DOMAIN t.index : t.index[f].now})
                                      ELSE @]
  <2>1. Record(v) /\ v.status = "READY" /\ v.queue = NoRows /\ v.errs = {}
    BY DEF Record, Sound
  <2>2. Finalized(t) = Counted(v)
    BY <1>1 DEF Finalized
  <2> HIDE DEF v
  <2>3. DOMAIN v.queue = {}
    BY <2>1 DEF NoRows
  <2>4. Sound(v) /\ Processing(v) = {}
    BY <2>1, <2>3 DEF Sound, Clean, WorkTyped, Known, Processing
  <2> QED
    BY <2>2, <2>4, CountedSound
<1>2. CASE ~Finished(t)
  <2> DEFINE v == [t EXCEPT !.status = "INCOMPLETE"]
  <2>1. SameWork(t, v) /\ v.status = "INCOMPLETE"
    BY DEF SameWork, Record, Sound
  <2>2. Finalized(t) = Counted(v)
    BY <1>2 DEF Finalized
  <2> HIDE DEF v
  <2>3. Sound(v) /\ Processing(v) = Processing(t)
    BY <2>1, SameWorkFacts DEF Known
  <2> QED
    BY <2>2, <2>3, CountedSound
<1> QED
  BY <1>1, <1>2

\* The folders of a batch are no longer PROCESSING once it is written.
LEMMA CommittedFacts ==
  ASSUME NEW t, Sound(t), Known(t), t.status # "READY", NEW good, NEW bad, NEW now \in BOOLEAN
  PROVE  LET u == Committed(t, good, bad, now)
         IN  /\ Sound(u) /\ Agree(u) /\ u.status = t.status
             /\ Processing(u) \subseteq Processing(t) \ (FoldersOf(good) \cup bad)
<1> DEFINE gone == UNION {Under(g) : g \in UNION {s.gone : s \in good}}
           children == UNION {s.children : s \in good}
           q == Enqueued(t.queue, children, now)
           p == Settled(q, good, bad)
           v == [t EXCEPT !.index = Keep(Upserted(@, good, now), Folders \ gone), !.queue = p,
                          !.errs = (@ \ (FoldersOf(good) \X {now})) \cup (bad \X {now})]
<1>1. Committed(t, good, bad, now) = Counted(v)
  BY DEF Committed
<1>2. Record(v) /\ v.queue = p /\ v.status = t.status
  BY DEF Record, Sound
<1> HIDE DEF v
<1>3. \A f \in DOMAIN t.queue : t.queue[f] \in WorkRow
  BY DEF Sound, WorkTyped
<1>4. /\ \A f \in DOMAIN q : q[f] \in WorkRow
      /\ \A f \in DOMAIN q : q[f].state = "PROCESSING" =>
                             f \in DOMAIN t.queue /\ q[f] = t.queue[f]
  <2> HIDE DEF children
  <2>1. LET w == [Work("DISCOVER") EXCEPT !.now = now] IN w \in WorkRow /\ w.state = "PENDING"
    BY DEF Work, WorkRow
  <2> QED
    BY <1>3, <2>1 DEF Enqueued
<1> HIDE DEF q
<1>5. /\ \A f \in DOMAIN p : p[f] \in WorkRow
      /\ \A f \in DOMAIN p : p[f].state = "PROCESSING" =>
           f \in DOMAIN q /\ p[f] = q[f] /\ f \notin FoldersOf(good) \cup bad
  <2> SUFFICES ASSUME NEW f \in DOMAIN p
               PROVE  /\ p[f] \in WorkRow
                      /\ p[f].state = "PROCESSING" =>
                           f \in DOMAIN q /\ p[f] = q[f] /\ f \notin FoldersOf(good) \cup bad
    OBVIOUS
  <2>1. f \in DOMAIN q /\ q[f] \in WorkRow
    BY <1>4 DEF Settled
  <2>2. CASE f \in FoldersOf(good)
    <3>1. p[f] = [q[f] EXCEPT !.state = "DONE"]
      BY <2>1, <2>2 DEF Settled
    <3> QED
      BY <2>1, <3>1 DEF WorkRow
  <2>3. CASE f \in bad \ FoldersOf(good)
    <3>1. p[f] = [q[f] EXCEPT !.state = "ERROR", !.tries = @ + 1]
      BY <2>1, <2>3 DEF Settled
    <3>2. q[f].tries \in Nat
      BY <2>1 DEF WorkRow
    <3>3. q[f].tries + 1 \in Nat
      BY <3>2
    <3>4. p[f] = [[q[f] EXCEPT !.state = "ERROR"] EXCEPT !.tries = q[f].tries + 1]
      BY <2>1, <3>1 DEF WorkRow
    <3> DEFINE n == q[f].tries + 1
    <3> HIDE DEF n
    <3>5. p[f] \in WorkRow /\ p[f].state = "ERROR"
      BY <2>1, <3>3, <3>4 DEF WorkRow, n
    <3> QED
      BY <3>5
  <2>4. CASE f \notin FoldersOf(good) \cup bad
    BY <2>1, <2>4 DEF Settled
  <2> QED
    BY <2>2, <2>3, <2>4
<1> HIDE DEF p
<1>6. Sound(v)
  BY <1>2, <1>5 DEF Sound, Clean, WorkTyped, Known
<1>7. Processing(v) \subseteq Processing(t) \ (FoldersOf(good) \cup bad)
  BY <1>2, <1>4, <1>5 DEF Processing
<1> QED
  BY <1>1, <1>2, <1>6, <1>7, CountedSound, CountedFacts DEF Sound

-----------------------------------------------------------------------------
(* The invariant.  READY is only given back by the worker, and while the   *)
(* worker is between Mark and Finalize its root is not READY: whatever the *)
(* GUI thread does to the root, none of its transactions makes it READY.   *)
(* The count of what is pending is only off on the way from a preparation  *)
(* to the next batch.                                                      *)

Scanning == {"claim", "inspect", "commit", "finalize"}
Stations == Scanning \cup {"none", "next", "lookFull", "writeFull", "lookIncremental",
                         "writeIncremental", "open", "plan", "choose", "mark", "ended"}
Outside == {"none", "next", "ended"}

JobTyped(j) == j \in [roots : SUBSET Roots, full : {j.full}, limited : {j.limited},
                      retry : {j.retry}]
WorkerTyped(w) ==
  w \in [at : Stations, job : {w.job}, root : Roots \cup {NoRoot},
         then : {"open", "choose", "mark"}, seen : {w.seen}, batch : {w.batch},
         good : {w.good}, bad : {w.bad}, now : BOOLEAN, processed : {w.processed},
         cancelled : BOOLEAN]

\* Where the counts of the worker's root may be off.
Loose(w) ==
  \/ w.at \in Scanning \cup {"choose", "mark", "lookIncremental", "writeIncremental"}
  \/ w.at \in {"lookFull", "writeFull"} /\ w.then # "open"

\* The folders that may be PROCESSING.
Held(w) ==
  CASE w.at = "inspect" -> {b.folder : b \in w.batch} \cup FoldersOf(w.good) \cup w.bad
    [] w.at = "commit" -> FoldersOf(w.good) \cup w.bad
    [] OTHER -> {}

Standing(w) ==
  /\ WorkerTyped(w) /\ JobTyped(w.job)
  /\ w.at \notin Outside => w.root \in Roots
  /\ w.at \in {"lookIncremental", "writeIncremental"} => w.then # "open"

RootFine(w, r, t) ==
  /\ Sound(t)
  /\ w.at \in Scanning /\ r = w.root => t.status # "READY"
  /\ Processing(t) \subseteq (IF r = w.root THEN Held(w) ELSE {})
  /\ (r = w.root /\ Loose(w)) \/ Agree(t)

Fine(d, w) ==
  /\ d = [r \in Roots |-> d[r]]
  /\ Standing(w)
  /\ \A r \in Roots : RootFine(w, r, d[r])

IndexInv == Fine(db, worker) /\ JobTyped(job)

LEMMA InitFine == Init => IndexInv
<1> SUFFICES ASSUME Init PROVE IndexInv
  OBVIOUS
<1>1. JobTyped(NoJob)
  BY DEF JobTyped, NoJob
<1>2. /\ WorkerTyped(NoWorker) /\ NoWorker.job = NoJob /\ NoWorker.at = "none"
      /\ NoWorker.root = NoRoot
  BY <1>1 DEF WorkerTyped, NoWorker, Stations, Scanning
<1>3. Standing(NoWorker)
  BY <1>1, <1>2 DEF Standing, Outside
<1>4. db = [r \in Roots |-> db[r]] /\ \A r \in Roots : db[r] = NoFavourite
  BY DEF Init
<1>5. \A r \in Roots : RootFine(NoWorker, r, db[r])
  BY <1>2, <1>4, NoFavouriteFacts DEF RootFine, Scanning
<1> QED
  BY <1>1, <1>3, <1>4, <1>5 DEF Init, IndexInv, Fine

\* A worker that has nothing of a root in its hands.
LEMMA IdleWorker ==
  ASSUME NEW d, NEW w, Fine(d, w), w.at \in Outside, NEW v, Standing(v), v.at \in Outside
  PROVE  Fine(d, v)
<1>1. ~Loose(w) /\ ~Loose(v) /\ Held(w) = {} /\ Held(v) = {} /\ v.at \notin Scanning
  BY DEF Outside, Loose, Held, Scanning
<1>2. \A r \in Roots : RootFine(v, r, d[r])
  <2> SUFFICES ASSUME NEW r \in Roots PROVE RootFine(v, r, d[r])
    OBVIOUS
  <2>1. RootFine(w, r, d[r])
    BY DEF Fine
  <2>2. Sound(d[r]) /\ Agree(d[r]) /\ Processing(d[r]) = {}
    BY <1>1, <2>1 DEF RootFine
  <2> QED
    BY <1>1, <2>2 DEF RootFine
<1> QED
  BY <1>2 DEF Fine

\* NewWorker and NoWorker.
LEMMA FreshWorkers ==
  /\ Standing(NoWorker) /\ NoWorker.at \in Outside
  /\ \A j : JobTyped(j) => Standing(NewWorker(j)) /\ NewWorker(j).at \in Outside
<1>1. JobTyped(NoJob)
  BY DEF JobTyped, NoJob
<1>2. WorkerTyped(NoWorker) /\ NoWorker.job = NoJob /\ NoWorker.at = "none"
  BY <1>1 DEF WorkerTyped, NoWorker, Stations, Scanning
<1>3. ASSUME NEW j, JobTyped(j)
      PROVE  Standing(NewWorker(j)) /\ NewWorker(j).at \in Outside
  <2>1. WorkerTyped(NewWorker(j)) /\ NewWorker(j).job = j /\ NewWorker(j).at = "next"
    BY DEF WorkerTyped, NewWorker, NoWorker, Stations, Scanning
  <2> QED
    BY <1>3, <2>1 DEF Standing, Outside
<1> QED
  BY <1>1, <1>2, <1>3 DEF Standing, Outside

\* A job is either given to a new worker, or waits.
LEMMA RequestFacts ==
  ASSUME IndexInv, NEW j, JobTyped(j), Request(j)
  PROVE  /\ JobTyped(job')
         /\ \A d : Fine(d, worker) => Fine(d, worker')
<1>1. JobTyped(job)
  BY DEF IndexInv
<1>2. JobTyped(Merged(job, j))
  BY <1>1 DEF Merged, Job, JobTyped
<1>3. JobTyped(job')
  BY <1>1, <1>2 DEF Request
<1>4. worker' = worker \/ (worker.at = "none" /\ worker' = NewWorker(j))
  BY DEF Request
<1> QED
  BY <1>3, <1>4, FreshWorkers, IdleWorker DEF Outside

LEMMA JobsTyped ==
  ASSUME NEW S \in SUBSET Roots, NEW full, NEW limited, NEW retry
  PROVE  JobTyped(Job(S, full, limited, retry)) /\ JobTyped(NoJob)
BY DEF JobTyped, Job, NoJob

\* A transaction of the GUI thread.
LEMMA GuiStep ==
  ASSUME NEW d, NEW w, Fine(d, w), NEW r \in Roots, NEW u,
         Sound(u), Processing(u) \subseteq Processing(d[r]), Agree(d[r]) => Agree(u),
         u.status = "READY" => d[r].status = "READY"
  PROVE  Fine([d EXCEPT ![r] = u], w)
<1> DEFINE e == [d EXCEPT ![r] = u]
<1>1. e = [x \in Roots |-> IF x = r THEN u ELSE d[x]]
  BY DEF Fine
<1>2. \A x \in Roots : RootFine(w, x, d[x])
  BY DEF Fine
<1>3. RootFine(w, r, u)
  BY <1>2 DEF RootFine
<1>4. e[r] = u /\ (\A x \in Roots \ {r} : e[x] = d[x]) /\ e = [x \in Roots |-> e[x]]
  BY <1>1
<1> HIDE DEF e
<1>5. \A x \in Roots : RootFine(w, x, e[x])
  BY <1>2, <1>3, <1>4
<1> QED
  BY <1>4, <1>5 DEF Fine, e

\* What the GUI thread does to a worker that goes on.
LEMMA MarkedWorker ==
  ASSUME NEW d, NEW w, Fine(d, w),
         NEW v, v = [w EXCEPT !.cancelled = TRUE] \/ v = [w EXCEPT !.now = FALSE]
  PROVE  Fine(d, v)
<1>1. WorkerTyped(w) /\ Standing(w)
  BY DEF Fine, Standing
<1>2. /\ WorkerTyped(v) /\ v.at = w.at /\ v.root = w.root /\ v.then = w.then
      /\ v.batch = w.batch /\ v.good = w.good /\ v.bad = w.bad /\ v.job = w.job
  BY <1>1 DEF WorkerTyped
<1>3. Standing(v) /\ Held(v) = Held(w) /\ (Loose(v) <=> Loose(w))
  BY <1>1, <1>2 DEF Standing, Held, Loose
<1>4. \A r \in Roots : RootFine(v, r, d[r])
  BY <1>2, <1>3 DEF Fine, RootFine
<1> QED
  BY <1>3, <1>4 DEF Fine

\* The user's actions keep the invariant.
LEMMA UserFine == IndexInv /\ User => IndexInv'
<1> SUFFICES ASSUME IndexInv, User PROVE IndexInv'
  OBVIOUS
<1>1. /\ Fine(db, worker) /\ JobTyped(job)
      /\ \A r \in Roots : Sound(db[r])
  BY DEF IndexInv, Fine, RootFine
<1>2. CASE \E r \in Roots : Add(r)
  <2>1. PICK r \in Roots : Add(r)
    BY <1>2
  <2> DEFINE u == Added("DEPTH", link[r])
             j == Job({r}, TRUE, FALSE, FALSE)
  <2>2. Sound(u) /\ Agree(u) /\ Processing(u) = {} /\ u.status # "READY"
    BY AddedFacts
  <2>3. JobTyped(j)
    BY JobsTyped
  <2>4. db' = [db EXCEPT ![r] = u] /\ Request(j)
    BY <2>1 DEF Add, Put
  <2> HIDE DEF u, j
  <2>5. Fine(db', worker)
    BY <1>1, <2>2, <2>4, GuiStep
  <2> QED
    BY <2>3, <2>4, <2>5, RequestFacts DEF IndexInv
<1>3. CASE \E r \in Roots : Remove(r)
  <2>1. PICK r \in Roots : Remove(r)
    BY <1>3
  <2>2. Fine([db EXCEPT ![r] = NoFavourite], worker)
    BY <1>1, NoFavouriteFacts, GuiStep
  <2>3. /\ db' = [db EXCEPT ![r] = NoFavourite] /\ job' = job
        /\ worker' = worker \/ worker' = [worker EXCEPT !.now = FALSE]
    BY <2>1 DEF Remove, Put
  <2> QED
    BY <1>1, <2>2, <2>3, MarkedWorker DEF IndexInv
<1>4. CASE \E r \in Roots : Refresh(r)
  <2>1. PICK r \in Roots : Request(Job({r}, FALSE, FALSE, TRUE)) /\ db' = db
    BY <1>4 DEF Refresh
  <2> QED
    BY <1>1, <2>1, JobsTyped, RequestFacts DEF IndexInv
<1>5. CASE \E r \in Roots : Pause(r)
  <2>1. PICK r \in Roots : Pause(r)
    BY <1>5
  <2>2. /\ db' = [db EXCEPT ![r] = Paused(db[r])] /\ worker' = worker /\ job' = job
        /\ Known(db[r])
    BY <2>1 DEF Pause, Put, Known
  <2>3. Fine(db', worker)
    BY <1>1, <2>2, PausedFacts, GuiStep
  <2> QED
    BY <1>1, <2>2, <2>3 DEF IndexInv
<1>6. CASE \E r \in Roots : Resume(r)
  <2>1. PICK r \in Roots : Resume(r)
    BY <1>6
  <2>2. /\ db' = [db EXCEPT ![r] = Resumed(db[r])]
        /\ Request(Job({r}, FALSE, FALSE, TRUE))
    BY <2>1 DEF Resume, Put
  <2>3. Fine(db', worker)
    BY <1>1, <2>2, ResumedFacts, GuiStep
  <2> QED
    BY <1>1, <2>2, <2>3, JobsTyped, RequestFacts DEF IndexInv
<1>7. CASE \E r \in Roots, scope \in Scopes : Rescope(r, scope)
  <2>1. PICK r \in Roots, scope \in Scopes : Rescope(r, scope)
    BY <1>7
  <2> DEFINE j == IF scope = "EXCLUDED" THEN NoJob ELSE Job({r}, FALSE, FALSE, TRUE)
  <2>2. /\ db' = [db EXCEPT ![r] = Rescoped(db[r], scope)] /\ Request(j)
    BY <2>1 DEF Rescope, Put
  <2>3. JobTyped(j)
    BY JobsTyped
  <2> HIDE DEF j
  <2>4. Fine(db', worker)
    BY <1>1, <2>2, RescopedFacts, GuiStep
  <2> QED
    BY <1>1, <2>2, <2>3, <2>4, RequestFacts DEF IndexInv
<1>8. CASE \E r \in Roots, f \in Folders : OpenResult(r, f)
  <2>1. PICK r \in Roots, f \in Folders : OpenResult(r, f)
    BY <1>8
  <2>2. /\ db' = [db EXCEPT ![r] = Missing(db[r], f)] /\ worker' = worker /\ job' = job
        /\ f \in Hits(db[r])
    BY <2>1 DEF OpenResult, Put
  <2>3. Known(db[r])
    BY <1>1, <2>2, NoFavouriteFacts DEF Sound, Hits
  <2>4. Fine(db', worker)
    BY <1>1, <2>2, <2>3, MissingFacts, GuiStep
  <2> QED
    BY <1>1, <2>2, <2>4 DEF IndexInv
<1>9. CASE \E S \in {{r} : r \in Favourites} \cup {Favourites} : Refull(S)
  <2>1. PICK S \in SUBSET Roots : Request(Job(S, TRUE, FALSE, FALSE)) /\ db' = db
    BY <1>9 DEF Refull, Favourites
  <2> QED
    BY <1>1, <2>1, JobsTyped, RequestFacts DEF IndexInv
<1>10. CASE \E i \in DOMAIN order, op \in {"up", "down", "top", "bottom"} :
             MoveFavourite(i, op)
  BY <1>1, <1>10 DEF MoveFavourite, IndexInv
<1>11. CASE PauseAll
  <2> DEFINE P == {r \in Roots : db[r].status = "INDEXING"}
  <2>1. /\ db' = [r \in Roots |-> IF r \in P THEN Paused(db[r]) ELSE db[r]]
        /\ worker' = worker /\ job' = job
    BY <1>11 DEF PauseAll
  <2>2. \A r \in Roots : RootFine(worker, r, db'[r])
    <3> SUFFICES ASSUME NEW r \in Roots PROVE RootFine(worker, r, db'[r])
      OBVIOUS
    <3>1. RootFine(worker, r, db[r])
      BY <1>1 DEF Fine
    <3>2. CASE r \in P
      <4>1. Known(db[r]) /\ db'[r] = Paused(db[r])
        BY <2>1, <3>2 DEF Known
      <4> QED
        BY <1>1, <3>1, <4>1, PausedFacts DEF RootFine
    <3>3. CASE r \notin P
      BY <2>1, <3>1, <3>3
    <3> QED
      BY <3>2, <3>3
  <2>3. db' = [r \in Roots |-> db'[r]]
    BY <2>1
  <2> QED
    BY <1>1, <2>1, <2>2, <2>3 DEF IndexInv, Fine
<1>12. CASE Close
  <2>1. /\ db' = db /\ job' = NoJob
        /\ worker' = worker \/ worker' = [worker EXCEPT !.cancelled = TRUE]
    BY <1>12 DEF Close
  <2>2. JobTyped(job')
    BY <2>1, JobsTyped
  <2> QED
    BY <1>1, <2>1, <2>2, MarkedWorker DEF IndexInv
<1> QED
  BY <1>2, <1>3, <1>4, <1>5, <1>6, <1>7, <1>8, <1>9, <1>10, <1>11, <1>12 DEF User

\* The event loop, the end of the process and the disk keep the invariant.
LEMMA LoopFine ==
  IndexInv /\ (Cancel \/ Periodic \/ ThreadFinished \/ Restart \/ Disk) => IndexInv'
<1> SUFFICES ASSUME IndexInv, Cancel \/ Periodic \/ ThreadFinished \/ Restart \/ Disk
             PROVE  IndexInv'
  OBVIOUS
<1>1. Fine(db, worker) /\ JobTyped(job)
  BY DEF IndexInv
<1>2. CASE Cancel
  <2>1. /\ db' = db /\ job' \in {job, NoJob}
        /\ worker' = worker \/ worker' = [worker EXCEPT !.cancelled = TRUE]
    BY <1>2 DEF Cancel
  <2>2. JobTyped(job')
    BY <1>1, <2>1, JobsTyped
  <2> QED
    BY <1>1, <2>1, <2>2, MarkedWorker DEF IndexInv
<1>3. CASE Periodic
  <2>1. Request(Job(Favourites, FALSE, TRUE, FALSE)) /\ db' = db
    BY <1>3 DEF Periodic
  <2>2. Favourites \in SUBSET Roots
    BY DEF Favourites
  <2> QED
    BY <1>1, <2>1, <2>2, JobsTyped, RequestFacts DEF IndexInv
<1>4. CASE ThreadFinished
  <2>1. /\ worker.at \in Outside /\ worker' \in {NewWorker(job), NoWorker}
        /\ db' = db /\ job' = NoJob
    BY <1>4 DEF ThreadFinished, Outside
  <2>2. Fine(db', worker')
    BY <1>1, <2>1, FreshWorkers, IdleWorker
  <2>3. JobTyped(job')
    BY <2>1, JobsTyped
  <2> QED
    BY <2>2, <2>3 DEF IndexInv
<1>5. CASE Restart
  <2> DEFINE j == Job(Resumable, FALSE, FALSE, TRUE)
  <2>1. /\ db' = [r \in Roots |-> Recovered(db[r])] /\ job' = NoJob
        /\ worker' \in {NoWorker, NewWorker(j)}
    BY <1>5 DEF Restart
  <2>2. Resumable \in SUBSET Roots
    BY DEF Resumable
  <2>3. JobTyped(j) /\ JobTyped(job')
    BY <2>1, <2>2, JobsTyped
  <2> HIDE DEF j
  <2>4. Standing(worker') /\ worker'.at \in Outside
    BY <2>1, <2>3, FreshWorkers
  <2>5. ~Loose(worker') /\ Held(worker') = {} /\ worker'.at \notin Scanning
    BY <2>4 DEF Outside, Loose, Held, Scanning
  <2>6. \A r \in Roots : RootFine(worker', r, db'[r])
    <3> SUFFICES ASSUME NEW r \in Roots PROVE RootFine(worker', r, db'[r])
      OBVIOUS
    <3>1. Sound(db[r])
      BY <1>1 DEF Fine, RootFine
    <3>2. Sound(db'[r]) /\ Agree(db'[r]) /\ Processing(db'[r]) = {}
      BY <2>1, <3>1, RecoveredFacts
    <3> QED
      BY <2>5, <3>2 DEF RootFine
  <2>7. db' = [r \in Roots |-> db'[r]]
    BY <2>1
  <2> QED
    BY <2>3, <2>4, <2>6, <2>7 DEF IndexInv, Fine
<1>6. CASE Disk
  <2>1. UNCHANGED <<db, worker, job>>
    BY <1>6 DEF Disk, Reconnect, MakeFolder, RemoveFolder, Edited
  <2> QED
    BY <1>1, <2>1 DEF IndexInv
<1> QED
  BY <1>2, <1>3, <1>4, <1>5, <1>6

-----------------------------------------------------------------------------
(* The steps of the worker. *)

\* A step of the worker touches no root but its own.
LEMMA WorkerStep ==
  ASSUME NEW d, NEW w, Fine(d, w), w.root \in Roots,
         NEW v, Standing(v), v.root = w.root,
         NEW e, e = d \/ (\E t : e = [d EXCEPT ![w.root] = t]),
         RootFine(v, w.root, e[w.root])
  PROVE  Fine(e, v)
<1>1. (\A x \in Roots \ {w.root} : e[x] = d[x]) /\ e = [x \in Roots |-> e[x]]
  BY DEF Fine
<1>2. \A x \in Roots : RootFine(w, x, d[x])
  BY DEF Fine
<1>3. \A x \in Roots \ {w.root} : RootFine(v, x, e[x])
  BY <1>1, <1>2 DEF RootFine
<1> QED
  BY <1>1, <1>3 DEF Fine

\* The worker in another place, with the rest of it unchanged.
LEMMA GoneWorker ==
  ASSUME NEW w, Standing(w), NEW at \in Stations,
         NEW v, v = [w EXCEPT !.at = at],
         at \notin Outside => w.root \in Roots,
         at \in {"lookIncremental", "writeIncremental"} => w.then # "open"
  PROVE  /\ Standing(v) /\ v.at = at /\ v.then = w.then /\ v.root = w.root
         /\ v.batch = w.batch /\ v.good = w.good /\ v.bad = w.bad
<1>1. /\ WorkerTyped(v) /\ v.at = at /\ v.then = w.then /\ v.root = w.root
      /\ v.batch = w.batch /\ v.good = w.good /\ v.bad = w.bad /\ v.job = w.job
  BY DEF Standing, WorkerTyped
<1> QED
  BY <1>1 DEF Standing

LEMMA StepFine ==
  ASSUME IndexInv, worker.at \notin Outside, job' = job,
         NEW u, (db' = db /\ u = rows) \/ Put(root, u),
         Standing(worker'), worker'.root = worker.root, RootFine(worker', root, u)
  PROVE  IndexInv'
<1>1. Fine(db, worker) /\ worker.root \in Roots
  BY DEF IndexInv, Fine, Standing
<1>2. /\ db' = db \/ \E t : db' = [db EXCEPT ![worker.root] = t]
      /\ db'[worker.root] = u
  BY <1>1 DEF Put, Fine, root, rows
<1>3. RootFine(worker', worker.root, db'[worker.root])
  BY <1>2 DEF root
<1>4. Fine(db', worker')
  BY <1>1, <1>2, <1>3, WorkerStep
<1> QED
  BY <1>4 DEF IndexInv

\* What is known of the root of a worker that is at work.
LEMMA AtWork ==
  ASSUME IndexInv, worker.at \notin Outside
  PROVE  /\ Standing(worker) /\ worker.root \in Roots /\ root = worker.root
         /\ Sound(rows) /\ Processing(rows) \subseteq Held(worker)
         /\ worker.at \in Scanning => rows.status # "READY"
         /\ Loose(worker) \/ Agree(rows)
         /\ ~Known(rows) => rows = NoFavourite /\ Agree(rows) /\ Processing(rows) = {}
<1>1. Fine(db, worker) /\ worker.root \in Roots /\ Standing(worker)
  BY DEF IndexInv, Fine, Standing
<1>2. RootFine(worker, worker.root, rows)
  BY <1>1 DEF Fine, rows, root
<1>3. ~Known(rows) => rows = NoFavourite /\ Agree(rows) /\ Processing(rows) = {}
  BY <1>2, NoFavouriteFacts DEF RootFine, Sound
<1> QED
  BY <1>1, <1>2, <1>3 DEF RootFine, root

\* The worker goes from a place where it holds nothing to another such place.
LEMMA FreeHanded ==
  ASSUME NEW v, v.at \notin {"inspect", "commit"}, v.root = root,
         NEW u, Sound(u), Processing(u) = {}, Loose(v) \/ Agree(u),
         v.at \in Scanning => u.status # "READY"
  PROVE  RootFine(v, root, u)
BY DEF RootFine, Held

\* The preparation of a generation keeps the invariant.
LEMMA PrepareFine == IndexInv /\ Prepare => IndexInv'
<1> SUFFICES ASSUME IndexInv, Prepare PROVE IndexInv'
  OBVIOUS
<1>1. Fine(db, worker) /\ JobTyped(job) /\ Standing(worker)
  BY DEF IndexInv, Fine
<1>2. CASE NextRoot
  <2>1. worker.at = "next" /\ db' = db /\ job' = job
    BY <1>2 DEF NextRoot, Step, Unseen
  <2>2. CASE worker' = [worker EXCEPT !.at = "ended"]
    <3>1. Standing(worker') /\ worker'.at \in Outside
      BY <1>1, <2>2, GoneWorker DEF Stations, Outside
    <3> QED
      BY <1>1, <2>1, <3>1, IdleWorker DEF IndexInv, Outside
  <2>3. ASSUME NEW r \in worker.job.roots,
               worker' = [worker EXCEPT !.root = r, !.job.roots = @ \ {r}, !.processed = 0,
                                        !.at = IF worker.job.full THEN "lookFull" ELSE "open",
                                        !.then = "open", !.now = TRUE, !.seen = NoSight]
        PROVE  IndexInv'
    <3> DEFINE at == IF worker.job.full THEN "lookFull" ELSE "open"
               j == [worker.job EXCEPT !.roots = @ \ {r}]
    <3>1. r \in Roots /\ JobTyped(j)
      BY <1>1 DEF Standing, JobTyped
    <3>2. worker' = [worker EXCEPT !.root = r, !.job = j, !.processed = 0, !.at = at,
                                   !.then = "open", !.now = TRUE, !.seen = NoSight]
      BY <1>1, <2>3 DEF Standing, WorkerTyped
    <3>3. at \in {"lookFull", "open"}
      OBVIOUS
    <3> HIDE DEF at, j
    <3>4. /\ WorkerTyped(worker') /\ worker'.at = at /\ worker'.root = r /\ worker'.job = j
          /\ worker'.then = "open"
      BY <1>1, <3>1, <3>2, <3>3, ZenonT(60) DEF Standing, WorkerTyped, Stations
    <3>5. Standing(worker')
      BY <3>1, <3>3, <3>4 DEF Standing
    <3>6. ~Loose(worker') /\ Held(worker') = {} /\ worker'.at \notin Scanning
      BY <3>3, <3>4 DEF Loose, Held, Scanning
    <3>7. \A x \in Roots : RootFine(worker', x, db[x])
      <4> SUFFICES ASSUME NEW x \in Roots PROVE RootFine(worker', x, db[x])
        OBVIOUS
      <4>1. ~Loose(worker) /\ Held(worker) = {}
        BY <2>1 DEF Loose, Held, Scanning
      <4>2. Sound(db[x]) /\ Processing(db[x]) = {} /\ Agree(db[x])
        BY <1>1, <4>1 DEF Fine, RootFine
      <4> QED
        BY <3>6, <4>2 DEF RootFine
    <3> QED
      BY <1>1, <2>1, <3>5, <3>7 DEF IndexInv, Fine
  <2> QED
    BY <1>2, <2>2, <2>3 DEF NextRoot, Go
<1>3. CASE LookFull
  <2>1. worker.at = "lookFull" /\ worker.at \notin Outside /\ job' = job
    BY <1>3 DEF LookFull, Step, Unseen, Outside
  <2>2. /\ worker.root \in Roots /\ root = worker.root
        /\ Sound(rows) /\ Processing(rows) = {} /\ (worker.then = "open" => Agree(rows))
    BY <2>1, AtWork DEF Held, Loose, Scanning
  <2>3. /\ worker' = [worker EXCEPT !.at = worker.then] \/
           worker' = [worker EXCEPT !.at = "writeFull"]
        /\ db' = db \/ (Known(rows) /\ Put(root, Connected(rows, link[root])))
    BY <1>3 DEF LookFull, Go
  <2>4. worker.then \in Stations \ {"lookIncremental", "writeIncremental"} /\ worker.then \notin Scanning
    BY <1>1 DEF Standing, WorkerTyped, Stations, Scanning
  <2>5. /\ Standing(worker') /\ worker'.root = worker.root
        /\ worker'.at \in {worker.then, "writeFull"} /\ worker'.then = worker.then
    BY <1>1, <2>2, <2>3, <2>4, GoneWorker DEF Stations
  <2>6. worker'.at \in {"open", "choose", "mark", "writeFull"}
    BY <1>1, <2>5 DEF Standing, WorkerTyped
  <2>7. Loose(worker') \/ (worker.then = "open")
    BY <1>1, <2>5, <2>6 DEF Standing, WorkerTyped, Loose
  <2>8. ASSUME NEW u, Sound(u), Processing(u) = {}, Agree(rows) => Agree(u)
        PROVE  RootFine(worker', root, u)
    BY <2>2, <2>5, <2>6, <2>7, <2>8, FreeHanded DEF Scanning
  <2>9. CASE db' = db
    BY <2>1, <2>2, <2>5, <2>8, <2>9, StepFine
  <2>10. CASE Known(rows) /\ Put(root, Connected(rows, link[root]))
    BY <2>1, <2>2, <2>5, <2>8, <2>10, ConnectedFacts, StepFine
  <2> QED
    BY <2>3, <2>9, <2>10
<1>4. CASE WriteFull
  <2>1. worker.at = "writeFull" /\ worker.at \notin Outside /\ job' = job
    BY <1>4 DEF WriteFull, Step, Unseen, Outside
  <2>2. /\ worker.root \in Roots /\ root = worker.root
        /\ Sound(rows) /\ Processing(rows) = {} /\ (worker.then = "open" => Agree(rows))
        /\ ~Known(rows) => Agree(rows)
    BY <2>1, AtWork DEF Held, Loose, Scanning
  <2>3. CASE ~Known(rows)
    <3>1. worker' = [worker EXCEPT !.at = "ended"] /\ db' = db
      BY <1>4, <2>3 DEF WriteFull, Fail, Go
    <3>2. Standing(worker') /\ worker'.at = "ended" /\ worker'.root = worker.root
      BY <1>1, <3>1, GoneWorker DEF Stations, Outside
    <3>3. RootFine(worker', root, rows)
      BY <2>2, <2>3, <3>2, FreeHanded DEF Scanning
    <3> QED
      BY <2>1, <3>1, <3>2, <3>3, StepFine
  <2>4. CASE Known(rows)
    <3>1. worker' = [worker EXCEPT !.at = worker.then] /\ Put(root, PreparedFull(rows))
      BY <1>4, <2>4 DEF WriteFull, Go
    <3>2. worker.then \in {"open", "choose", "mark"} /\ worker.then \in Stations
      BY <1>1 DEF Standing, WorkerTyped, Stations
    <3>3. Standing(worker') /\ worker'.at = worker.then /\ worker'.root = worker.root
      BY <1>1, <2>2, <3>1, <3>2, GoneWorker
    <3>4. Loose(worker') \/ worker.then = "open"
      BY <3>2, <3>3 DEF Loose
    <3>5. RootFine(worker', root, PreparedFull(rows))
      BY <2>2, <3>2, <3>3, <3>4, PreparedFullFacts, FreeHanded
    <3> QED
      BY <2>1, <3>1, <3>3, <3>5, StepFine
  <2> QED
    BY <2>3, <2>4
<1>5. CASE LookIncremental
  <2>1. worker.at = "lookIncremental" /\ worker.at \notin Outside /\ job' = job
    BY <1>5 DEF LookIncremental, Step, Unseen, Outside
  <2>2. /\ worker.root \in Roots /\ root = worker.root
        /\ Sound(rows) /\ Processing(rows) = {} /\ worker.then \in {"choose", "mark"}
    BY <1>1, <2>1, AtWork DEF Held, Standing, WorkerTyped
  <2>3. /\ \/ worker' = [worker EXCEPT !.at = worker.then]
           \/ worker' = [worker EXCEPT !.at = "lookFull"]
           \/ worker' = [worker EXCEPT !.at = "writeIncremental",
                                       !.seen.cached = Cardinality(DOMAIN rows.index)]
        /\ db' = db \/ (Known(rows) /\ Put(root, Connected(rows, FALSE)))
    BY <1>5 DEF LookIncremental, Go
  <2>4. /\ Standing(worker') /\ worker'.root = worker.root /\ worker'.then = worker.then
        /\ worker'.at \in {"choose", "mark", "lookFull", "writeIncremental"}
    <3>1. CASE worker' = [worker EXCEPT !.at = worker.then]
      BY <1>1, <2>2, <3>1, GoneWorker DEF Stations
    <3>2. CASE worker' = [worker EXCEPT !.at = "lookFull"]
      BY <1>1, <2>2, <3>2, GoneWorker DEF Stations
    <3>3. CASE worker' = [worker EXCEPT !.at = "writeIncremental",
                                        !.seen.cached = Cardinality(DOMAIN rows.index)]
      <4>1. /\ WorkerTyped(worker') /\ worker'.at = "writeIncremental"
            /\ worker'.root = worker.root /\ worker'.then = worker.then
            /\ worker'.job = worker.job
        BY <1>1, <3>3 DEF Standing, WorkerTyped, Stations
      <4> QED
        BY <1>1, <2>2, <4>1 DEF Standing
    <3> QED
      BY <2>3, <3>1, <3>2, <3>3
  <2>5. Loose(worker')
    BY <2>2, <2>4 DEF Loose
  <2>6. ASSUME NEW u, Sound(u), Processing(u) = {} PROVE RootFine(worker', root, u)
    BY <2>2, <2>4, <2>5, <2>6, FreeHanded DEF Scanning
  <2>7. CASE db' = db
    BY <2>1, <2>2, <2>4, <2>6, <2>7, StepFine
  <2>8. CASE Known(rows) /\ Put(root, Connected(rows, FALSE))
    BY <2>1, <2>2, <2>4, <2>6, <2>8, ConnectedFacts, StepFine
  <2> QED
    BY <2>3, <2>7, <2>8
<1>6. CASE WriteIncremental
  <2>1. worker.at = "writeIncremental" /\ worker.at \notin Outside /\ job' = job
    BY <1>6 DEF WriteIncremental, Step, Unseen, Outside
  <2>2. /\ worker.root \in Roots /\ root = worker.root
        /\ Sound(rows) /\ Processing(rows) = {} /\ worker.then \in {"choose", "mark"}
    BY <1>1, <2>1, AtWork DEF Held, Standing, WorkerTyped
  <2>3. /\ worker' = [worker EXCEPT !.at = worker.then]
        /\ db' = db \/ Put(root, PreparedIncremental(rows, worker.seen.cached))
    BY <1>6 DEF WriteIncremental, Go
  <2>4. Standing(worker') /\ worker'.root = worker.root /\ worker'.at = worker.then
    BY <1>1, <2>2, <2>3, GoneWorker DEF Stations
  <2>5. ASSUME NEW u, Sound(u), Processing(u) = {} PROVE RootFine(worker', root, u)
    BY <2>2, <2>4, <2>5, FreeHanded DEF Scanning, Loose
  <2>6. CASE db' = db
    BY <2>1, <2>2, <2>4, <2>5, <2>6, StepFine
  <2>7. CASE Put(root, PreparedIncremental(rows, worker.seen.cached))
    BY <2>1, <2>2, <2>4, <2>5, <2>7, PreparedIncrementalFacts, StepFine
  <2> QED
    BY <2>3, <2>6, <2>7
<1>7. CASE OpenScan
  <2>1. worker.at = "open" /\ worker.at \notin Outside /\ job' = job
    BY <1>7 DEF OpenScan, Step, Unseen, Outside
  <2>2. /\ worker.root \in Roots /\ root = worker.root
        /\ Sound(rows) /\ Processing(rows) = {} /\ Agree(rows)
    BY <2>1, AtWork DEF Held, Loose, Scanning
  <2>3. /\ \/ worker' = [worker EXCEPT !.at = "next"]
           \/ worker' = [worker EXCEPT !.at = "plan", !.seen = Sight(rows, 0)]
        /\ db' = db \/ (Known(rows) /\ Put(root, Connected(rows, FALSE)))
    BY <1>7 DEF OpenScan, Go
  <2>4. /\ Standing(worker') /\ worker'.root = worker.root
        /\ worker'.at \in {"next", "plan"}
    <3>1. CASE worker' = [worker EXCEPT !.at = "next"]
      BY <1>1, <2>2, <3>1, GoneWorker DEF Stations
    <3>2. CASE worker' = [worker EXCEPT !.at = "plan", !.seen = Sight(rows, 0)]
      <4>1. /\ WorkerTyped(worker') /\ worker'.at = "plan"
            /\ worker'.root = worker.root /\ worker'.job = worker.job
        BY <1>1, <3>2 DEF Standing, WorkerTyped, Stations
      <4> QED
        BY <1>1, <2>2, <4>1 DEF Standing
    <3> QED
      BY <2>3, <3>1, <3>2
  <2>5. ASSUME NEW u, Sound(u), Processing(u) = {}, Agree(u) PROVE RootFine(worker', root, u)
    BY <2>2, <2>4, <2>5, FreeHanded DEF Scanning
  <2>6. CASE db' = db
    BY <2>1, <2>2, <2>4, <2>5, <2>6, StepFine
  <2>7. CASE Known(rows) /\ Put(root, Connected(rows, FALSE))
    BY <2>1, <2>2, <2>4, <2>5, <2>7, ConnectedFacts, StepFine
  <2> QED
    BY <2>3, <2>6, <2>7
<1> QED
  BY <1>2, <1>3, <1>4, <1>5, <1>6, <1>7 DEF Prepare

\* Reading one folder passes it from the batch to what is to be written.
LEMMA InspectedFine ==
  ASSUME IndexInv, worker.at = "inspect", UNCHANGED <<db, job>>,
         NEW b \in worker.batch, NEW good, NEW bad,
         worker.good \subseteq good, worker.bad \subseteq bad,
         Known(rows) => b.folder \in FoldersOf(good) \cup bad,
         Inspected(b, good, bad)
  PROVE  IndexInv'
<1>1. Standing(worker) /\ worker.at \notin Outside
  BY DEF IndexInv, Fine, Outside
<1>2. /\ worker.root \in Roots /\ root = worker.root
      /\ Sound(rows) /\ Processing(rows) \subseteq Held(worker) /\ rows.status # "READY"
      /\ ~Known(rows) => Processing(rows) = {}
  BY <1>1, AtWork DEF Scanning
<1> DEFINE at == IF worker.batch = {b} THEN "commit" ELSE "inspect"
<1>3. at \in {"inspect", "commit"} /\ at \in Scanning /\ at \in Stations
  BY DEF Scanning, Stations
<1>4. worker' = [worker EXCEPT !.batch = @ \ {b}, !.good = good, !.bad = bad,
                               !.processed = @ + 1, !.at = at]
  BY DEF Inspected
<1> HIDE DEF at
<1>5. /\ WorkerTyped(worker') /\ worker'.at = at /\ worker'.root = worker.root
      /\ worker'.job = worker.job /\ worker'.batch = worker.batch \ {b}
      /\ worker'.good = good /\ worker'.bad = bad
  BY <1>1, <1>3, <1>4 DEF Standing, WorkerTyped
<1>6. Standing(worker')
  BY <1>1, <1>2, <1>3, <1>5 DEF Standing
<1>7. Processing(rows) \subseteq Held(worker')
  <2>1. CASE Known(rows)
    <3>1. Held(worker) \subseteq {c.folder : c \in worker.batch} \cup FoldersOf(good) \cup bad
      BY DEF Held, FoldersOf
    <3>2. Held(worker') = {c.folder : c \in worker.batch \ {b}} \cup FoldersOf(good) \cup bad
      <4>1. CASE worker.batch = {b}
        <5>1. worker'.at = "commit" /\ {c.folder : c \in worker.batch \ {b}} = {}
          BY <1>5, <4>1 DEF at
        <5> QED
          BY <1>5, <5>1 DEF Held
      <4>2. CASE worker.batch # {b}
        BY <1>5, <4>2 DEF at, Held
      <4> QED
        BY <4>1, <4>2
    <3> QED
      BY <1>2, <2>1, <3>1, <3>2
  <2>2. CASE ~Known(rows)
    BY <1>2, <2>2
  <2> QED
    BY <2>1, <2>2
<1>8. Loose(worker')
  BY <1>3, <1>5 DEF Loose
<1>9. RootFine(worker', root, rows)
  BY <1>2, <1>5, <1>7, <1>8 DEF RootFine
<1> QED
  BY <1>1, <1>5, <1>6, <1>9, StepFine

\* A scan keeps the invariant.
LEMMA ScanFine == IndexInv /\ (Scan \/ InspectError) => IndexInv'
<1> SUFFICES ASSUME IndexInv, Scan \/ InspectError PROVE IndexInv'
  OBVIOUS
<1>1. Fine(db, worker) /\ JobTyped(job) /\ Standing(worker)
  BY DEF IndexInv, Fine
<1>2. CASE Plan
  <2>1. worker.at = "plan" /\ worker.at \notin Outside /\ job' = job
    BY <1>2 DEF Plan, Step, Unseen, Outside
  <2>2. /\ worker.root \in Roots /\ root = worker.root /\ Sound(rows) /\ Processing(rows) = {}
    BY <2>1, AtWork DEF Held
  <2>3. ASSUME NEW u, Sound(u), Processing(u) = {}, Standing(worker'), worker'.root = root,
               worker'.at \in {"choose", "lookIncremental", "lookFull"}, Loose(worker')
        PROVE  RootFine(worker', root, u)
    BY <2>3, FreeHanded DEF Scanning
  <2>4. CASE worker.job.retry
    <3> DEFINE t == IF Known(rows) THEN Retried(rows) ELSE rows
    <3>1. PICK x : Put(root, t) /\ worker' = [worker EXCEPT !.at = "choose", !.seen = x]
      BY <1>2, <2>4 DEF Plan
    <3>2. /\ WorkerTyped(worker') /\ worker'.at = "choose"
          /\ worker'.root = worker.root /\ worker'.job = worker.job
      BY <1>1, <3>1 DEF Standing, WorkerTyped, Stations
    <3>3. Standing(worker') /\ Loose(worker')
      BY <1>1, <2>2, <3>2 DEF Standing, Loose
    <3>4. Sound(t) /\ Processing(t) = {}
      BY <2>2, RetriedFacts
    <3> HIDE DEF t
    <3> QED
      BY <2>1, <2>2, <2>3, <3>1, <3>2, <3>3, <3>4, StepFine
  <2>5. CASE ~worker.job.retry
    <3>1. db' = db
      BY <1>2, <2>5 DEF Plan
    <3>2. /\ Standing(worker') /\ worker'.root = worker.root /\ Loose(worker')
          /\ worker'.at \in {"choose", "lookIncremental", "lookFull"}
      <4>1. CASE worker' = [worker EXCEPT !.at = "choose"]
        BY <1>1, <2>2, <4>1, GoneWorker DEF Stations, Loose
      <4>2. ASSUME NEW at \in {"lookIncremental", "lookFull"},
                   worker' = [worker EXCEPT !.at = at, !.then = "choose"]
            PROVE  /\ Standing(worker') /\ worker'.root = worker.root /\ Loose(worker')
                   /\ worker'.at = at
        <5>1. at \in Stations
          BY DEF Stations
        <5>2. /\ WorkerTyped(worker') /\ worker'.root = worker.root /\ worker'.job = worker.job
              /\ worker'.at = at /\ worker'.then = "choose"
          BY <1>1, <4>2, <5>1 DEF Standing, WorkerTyped
        <5> QED
          BY <1>1, <2>2, <5>2 DEF Standing, Loose
      <4> QED
        BY <1>2, <2>5, <4>1, <4>2 DEF Plan, Call, Go
    <3> QED
      BY <2>1, <2>2, <2>3, <3>1, <3>2, StepFine
  <2> QED
    BY <2>4, <2>5
<1>3. CASE Choose
  <2>1. worker.at = "choose" /\ worker.at \notin Outside /\ job' = job /\ db' = db
    BY <1>3 DEF Choose, Step, Unseen, Outside
  <2>2. /\ worker.root \in Roots /\ root = worker.root /\ Sound(rows) /\ Processing(rows) = {}
    BY <2>1, AtWork DEF Held
  <2>3. /\ Standing(worker') /\ worker'.root = worker.root /\ Loose(worker')
        /\ worker'.at \in {"mark", "lookIncremental", "lookFull"}
    <3>1. CASE worker' = [worker EXCEPT !.at = "mark"]
      BY <1>1, <2>2, <3>1, GoneWorker DEF Stations, Loose
    <3>2. ASSUME NEW at \in {"lookIncremental", "lookFull"},
                 worker' = [worker EXCEPT !.at = at, !.then = "mark"]
          PROVE  /\ Standing(worker') /\ worker'.root = worker.root /\ Loose(worker')
                 /\ worker'.at = at
      <4>1. at \in Stations
        BY DEF Stations
      <4>2. /\ WorkerTyped(worker') /\ worker'.root = worker.root /\ worker'.job = worker.job
            /\ worker'.at = at /\ worker'.then = "mark"
        BY <1>1, <3>2, <4>1 DEF Standing, WorkerTyped
      <4> QED
        BY <1>1, <2>2, <4>2 DEF Standing, Loose
    <3> QED
      BY <1>3, <3>1, <3>2 DEF Choose, Call, Go
  <2>4. RootFine(worker', root, rows)
    BY <2>2, <2>3, FreeHanded DEF Scanning
  <2> QED
    BY <2>1, <2>3, <2>4, StepFine
<1>4. CASE Mark
  <2>1. worker.at = "mark" /\ worker.at \notin Outside /\ job' = job
    BY <1>4 DEF Mark, Step, Unseen, Outside
  <2>2. /\ worker.root \in Roots /\ root = worker.root /\ Sound(rows) /\ Processing(rows) = {}
        /\ ~Known(rows) => rows.status # "READY"
    BY <2>1, AtWork DEF Held, Known
  <2>3. worker' = [worker EXCEPT !.at = "claim"]
    BY <1>4 DEF Mark, Go
  <2>4. Standing(worker') /\ worker'.root = worker.root /\ worker'.at = "claim" /\ Loose(worker')
    BY <1>1, <2>2, <2>3, GoneWorker DEF Stations, Loose, Scanning
  <2>5. CASE Known(rows)
    BY <1>4, <2>1, <2>2, <2>4, <2>5, StartedFacts, FreeHanded, StepFine DEF Mark
  <2>6. CASE ~Known(rows)
    BY <1>4, <2>1, <2>2, <2>4, <2>6, FreeHanded, StepFine DEF Mark
  <2> QED
    BY <2>5, <2>6
<1>5. CASE Claim
  <2>1. worker.at = "claim" /\ worker.at \notin Outside /\ job' = job
    BY <1>5 DEF Claim, Step, Unseen, Outside
  <2>2. /\ worker.root \in Roots /\ root = worker.root /\ Sound(rows) /\ Processing(rows) = {}
        /\ rows.status # "READY" /\ (~Known(rows) => rows = NoFavourite)
    BY <2>1, AtWork DEF Held, Scanning
  <2>3. CASE worker' = [worker EXCEPT !.at = "finalize"] /\ db' = db
    <3>1. /\ Standing(worker') /\ worker'.root = worker.root /\ worker'.at = "finalize"
          /\ Loose(worker')
      BY <1>1, <2>2, <2>3, GoneWorker DEF Stations, Loose, Scanning
    <3> QED
      BY <2>1, <2>2, <2>3, <3>1, FreeHanded, StepFine
  <2>4. CASE worker' = [worker EXCEPT !.at = "next"] /\ Put(root, Interrupted(rows))
    <3>1. Standing(worker') /\ worker'.root = worker.root /\ worker'.at = "next"
      BY <1>1, <2>2, <2>4, GoneWorker DEF Stations, Outside
    <3>2. RootFine(worker', root, Interrupted(rows))
      BY <2>2, <3>1, InterruptedFacts, FreeHanded DEF Scanning
    <3> QED
      BY <2>1, <2>4, <3>1, <3>2, StepFine
  <2>5. ASSUME Claimable(rows) # {}, NEW S \in SUBSET Claimable(rows), Put(root, Claimed(rows, S)),
               worker' = [worker EXCEPT !.at = "inspect", !.now = TRUE, !.good = {}, !.bad = {},
                            !.batch = {[folder |-> f, work |-> rows.queue[f].work] : f \in S}]
        PROVE  IndexInv'
    <3> DEFINE batch == {[folder |-> f, work |-> rows.queue[f].work] : f \in S}
    <3>1. S \subseteq {b.folder : b \in batch}
      <4> SUFFICES ASSUME NEW f \in S PROVE \E b \in batch : b.folder = f
        OBVIOUS
      <4> WITNESS [folder |-> f, work |-> rows.queue[f].work] \in batch
      <4> QED
        OBVIOUS
    <3> HIDE DEF batch
    <3>2. worker' = [worker EXCEPT !.at = "inspect", !.now = TRUE, !.good = {}, !.bad = {},
                                   !.batch = batch]
      BY <2>5 DEF batch
    <3>3. /\ WorkerTyped(worker') /\ worker'.at = "inspect" /\ worker'.root = worker.root
          /\ worker'.job = worker.job /\ worker'.batch = batch
      BY <1>1, <3>2 DEF Standing, WorkerTyped, Stations, Scanning
    <3>4. Standing(worker') /\ Loose(worker') /\ S \subseteq Held(worker')
      BY <1>1, <2>2, <3>1, <3>3 DEF Standing, Loose, Scanning, Held
    <3>5. Known(rows)
      BY <2>2, <2>5, NoFavouriteFacts DEF Claimable
    <3>6. /\ Sound(Claimed(rows, S)) /\ Processing(Claimed(rows, S)) \subseteq S
          /\ Claimed(rows, S).status # "READY"
      BY <2>2, <3>5, ClaimedFacts
    <3>7. RootFine(worker', root, Claimed(rows, S))
      BY <2>2, <3>3, <3>4, <3>6 DEF RootFine
    <3> QED
      BY <2>1, <2>5, <3>3, <3>4, <3>7, StepFine
  <2> QED
    BY <1>5, <2>3, <2>4, <2>5 DEF Claim, Go, Batches
<1>6. CASE Inspect /\ worker.cancelled
  <2>1. worker.at = "inspect" /\ worker.at \notin Outside /\ job' = job
    BY <1>6 DEF Inspect, Step, Unseen, Outside
  <2>2. worker.root \in Roots /\ root = worker.root /\ Sound(rows) /\ rows.status # "READY"
    BY <2>1, AtWork DEF Scanning
  <2> DEFINE u == Interrupted(Returned(rows))
  <2>3. /\ worker' = [worker EXCEPT !.at = "next", !.batch = {}, !.good = {}, !.bad = {}]
        /\ Put(root, u)
    BY <1>6 DEF Inspect
  <2>4. Sound(u) /\ Agree(u) /\ Processing(u) = {}
    BY <2>2, ReturnedFacts, InterruptedFacts
  <2> HIDE DEF u
  <2>5. /\ WorkerTyped(worker') /\ worker'.at = "next" /\ worker'.root = worker.root
        /\ worker'.job = worker.job
    BY <1>1, <2>3 DEF Standing, WorkerTyped, Stations
  <2>6. Standing(worker')
    BY <1>1, <2>5 DEF Standing, Outside
  <2>7. RootFine(worker', root, u)
    BY <2>2, <2>4, <2>5, FreeHanded DEF Scanning
  <2> QED
    BY <2>1, <2>3, <2>5, <2>6, <2>7, StepFine
<1>7. CASE Inspect /\ ~worker.cancelled
  <2>1. worker.at = "inspect" /\ UNCHANGED <<db, job>>
    BY <1>7 DEF Inspect, Step, Unseen
  <2>2. PICK b \in worker.batch :
          IF Known(rows) THEN Read(b) ELSE Inspected(b, worker.good, worker.bad)
    BY <1>7 DEF Inspect, NextInBatch
  <2>3. CASE ~Known(rows)
    BY <2>1, <2>2, <2>3, InspectedFine
  <2>4. CASE Known(rows)
    <3>1. PICK good, bad : /\ Inspected(b, good, bad)
                           /\ worker.good \subseteq good /\ worker.bad \subseteq bad
                           /\ b.folder \in FoldersOf(good) \cup bad
      <4> DEFINE x == IF b.work = "VERIFY" THEN Verified(b.folder) ELSE Discovered(b.folder)
                 y == IF b.folder \in DOMAIN rows.index
                      THEN Found(b.folder, FALSE, 0, {}, {b.folder}) ELSE Unchanged(b.folder)
      <4>1. x.folder = b.folder /\ y.folder = b.folder
        BY DEF Verified, Discovered, Unchanged, Found
      <4>2. \/ Inspected(b, worker.good \cup {x}, worker.bad)
            \/ Inspected(b, worker.good, worker.bad \cup {b.folder})
            \/ Inspected(b, worker.good \cup {y}, worker.bad)
        BY <2>2, <2>4, Zenon DEF Read
      <4> HIDE DEF x, y
      <4>3. CASE Inspected(b, worker.good \cup {x}, worker.bad)
        BY <4>1, <4>3 DEF FoldersOf
      <4>4. CASE Inspected(b, worker.good, worker.bad \cup {b.folder})
        BY <4>4
      <4>5. CASE Inspected(b, worker.good \cup {y}, worker.bad)
        BY <4>1, <4>5 DEF FoldersOf
      <4> QED
        BY <4>2, <4>3, <4>4, <4>5
    <3> QED
      BY <2>1, <3>1, InspectedFine
  <2> QED
    BY <2>3, <2>4
<1>8. CASE InspectError
  <2>1. worker.at = "inspect" /\ UNCHANGED <<db, job>>
    BY <1>8 DEF InspectError, Step, Unseen
  <2>2. PICK b \in worker.batch : Inspected(b, worker.good, worker.bad \cup {b.folder})
    BY <1>8 DEF InspectError, NextInBatch
  <2> QED
    BY <2>1, <2>2, InspectedFine
<1>9. CASE Commit
  <2>1. worker.at = "commit" /\ worker.at \notin Outside /\ job' = job
    BY <1>9 DEF Commit, Step, Unseen, Outside
  <2>2. /\ worker.root \in Roots /\ root = worker.root /\ Sound(rows) /\ rows.status # "READY"
        /\ Processing(rows) \subseteq Held(worker) /\ worker.now \in BOOLEAN
        /\ ~Known(rows) => Processing(rows) = {} /\ Agree(rows)
    BY <1>1, <2>1, AtWork DEF Scanning, Standing, WorkerTyped
  <2>3. CASE Known(rows)
    <3> DEFINE u == Committed(rows, worker.good, worker.bad, worker.now)
    <3>1. /\ worker' = [worker EXCEPT !.at = "claim", !.good = {}, !.bad = {}] /\ Put(root, u)
      BY <1>9, <2>3 DEF Commit
    <3>2. /\ Sound(u) /\ Agree(u) /\ u.status # "READY" /\ Processing(u) = {}
      BY <2>1, <2>2, <2>3, CommittedFacts DEF Held
    <3> HIDE DEF u
    <3>3. /\ WorkerTyped(worker') /\ worker'.at = "claim" /\ worker'.root = worker.root
          /\ worker'.job = worker.job
      BY <1>1, <3>1 DEF Standing, WorkerTyped, Stations, Scanning
    <3>4. Standing(worker')
      BY <1>1, <2>2, <3>3 DEF Standing
    <3>5. RootFine(worker', root, u)
      BY <2>2, <3>2, <3>3, FreeHanded
    <3> QED
      BY <2>1, <3>1, <3>3, <3>4, <3>5, StepFine
  <2>4. CASE ~Known(rows)
    <3>1. /\ db' = db
          /\ \E at \in {"ended", "claim"} : worker' = [worker EXCEPT !.at = at]
      BY <1>9, <2>4 DEF Commit, Fail, Go
    <3>2. PICK at \in {"ended", "claim"} : worker' = [worker EXCEPT !.at = at]
      BY <3>1
    <3>3. Standing(worker') /\ worker'.root = worker.root /\ worker'.at = at
      BY <1>1, <2>2, <3>2, GoneWorker DEF Stations, Scanning
    <3>4. RootFine(worker', root, rows)
      BY <2>2, <2>4, <3>3, FreeHanded
    <3> QED
      BY <2>1, <3>1, <3>3, <3>4, StepFine
  <2> QED
    BY <2>3, <2>4
<1>10. CASE Finalize
  <2>1. worker.at = "finalize" /\ worker.at \notin Outside /\ job' = job
    BY <1>10 DEF Finalize, Step, Unseen, Outside
  <2>2. /\ worker.root \in Roots /\ root = worker.root /\ Sound(rows) /\ Processing(rows) = {}
        /\ ~Known(rows) => Agree(rows)
    BY <2>1, AtWork DEF Held
  <2>3. worker' = [worker EXCEPT !.at = "next"]
    BY <1>10 DEF Finalize, Go
  <2>4. Standing(worker') /\ worker'.root = worker.root /\ worker'.at = "next"
    BY <1>1, <2>2, <2>3, GoneWorker DEF Stations, Outside
  <2>5. ASSUME NEW u, Sound(u), Processing(u) = {}, Agree(u) PROVE RootFine(worker', root, u)
    BY <2>2, <2>4, <2>5, FreeHanded DEF Scanning
  <2>6. CASE Known(rows)
    <3>1. Put(root, Finalized(rows))
      BY <1>10, <2>6 DEF Finalize
    <3>2. /\ Sound(Finalized(rows)) /\ Agree(Finalized(rows))
          /\ Processing(Finalized(rows)) = {}
      BY <2>2, <2>6, FinalizedFacts
    <3> QED
      BY <2>1, <2>4, <2>5, <3>1, <3>2, StepFine
  <2>7. CASE ~Known(rows)
    <3>1. db' = db
      BY <1>10, <2>7 DEF Finalize
    <3> QED
      BY <2>1, <2>2, <2>4, <2>5, <2>7, <3>1, StepFine
  <2> QED
    BY <2>6, <2>7
<1> QED
  BY <1>2, <1>3, <1>4, <1>5, <1>6, <1>7, <1>8, <1>9, <1>10 DEF Scan

-----------------------------------------------------------------------------
LEMMA IndexInvSteps == IndexInv /\ [Next]_vars => IndexInv'
<1> SUFFICES ASSUME IndexInv, [Next]_vars PROVE IndexInv'
  OBVIOUS
<1>1. CASE User
  BY <1>1, UserFine
<1>2. CASE Cancel \/ Periodic \/ ThreadFinished \/ Restart \/ Disk
  BY <1>2, LoopFine
<1>3. CASE Thread
  BY <1>3, PrepareFine, ScanFine DEF Thread
<1>4. CASE InspectError
  BY <1>4, ScanFine
<1>5. CASE UNCHANGED vars
  BY <1>5 DEF vars, IndexInv
<1> QED
  BY <1>1, <1>2, <1>3, <1>4, <1>5 DEF Next

LEMMA IndexInvHolds == Spec => []IndexInv
BY InitFine, IndexInvSteps, PTL DEF Spec

\* What the invariant says of each root, in the words of the properties.
LEMMA IndexInvImplies == IndexInv => ReadyIsClean /\ ClaimedIsHeld /\ CountsAgree
<1> SUFFICES ASSUME IndexInv PROVE ReadyIsClean /\ ClaimedIsHeld /\ CountsAgree
  OBVIOUS
<1>1. \A r \in Roots : RootFine(worker, r, db[r])
  BY DEF IndexInv, Fine
<1>2. ReadyIsClean
  BY <1>1 DEF ReadyIsClean, RootFine, Sound, Clean
<1>3. ClaimedIsHeld
  <2> SUFFICES ASSUME NEW r \in Roots, NEW f \in Processing(db[r])
               PROVE  /\ worker.root = r /\ worker.at \in {"inspect", "commit"}
                      /\ f \in {b.folder : b \in worker.batch} \cup FoldersOf(worker.good)
                               \cup worker.bad
    BY DEF ClaimedIsHeld
  <2>1. r = worker.root /\ f \in Held(worker)
    BY <1>1 DEF RootFine
  <2>2. CASE worker.at = "inspect"
    BY <2>1, <2>2 DEF Held
  <2>3. CASE worker.at = "commit"
    BY <2>1, <2>3 DEF Held
  <2>4. CASE worker.at \notin {"inspect", "commit"}
    BY <2>1, <2>4 DEF Held
  <2> QED
    BY <2>1, <2>2, <2>3, <2>4
<1>4. CountsAgree
  BY <1>1 DEF CountsAgree, RootFine, Agree, Loose, Scanning
<1> QED
  BY <1>2, <1>3, <1>4

\* A root is READY only with an empty queue and without errors, whatever the user
\* does between the transactions of resume_scan (folder_index_repository.py:627).
THEOREM ReadyIsAlwaysClean == Spec => []ReadyIsClean
BY IndexInvHolds, IndexInvImplies, PTL

\* A folder in state PROCESSING is always in the hands of the worker: pausing, a
\* cancellation, the removal of the favourite and a restart leave none behind.
THEOREM ClaimedIsAlwaysHeld == Spec => []ClaimedIsHeld
BY IndexInvHolds, IndexInvImplies, PTL

\* The counts that resume_scan decides by agree with the rows when a job begins.
THEOREM CountsAlwaysAgree == Spec => []CountsAgree
BY IndexInvHolds, IndexInvImplies, PTL
-----------------------------------------------------------------------------
(* Who indexes a root that is shown as INDEXING. *)

\* The places that a scan of a root comes to only once it has found that the root is
\* not excluded.
Chosen(w) == Loose(w) \/ w.at \in {"plan", "writeFull"}

\* INDEXING is shown of the root in the worker's hands only, which is not excluded.
Attended(d, w) ==
  /\ \A r \in Roots : d[r].status = "INDEXING" =>
       w.root = r /\ w.at \notin Outside /\ d[r].scope # "EXCLUDED"
  /\ Chosen(w) => d[w.root].scope # "EXCLUDED"

\* What the GUI thread makes of the rows of a root.
Calmer(t, u) ==
  /\ u.scope = t.scope \/ u.scope # "EXCLUDED"
  /\ u.status = "INDEXING" => t.status = "INDEXING"

\* What the transactions make of status and scope.
LEMMA ColumnFacts ==
  ASSUME NEW t, Record(t)
  PROVE  /\ Calmer(t, NoFavourite)
         /\ Calmer(t, Paused(t)) /\ Calmer(t, Resumed(t)) /\ Calmer(t, Retried(t))
         /\ \A online : Calmer(t, Added("DEPTH", online))
         /\ \A f : Calmer(t, Missing(t, f))
         /\ Recovered(t).status # "INDEXING"
         /\ \A scope : Rescoped(t, scope).status # "INDEXING"
<1>1. Calmer(t, NoFavourite) /\ \A online : Calmer(t, Added("DEPTH", online))
  BY DEF Calmer, NoFavourite, Added, Favourite
<1>2. ASSUME NEW u, Record(u)
      PROVE  /\ Record(Returned(u)) /\ Record(Counted(u))
             /\ Returned(u).status = u.status /\ Returned(u).scope = u.scope
             /\ Counted(u).status = u.status /\ Counted(u).scope = u.scope
  BY <1>2 DEF Record, Returned, Counted
<1>3. Calmer(t, Paused(t))
  <2> DEFINE u == IF t.scope = "EXCLUDED" THEN t ELSE [t EXCEPT !.status = "PAUSED"]
  <2>1. Record(u) /\ u.scope = t.scope /\ (u.status = t.status \/ u.status = "PAUSED")
    BY DEF Record
  <2> HIDE DEF u
  <2>2. Paused(t) = Counted(Returned(u))
    BY DEF Paused, u
  <2> QED
    BY <1>2, <2>1, <2>2 DEF Calmer
<1>4. Calmer(t, Resumed(t))
  BY DEF Calmer, Resumed, Record
<1>5. Calmer(t, Retried(t))
  <2> DEFINE q == Restate(t.queue, {f \in DOMAIN t.queue : /\ t.queue[f].state = "ERROR"
                                       /\ t.queue[f].tries < MaxTries}, "PENDING")
             u == [t EXCEPT !.queue = q]
  <2>1. Retried(t) = Counted(u)
    BY DEF Retried
  <2> HIDE DEF q
  <2>2. Record(u) /\ u.scope = t.scope /\ u.status = t.status
    BY DEF Record
  <2> QED
    BY <1>2, <2>1, <2>2 DEF Calmer
<1>6. ASSUME NEW f PROVE Calmer(t, Missing(t, f))
  <2> DEFINE i == Keep(t.index, Folders \ Under(f))
             u == [t EXCEPT !.index = i,
                            !.status = IF t.scope = "EXCLUDED" THEN @ ELSE "INCOMPLETE"]
  <2>1. Missing(t, f) = Counted(u)
    BY DEF Missing
  <2> HIDE DEF i
  <2>2. Record(u) /\ u.scope = t.scope /\ u.status \in {t.status, "INCOMPLETE"}
    BY DEF Record
  <2> QED
    BY <1>2, <2>1, <2>2 DEF Calmer
<1>7. Recovered(t).status # "INDEXING"
  <2> DEFINE u == IF t.status = "INDEXING" THEN [t EXCEPT !.status = "INCOMPLETE"] ELSE t
  <2>1. Recovered(t) = Counted(Returned(u))
    BY DEF Recovered
  <2>2. Record(u) /\ u.status # "INDEXING"
    BY DEF Record
  <2> QED
    BY <1>2, <2>1, <2>2
<1>8. \A scope : Rescoped(t, scope).status # "INDEXING"
  BY DEF Rescoped, Record
<1> QED
  BY <1>1, <1>3, <1>4, <1>5, <1>6, <1>7, <1>8

LEMMA ScanColumns ==
  ASSUME NEW t, Record(t)
  PROVE  /\ \A online : /\ Connected(t, online).scope = t.scope
                        /\ Connected(t, online).status = "INDEXING" =>
                             t.status = "INDEXING"
                        /\ ~online /\ t.scope # "EXCLUDED" =>
                             Connected(t, online).status = "OFFLINE"
         /\ PreparedFull(t).scope = t.scope /\ Retried(t).scope = t.scope
         /\ \A cached : PreparedIncremental(t, cached).scope = t.scope
         /\ Started(t).scope = t.scope
         /\ \A S : Claimed(t, S).scope = t.scope
         /\ \A good, bad, now : Committed(t, good, bad, now).scope = t.scope
         /\ Interrupted(t).status # "INDEXING" /\ Record(Returned(t))
         /\ Finalized(t).status # "INDEXING"
<1>1. ASSUME NEW u, Record(u)
      PROVE  /\ Record(Returned(u)) /\ Record(Counted(u))
             /\ Returned(u).status = u.status /\ Returned(u).scope = u.scope
             /\ Counted(u).status = u.status /\ Counted(u).scope = u.scope
  BY <1>1 DEF Record, Returned, Counted
<1>2. ASSUME NEW online
      PROVE  /\ Connected(t, online).scope = t.scope
             /\ Connected(t, online).status = "INDEXING" => t.status = "INDEXING"
             /\ ~online /\ t.scope # "EXCLUDED" => Connected(t, online).status = "OFFLINE"
  BY DEF Connected, Record
<1>3. ASSUME NEW kind, NEW queue, NEW pending
      PROVE  Renewed(t, kind, queue, pending).scope = t.scope
  BY DEF Renewed, Record
<1>4. /\ PreparedFull(t).scope = t.scope
      /\ \A cached : PreparedIncremental(t, cached).scope = t.scope
  BY <1>3 DEF PreparedFull, PreparedIncremental
<1>5. Started(t).scope = t.scope /\ \A S : Claimed(t, S).scope = t.scope
  BY DEF Started, Claimed, Record
<1>6. Retried(t).scope = t.scope
  <2> DEFINE q == Restate(t.queue, {f \in DOMAIN t.queue : /\ t.queue[f].state = "ERROR"
                                       /\ t.queue[f].tries < MaxTries}, "PENDING")
             u == [t EXCEPT !.queue = q]
  <2>1. Retried(t) = Counted(u)
    BY DEF Retried
  <2> HIDE DEF q
  <2> QED
    BY <1>1, <2>1 DEF Record
<1>7. ASSUME NEW good, NEW bad, NEW now PROVE Committed(t, good, bad, now).scope = t.scope
  <2>1. PICK i, q, e : Committed(t, good, bad, now) =
                         Counted([t EXCEPT !.index = i, !.queue = q, !.errs = e])
    BY Zenon DEF Committed
  <2>2. /\ Record([t EXCEPT !.index = i, !.queue = q, !.errs = e])
        /\ [t EXCEPT !.index = i, !.queue = q, !.errs = e].scope = t.scope
    BY DEF Record
  <2> QED
    BY <1>1, <2>1, <2>2
<1>8. Interrupted(t).status # "INDEXING"
  <2> DEFINE u == IF t.status = "INDEXING" THEN [t EXCEPT !.status = "INCOMPLETE"] ELSE t
  <2>1. Interrupted(t) = Counted(u)
    BY DEF Interrupted
  <2>2. Record(u) /\ u.status # "INDEXING"
    BY DEF Record
  <2> QED
    BY <1>1, <2>1, <2>2
<1>9. Finalized(t).status # "INDEXING"
  <2>1. CASE Finished(t)
    <3>1. PICK i : Finalized(t) =
            Counted([t EXCEPT !.status = "READY", !.online = TRUE, !.queue = NoRows,
                              !.errs = {}, !.index = i])
      BY <2>1, Zenon DEF Finalized
    <3>2. /\ Record([t EXCEPT !.status = "READY", !.online = TRUE, !.queue = NoRows,
                              !.errs = {}, !.index = i])
          /\ [t EXCEPT !.status = "READY", !.online = TRUE, !.queue = NoRows,
                       !.errs = {}, !.index = i].status = "READY"
      BY DEF Record
    <3> QED
      BY <1>1, <3>1, <3>2
  <2>2. CASE ~Finished(t)
    <3>1. /\ Finalized(t) = Counted([t EXCEPT !.status = "INCOMPLETE"])
          /\ Record([t EXCEPT !.status = "INCOMPLETE"])
          /\ [t EXCEPT !.status = "INCOMPLETE"].status = "INCOMPLETE"
      BY <2>2 DEF Finalized, Record
    <3> QED
      BY <1>1, <3>1
  <2> QED
    BY <2>1, <2>2
<1> QED
  BY <1>1, <1>2, <1>4, <1>5, <1>6, <1>7, <1>8, <1>9

\* A transaction of the GUI thread.
LEMMA AttendedGui ==
  ASSUME NEW d, d = [r \in Roots |-> d[r]], NEW w, Standing(w), Attended(d, w),
         NEW r \in Roots, NEW u, Calmer(d[r], u)
  PROVE  Attended([d EXCEPT ![r] = u], w)
<1> DEFINE e == [d EXCEPT ![r] = u]
<1>1. e[r] = u /\ \A x \in Roots \ {r} : e[x] = d[x]
  OBVIOUS
<1>2. Chosen(w) => w.root \in Roots
  BY DEF Standing, Chosen, Loose, Outside, Scanning
<1> HIDE DEF e
<1>3. Attended(e, w)
  BY <1>1, <1>2 DEF Attended, Calmer
<1> QED
  BY <1>3 DEF e

\* The worker that goes on, and one that takes its place when it is done.
LEMMA AttendedBy ==
  ASSUME NEW d, NEW w, Attended(d, w), NEW v,
         \/ v.at = w.at /\ v.root = w.root /\ v.then = w.then
         \/ v.at \in Outside /\ w.at \in Outside
  PROVE  Attended(d, v)
<1>1. CASE v.at = w.at /\ v.root = w.root /\ v.then = w.then
  BY <1>1 DEF Attended, Chosen, Loose
<1>2. CASE v.at \in Outside /\ w.at \in Outside
  <2>1. ~Chosen(v)
    BY <1>2 DEF Chosen, Loose, Outside, Scanning
  <2> QED
    BY <1>2, <2>1 DEF Attended
<1> QED
  BY <1>1, <1>2

LEMMA FreshPlaces == NoWorker.at \in Outside /\ \A j : NewWorker(j).at \in Outside
<1>1. ASSUME NEW j PROVE NewWorker(j).at = "next"
  BY DEF NewWorker, NoWorker
<1>2. NoWorker.at = "none"
  BY DEF NoWorker
<1> QED
  BY <1>1, <1>2 DEF Outside

LEMMA AttendedRequest ==
  ASSUME IndexInv, NEW j, Request(j), NEW d, Attended(d, worker)
  PROVE  Attended(d, worker')
<1>1. worker' = worker \/ (worker.at = "none" /\ worker' = NewWorker(j))
  BY DEF Request
<1> QED
  BY <1>1, FreshPlaces, AttendedBy DEF Outside

AttendedInv == IndexInv /\ Attended(db, worker)

LEMMA UserAttends ==
  ASSUME "rescopeBusy" \notin Allowed, AttendedInv, User
  PROVE  Attended(db', worker')
<1>1. /\ IndexInv /\ db = [r \in Roots |-> db[r]] /\ Standing(worker) /\ Attended(db, worker)
      /\ \A r \in Roots : Record(db[r])
  BY DEF AttendedInv, IndexInv, Fine, RootFine, Sound
<1>2. ASSUME NEW r \in Roots, NEW u, Calmer(db[r], u), db' = [db EXCEPT ![r] = u]
      PROVE  Attended(db', worker)
  BY <1>1, <1>2, AttendedGui
<1>3. CASE \E r \in Roots : Add(r)
  <2>1. PICK r \in Roots : /\ db' = [db EXCEPT ![r] = Added("DEPTH", link[r])]
                           /\ Request(Job({r}, TRUE, FALSE, FALSE))
    BY <1>3 DEF Add, Put
  <2> QED
    BY <1>1, <1>2, <2>1, ColumnFacts, AttendedRequest
<1>4. CASE \E r \in Roots : Remove(r)
  <2>1. PICK r \in Roots : /\ db' = [db EXCEPT ![r] = NoFavourite]
                           /\ worker' = worker \/ worker' = [worker EXCEPT !.now = FALSE]
    BY <1>4 DEF Remove, Put
  <2>2. Attended(db', worker)
    BY <1>1, <1>2, <2>1, ColumnFacts
  <2>3. worker'.at = worker.at /\ worker'.root = worker.root /\ worker'.then = worker.then
    BY <1>1, <2>1 DEF Standing, WorkerTyped
  <2> QED
    BY <2>2, <2>3, AttendedBy
<1>5. CASE \E r \in Roots : Refresh(r) \/ Resume(r)
  <2>1. PICK r \in Roots : /\ db' = db \/ db' = [db EXCEPT ![r] = Resumed(db[r])]
                           /\ Request(Job({r}, FALSE, FALSE, TRUE))
    BY <1>5 DEF Refresh, Resume, Put
  <2>2. Attended(db', worker)
    BY <1>1, <1>2, <2>1, ColumnFacts
  <2> QED
    BY <1>1, <2>1, <2>2, AttendedRequest
<1>6. CASE \E r \in Roots : Pause(r)
  <2>1. PICK r \in Roots : db' = [db EXCEPT ![r] = Paused(db[r])] /\ worker' = worker
    BY <1>6 DEF Pause, Put
  <2> QED
    BY <1>1, <1>2, <2>1, ColumnFacts
<1>7. CASE \E r \in Roots, scope \in Scopes : Rescope(r, scope)
  <2>1. PICK r \in Roots, scope \in Scopes : Rescope(r, scope)
    BY <1>7
  <2> DEFINE j == IF scope = "EXCLUDED" THEN NoJob ELSE Job({r}, FALSE, FALSE, TRUE)
             u == Rescoped(db[r], scope)
  <2>2. db' = [db EXCEPT ![r] = u] /\ Request(j) /\ worker.at = "none"
    BY <2>1 DEF Rescope, Put, Gesture, Clicked
  <2>3. u.status # "INDEXING"
    BY <1>1, ColumnFacts
  <2> HIDE DEF j, u
  <2>4. ~Chosen(worker) /\ \A x \in Roots : db'[x].status # "INDEXING"
    BY <1>1, <2>2, <2>3 DEF Attended, Chosen, Loose, Outside, Scanning
  <2>5. Attended(db', worker)
    BY <2>4 DEF Attended
  <2> QED
    BY <1>1, <2>2, <2>5, AttendedRequest
<1>8. CASE \E r \in Roots, f \in Folders : OpenResult(r, f)
  <2>1. PICK r \in Roots, f \in Folders : /\ db' = [db EXCEPT ![r] = Missing(db[r], f)]
                                          /\ worker' = worker
    BY <1>8 DEF OpenResult, Put
  <2> QED
    BY <1>1, <1>2, <2>1, ColumnFacts
<1>9. CASE \E S \in {{r} : r \in Favourites} \cup {Favourites} : Refull(S)
  <2>1. PICK S : Request(Job(S, TRUE, FALSE, FALSE)) /\ db' = db
    BY <1>9 DEF Refull
  <2> QED
    BY <1>1, <2>1, AttendedRequest
<1>10. CASE \E i \in DOMAIN order, op \in {"up", "down", "top", "bottom"} :
              MoveFavourite(i, op)
  BY <1>1, <1>10 DEF MoveFavourite
<1>11. CASE PauseAll
  <2>1. /\ \A r \in Roots : db'[r] = db[r] \/ db'[r] = Paused(db[r])
        /\ worker' = worker
    BY <1>11 DEF PauseAll
  <2>2. \A r \in Roots : db'[r] = db[r] \/ Calmer(db[r], db'[r])
    BY <1>1, <2>1, ColumnFacts
  <2>3. Chosen(worker) => worker.root \in Roots
    BY <1>1 DEF Standing, Chosen, Loose, Outside, Scanning
  <2> QED
    BY <1>1, <2>1, <2>2, <2>3 DEF Attended, Calmer
<1>12. CASE Close
  <2>1. db' = db /\ (worker' = worker \/ worker' = [worker EXCEPT !.cancelled = TRUE])
    BY <1>12 DEF Close
  <2>2. worker'.at = worker.at /\ worker'.root = worker.root /\ worker'.then = worker.then
    BY <1>1, <2>1 DEF Standing, WorkerTyped
  <2> QED
    BY <1>1, <2>1, <2>2, AttendedBy
<1> QED
  BY <1>3, <1>4, <1>5, <1>6, <1>7, <1>8, <1>9, <1>10, <1>11, <1>12 DEF User

LEMMA LoopAttends ==
  ASSUME AttendedInv, Cancel \/ Periodic \/ ThreadFinished \/ Restart \/ Disk
  PROVE  Attended(db', worker')
<1>1. /\ IndexInv /\ db = [r \in Roots |-> db[r]] /\ Standing(worker) /\ Attended(db, worker)
      /\ \A r \in Roots : Record(db[r])
  BY DEF AttendedInv, IndexInv, Fine, RootFine, Sound
<1>2. CASE Cancel
  <2>1. db' = db /\ (worker' = worker \/ worker' = [worker EXCEPT !.cancelled = TRUE])
    BY <1>2 DEF Cancel
  <2>2. worker'.at = worker.at /\ worker'.root = worker.root /\ worker'.then = worker.then
    BY <1>1, <2>1 DEF Standing, WorkerTyped
  <2> QED
    BY <1>1, <2>1, <2>2, AttendedBy
<1>3. CASE Periodic
  BY <1>1, <1>3, AttendedRequest DEF Periodic
<1>4. CASE ThreadFinished
  <2>1. db' = db /\ worker.at \in Outside /\ worker' \in {NoWorker, NewWorker(job)}
    BY <1>4 DEF ThreadFinished, Outside
  <2>2. worker'.at \in Outside
    BY <2>1, FreshPlaces
  <2> QED
    BY <1>1, <2>1, <2>2, AttendedBy
<1>5. CASE Restart
  <2>1. /\ \A r \in Roots : db'[r] = Recovered(db[r])
        /\ worker' \in {NoWorker, NewWorker(Job(Resumable, FALSE, FALSE, TRUE))}
    BY <1>5 DEF Restart
  <2>2. worker'.at \in Outside
    BY <2>1, FreshPlaces
  <2>3. \A r \in Roots : db'[r].status # "INDEXING"
    BY <1>1, <2>1, ColumnFacts
  <2>4. ~Chosen(worker')
    BY <2>2 DEF Chosen, Loose, Outside, Scanning
  <2> QED
    BY <2>3, <2>4 DEF Attended
<1>6. CASE Disk
  <2>1. UNCHANGED <<db, worker>>
    BY <1>6 DEF Disk, Reconnect, MakeFolder, RemoveFolder, Edited
  <2> QED
    BY <1>1, <2>1
<1> QED
  BY <1>2, <1>3, <1>4, <1>5, <1>6

\* A step of the worker with its root.
LEMMA AttendedStep ==
  ASSUME AttendedInv, worker.at \notin Outside,
         NEW u, (db' = db /\ u = rows) \/ Put(root, u),
         worker'.root = worker.root,
         u.status = "INDEXING" => worker'.at \notin Outside /\ u.scope # "EXCLUDED",
         Chosen(worker') => u.scope # "EXCLUDED"
  PROVE  Attended(db', worker')
<1>1. /\ db = [r \in Roots |-> db[r]] /\ worker.root \in Roots /\ Attended(db, worker)
  BY DEF AttendedInv, IndexInv, Fine, Standing
<1>2. db'[worker.root] = u /\ \A x \in Roots \ {worker.root} : db'[x] = db[x]
  BY <1>1 DEF Put, root, rows
<1> QED
  BY <1>1, <1>2 DEF Attended

\* What is known of its root.
LEMMA AttendedRoot ==
  ASSUME AttendedInv, worker.at \notin Outside
  PROVE  /\ Record(rows) /\ Standing(worker) /\ WorkerTyped(worker)
         /\ worker.then \in {"open", "choose", "mark"}
         /\ rows.status = "INDEXING" => rows.scope # "EXCLUDED"
         /\ Chosen(worker) => rows.scope # "EXCLUDED"
<1>1. /\ Sound(rows) /\ worker.root \in Roots /\ Standing(worker) /\ Attended(db, worker)
  BY AtWork DEF AttendedInv
<1> QED
  BY <1>1 DEF Sound, Standing, WorkerTyped, Attended, rows, root

LEMMA PrepareAttends ==
  ASSUME AttendedInv, Prepare PROVE Attended(db', worker')
<1>1. IndexInv /\ Standing(worker) /\ WorkerTyped(worker) /\ Attended(db, worker)
  BY DEF AttendedInv, IndexInv, Fine, Standing
<1>2. CASE NextRoot
  <2>1. db' = db /\ worker.at = "next"
    BY <1>2 DEF NextRoot, Step
  <2>2. \A r \in Roots : db[r].status # "INDEXING"
    BY <1>1, <2>1 DEF Attended, Outside
  <2>3. ~Chosen(worker')
    <3>1. CASE worker' = [worker EXCEPT !.at = "ended"]
      <4>1. worker'.at = "ended"
        BY <1>1, <3>1 DEF WorkerTyped
      <4> QED
        BY <4>1 DEF Chosen, Loose, Scanning
    <3>2. CASE worker' # [worker EXCEPT !.at = "ended"]
      <4>1. PICK r \in worker.job.roots :
              worker' = [worker EXCEPT !.root = r, !.job.roots = @ \ {r}, !.processed = 0,
                                       !.at = IF worker.job.full THEN "lookFull" ELSE "open",
                                       !.then = "open", !.now = TRUE, !.seen = NoSight]
        BY <1>2, <3>2 DEF NextRoot, Go
      <4>2. worker'.at \in {"lookFull", "open"} /\ worker'.then = "open"
        BY <1>1, <4>1 DEF WorkerTyped
      <4> QED
        BY <4>2 DEF Chosen, Loose, Scanning
    <3> QED
      BY <3>1, <3>2
  <2> QED
    BY <2>1, <2>2, <2>3 DEF Attended
<1>3. CASE LookFull
  <2>1. worker.at = "lookFull" /\ worker.at \notin Outside
    BY <1>3 DEF LookFull, Step, Outside
  <2>2. /\ Record(rows) /\ worker.then \in {"open", "choose", "mark"}
        /\ rows.status = "INDEXING" => rows.scope # "EXCLUDED"
        /\ Chosen(worker) => rows.scope # "EXCLUDED"
    BY <2>1, AttendedRoot
  <2>3. Chosen(worker) <=> worker.then # "open"
    BY <2>1 DEF Chosen, Loose, Scanning
  <2>4. CASE ~Known(rows) \/ rows.scope = "EXCLUDED"
    <3>1. db' = db /\ worker' = [worker EXCEPT !.at = worker.then]
      BY <1>3, <2>4 DEF LookFull, Go
    <3>2. worker'.root = worker.root /\ worker'.at = worker.then /\ worker'.then = worker.then
      BY <1>1, <3>1 DEF WorkerTyped
    <3>3. Chosen(worker') => worker.then # "open"
      BY <2>2, <3>2 DEF Chosen, Loose, Scanning
    <3>4. worker'.at \notin Outside
      BY <2>2, <3>2 DEF Outside
    <3> QED
      BY <2>1, <2>2, <2>3, <3>1, <3>2, <3>3, <3>4, AttendedStep
  <2>5. CASE Known(rows) /\ rows.scope # "EXCLUDED"
    <3>1. /\ Put(root, Connected(rows, link[root]))
          /\ \E at \in {"writeFull", worker.then} : worker' = [worker EXCEPT !.at = at]
      BY <1>3, <2>5 DEF LookFull, Go
    <3>2. worker'.root = worker.root /\ worker'.at \in {"writeFull", worker.then}
      BY <1>1, <3>1 DEF WorkerTyped
    <3>3. worker'.at \notin Outside
      BY <2>2, <3>2 DEF Outside
    <3> QED
      BY <2>1, <2>2, <2>5, <3>1, <3>2, <3>3, ScanColumns, AttendedStep
  <2> QED
    BY <2>4, <2>5
<1>4. CASE WriteFull
  <2>1. worker.at = "writeFull" /\ worker.at \notin Outside
    BY <1>4 DEF WriteFull, Step, Outside
  <2>2. /\ Record(rows) /\ worker.then \in {"open", "choose", "mark"}
        /\ rows.scope # "EXCLUDED"
    BY <2>1, AttendedRoot DEF Chosen
  <2>3. CASE ~Known(rows)
    <3>1. db' = db /\ worker' = [worker EXCEPT !.at = "ended"]
      BY <1>4, <2>3 DEF WriteFull, Fail, Go
    <3>2. worker'.root = worker.root
      BY <1>1, <3>1 DEF WorkerTyped
    <3> QED
      BY <2>1, <2>2, <2>3, <3>1, <3>2, AttendedStep DEF Known
  <2>4. CASE Known(rows)
    <3>1. Put(root, PreparedFull(rows)) /\ worker' = [worker EXCEPT !.at = worker.then]
      BY <1>4, <2>4 DEF WriteFull, Go
    <3>2. worker'.root = worker.root /\ worker'.at \notin Outside
      BY <1>1, <2>2, <3>1 DEF WorkerTyped, Outside
    <3> QED
      BY <2>1, <2>2, <3>1, <3>2, ScanColumns, AttendedStep
  <2> QED
    BY <2>3, <2>4
<1>5. CASE LookIncremental
  <2>1. worker.at = "lookIncremental" /\ worker.at \notin Outside
    BY <1>5 DEF LookIncremental, Step, Outside
  <2>2. /\ Record(rows) /\ worker.then \in {"open", "choose", "mark"}
        /\ rows.scope # "EXCLUDED"
    BY <2>1, AttendedRoot DEF Chosen, Loose
  <2>3. /\ \/ worker' = [worker EXCEPT !.at = worker.then]
           \/ worker' = [worker EXCEPT !.at = "lookFull"]
           \/ worker' = [worker EXCEPT !.at = "writeIncremental",
                                       !.seen.cached = Cardinality(DOMAIN rows.index)]
        /\ db' = db \/ Put(root, Connected(rows, FALSE))
    BY <1>5 DEF LookIncremental, Go
  <2>4. worker'.root = worker.root /\ worker'.at \notin Outside
    BY <1>1, <2>2, <2>3 DEF WorkerTyped, Outside
  <2>5. CASE db' = db
    BY <2>1, <2>2, <2>4, <2>5, AttendedStep
  <2>6. CASE Put(root, Connected(rows, FALSE))
    <3>1. Connected(rows, FALSE).scope # "EXCLUDED"
      BY <2>2, ScanColumns
    <3> QED
      BY <2>1, <2>4, <2>6, <3>1, AttendedStep
  <2> QED
    BY <2>3, <2>5, <2>6
<1>6. CASE WriteIncremental
  <2>1. worker.at = "writeIncremental" /\ worker.at \notin Outside
    BY <1>6 DEF WriteIncremental, Step, Outside
  <2>2. /\ Record(rows) /\ worker.then \in {"open", "choose", "mark"}
        /\ rows.scope # "EXCLUDED"
    BY <2>1, AttendedRoot DEF Chosen, Loose
  <2>3. /\ worker' = [worker EXCEPT !.at = worker.then]
        /\ db' = db \/ Put(root, PreparedIncremental(rows, worker.seen.cached))
    BY <1>6 DEF WriteIncremental, Go
  <2>4. worker'.root = worker.root /\ worker'.at \notin Outside
    BY <1>1, <2>2, <2>3 DEF WorkerTyped, Outside
  <2>5. CASE db' = db
    BY <2>1, <2>2, <2>4, <2>5, AttendedStep
  <2>6. CASE Put(root, PreparedIncremental(rows, worker.seen.cached))
    <3>1. PreparedIncremental(rows, worker.seen.cached).scope # "EXCLUDED"
      BY <2>2, ScanColumns
    <3> QED
      BY <2>1, <2>4, <2>6, <3>1, AttendedStep
  <2> QED
    BY <2>3, <2>5, <2>6
<1>7. CASE OpenScan
  <2>1. worker.at = "open" /\ worker.at \notin Outside
    BY <1>7 DEF OpenScan, Step, Outside
  <2>2. /\ Record(rows) /\ (rows.status = "INDEXING" => rows.scope # "EXCLUDED")
    BY <2>1, AttendedRoot
  <2>3. CASE worker' = [worker EXCEPT !.at = "next"]
    <3>1. worker'.root = worker.root /\ worker'.at = "next"
      BY <1>1, <2>3 DEF WorkerTyped
    <3>2. ~Chosen(worker')
      BY <3>1 DEF Chosen, Loose, Scanning
    <3>3. worker'.at # "plan"
      BY <3>1
    <3>4. CASE ~Known(rows) \/ rows.scope = "EXCLUDED"
      <4>1. db' = db
        BY <1>7, <3>4 DEF OpenScan
      <4>2. rows.status # "INDEXING"
        BY <2>2, <3>4 DEF Known
      <4> QED
        BY <2>1, <3>1, <3>2, <4>1, <4>2, AttendedStep
    <3>5. CASE rows.scope # "EXCLUDED" /\ Known(rows) /\ ~link[root]
      <4>1. Put(root, Connected(rows, FALSE))
        BY <1>7, <3>5 DEF OpenScan
      <4>2. Connected(rows, FALSE).status # "INDEXING"
        BY <2>2, <3>5, ScanColumns
      <4> QED
        BY <2>1, <3>1, <3>2, <4>1, <4>2, AttendedStep
    <3>6. CASE rows.scope # "EXCLUDED" /\ Known(rows) /\ link[root]
      <4>1. rows.status = "PAUSED" /\ db' = db
        <5>1. worker' # [worker EXCEPT !.at = "plan", !.seen = Sight(rows, 0)]
          BY <1>1, <3>3 DEF WorkerTyped
        <5> QED
          BY <1>7, <3>6, <5>1 DEF OpenScan
      <4> QED
        BY <2>1, <3>1, <3>2, <4>1, AttendedStep
    <3> QED
      BY <3>4, <3>5, <3>6
  <2>4. CASE worker' # [worker EXCEPT !.at = "next"]
    <3>1. /\ worker' = [worker EXCEPT !.at = "plan", !.seen = Sight(rows, 0)] /\ db' = db
          /\ rows.scope # "EXCLUDED"
      BY <1>7, <2>4 DEF OpenScan, Go
    <3>2. worker'.root = worker.root /\ worker'.at = "plan"
      BY <1>1, <3>1 DEF WorkerTyped
    <3> QED
      BY <2>1, <3>1, <3>2, AttendedStep DEF Outside
  <2> QED
    BY <2>3, <2>4
<1> QED
  BY <1>2, <1>3, <1>4, <1>5, <1>6, <1>7 DEF Prepare

LEMMA ScanAttends ==
  ASSUME AttendedInv, Scan \/ InspectError PROVE Attended(db', worker')
<1>1. worker.at \in {"plan", "choose", "mark"} \cup Scanning
  BY DEF Scan, Plan, Choose, Mark, Claim, Inspect, InspectError, Commit, Finalize, Step, Scanning
<1>2. worker.at \notin Outside /\ Chosen(worker)
  BY <1>1 DEF Outside, Chosen, Loose, Scanning
<1>3. /\ Record(rows) /\ WorkerTyped(worker) /\ rows.scope # "EXCLUDED"
  BY <1>2, AttendedRoot
<1> DEFINE Goes(u) == (db' = db /\ u = rows) \/ Put(root, u)
\* It goes on with the root, or leaves it with another status.
<1>4. ASSUME NEW u, Goes(u), worker'.root = worker.root,
             \/ worker'.at \notin Outside /\ u.scope = rows.scope
             \/ worker'.at \in Outside /\ u.status # "INDEXING"
      PROVE  Attended(db', worker')
  <2>1. Chosen(worker') => worker'.at \notin Outside
    BY DEF Chosen, Loose, Scanning, Outside
  <2> QED
    BY <1>2, <1>3, <1>4, <2>1, AttendedStep
<1>5. CASE Plan
  <2>1. worker'.root = worker.root /\ worker'.at \in {"choose", "lookIncremental", "lookFull"}
    <3>1. \/ \E seen : worker' = [worker EXCEPT !.at = "choose", !.seen = seen]
          \/ \E at \in {"lookIncremental", "lookFull"} :
               worker' = [worker EXCEPT !.at = at, !.then = "choose"]
          \/ worker' = [worker EXCEPT !.at = "choose"]
      BY <1>5 DEF Plan, Call, Go
    <3> QED
      BY <1>3, <3>1 DEF WorkerTyped
  <2>2. db' = db \/ Put(root, rows) \/ Put(root, Retried(rows))
    BY <1>5 DEF Plan
  <2> QED
    BY <1>3, <1>4, <2>1, <2>2, ScanColumns DEF Outside
<1>6. CASE Choose
  <2>1. /\ db' = db
        /\ \/ worker' = [worker EXCEPT !.at = "mark"]
           \/ \E at \in {"lookIncremental", "lookFull"} :
                worker' = [worker EXCEPT !.at = at, !.then = "mark"]
    BY <1>6 DEF Choose, Call, Go
  <2>2. worker'.root = worker.root /\ worker'.at \notin Outside
    BY <1>3, <2>1 DEF WorkerTyped, Outside
  <2> QED
    BY <1>4, <2>1, <2>2
<1>7. CASE Mark
  <2>1. worker' = [worker EXCEPT !.at = "claim"] /\ (db' = db \/ Put(root, Started(rows)))
    BY <1>7 DEF Mark, Go
  <2>2. worker'.root = worker.root /\ worker'.at \notin Outside
    BY <1>3, <2>1 DEF WorkerTyped, Outside
  <2> QED
    BY <1>3, <1>4, <2>1, <2>2, ScanColumns
<1>8. CASE Claim
  <2>1. CASE worker' = [worker EXCEPT !.at = "finalize"] /\ db' = db
    <3>1. worker'.root = worker.root /\ worker'.at \notin Outside
      BY <1>3, <2>1 DEF WorkerTyped, Outside
    <3> QED
      BY <1>4, <2>1, <3>1
  <2>2. CASE worker' = [worker EXCEPT !.at = "next"] /\ Put(root, Interrupted(rows))
    <3>1. worker'.root = worker.root /\ worker'.at \in Outside
      BY <1>3, <2>2 DEF WorkerTyped, Outside
    <3> QED
      BY <1>3, <1>4, <2>2, <3>1, ScanColumns
  <2>3. ASSUME NEW S, Put(root, Claimed(rows, S)),
               worker' = [worker EXCEPT !.at = "inspect", !.now = TRUE, !.good = {}, !.bad = {},
                             !.batch = {[folder |-> f, work |-> rows.queue[f].work] : f \in S}]
        PROVE  Attended(db', worker')
    <3>1. worker'.root = worker.root /\ worker'.at \notin Outside
      BY <1>3, <2>3 DEF WorkerTyped, Outside
    <3>2. Claimed(rows, S).scope = rows.scope
      BY <1>3, ScanColumns
    <3> QED
      BY <1>4, <2>3, <3>1, <3>2
  <2> QED
    BY <1>8, <2>1, <2>2, <2>3 DEF Claim, Go
<1>9. ASSUME NEW b, NEW good, NEW bad, Inspected(b, good, bad), db' = db
      PROVE  Attended(db', worker')
  <2>1. worker'.root = worker.root /\ worker'.at \in {"commit", "inspect"}
    BY <1>3, <1>9 DEF WorkerTyped, Inspected
  <2> QED
    BY <1>4, <1>9, <2>1 DEF Outside
<1>10. CASE Inspect
  <2>1. CASE worker.cancelled
    <3>1. /\ worker' = [worker EXCEPT !.at = "next", !.batch = {}, !.good = {}, !.bad = {}]
          /\ Put(root, Interrupted(Returned(rows)))
      BY <1>10, <2>1 DEF Inspect
    <3>2. worker'.root = worker.root /\ worker'.at \in Outside
      BY <1>3, <3>1 DEF WorkerTyped, Outside
    <3>3. Interrupted(Returned(rows)).status # "INDEXING"
      BY <1>3, ScanColumns
    <3> QED
      BY <1>4, <3>1, <3>2, <3>3
  <2>2. CASE ~worker.cancelled
    <3>1. db' = db /\ \E b, good, bad : Inspected(b, good, bad)
      BY <1>10, <2>2 DEF Inspect, Read
    <3> QED
      BY <1>9, <3>1
  <2> QED
    BY <2>1, <2>2
<1>11. CASE InspectError
  BY <1>9, <1>11 DEF InspectError
<1>12. CASE Commit
  <2>1. CASE worker' = [worker EXCEPT !.at = "claim", !.good = {}, !.bad = {}]
             /\ Put(root, Committed(rows, worker.good, worker.bad, worker.now))
    <3>1. worker'.root = worker.root /\ worker'.at \notin Outside
      BY <1>3, <2>1 DEF WorkerTyped, Outside
    <3> QED
      BY <1>3, <1>4, <2>1, <3>1, ScanColumns
  <2>2. CASE ~Known(rows) /\ db' = db /\ worker' = [worker EXCEPT !.at = "ended"]
    <3>1. worker'.root = worker.root /\ worker'.at \in Outside /\ rows.status # "INDEXING"
      BY <1>3, <2>2 DEF WorkerTyped, Outside, Known
    <3> QED
      BY <1>4, <2>2, <3>1
  <2>3. CASE db' = db /\ worker' = [worker EXCEPT !.at = "claim"]
    <3>1. worker'.root = worker.root /\ worker'.at \notin Outside
      BY <1>3, <2>3 DEF WorkerTyped, Outside
    <3> QED
      BY <1>4, <2>3, <3>1
  <2> QED
    BY <1>12, <2>1, <2>2, <2>3 DEF Commit, Fail, Go
<1>13. CASE Finalize
  <2>1. /\ worker' = [worker EXCEPT !.at = "next"]
        /\ \/ Put(root, Finalized(rows))
           \/ ~Known(rows) /\ db' = db
    BY <1>13 DEF Finalize, Go
  <2>2. worker'.root = worker.root /\ worker'.at \in Outside
    BY <1>3, <2>1 DEF WorkerTyped, Outside
  <2> QED
    BY <1>3, <1>4, <2>1, <2>2, ScanColumns DEF Known
<1> QED
  BY <1>5, <1>6, <1>7, <1>8, <1>10, <1>11, <1>12, <1>13 DEF Scan

\* A root shown as INDEXING is in the hands of a worker that goes on with it, in
\* every order of gestures, failures, kills and steps of the scan, so long as the scope
\* is not changed while a thread works ("rescopeBusy"): a scan that has found the
\* root not excluded would then begin, or go on, with one that is.
THEOREM IndexingAlwaysHasWorker ==
  "rescopeBusy" \notin Allowed => (Spec => []IndexingHasWorker)
<1> SUFFICES ASSUME "rescopeBusy" \notin Allowed PROVE Spec => []IndexingHasWorker
  OBVIOUS
<1>1. Init => AttendedInv
  <2> SUFFICES ASSUME Init PROVE Attended(db, worker)
    BY InitFine DEF AttendedInv
  <2>1. worker.at = "none" /\ \A r \in Roots : db[r].status = "NONE"
    BY NoFavouriteFacts DEF Init, NoWorker
  <2> QED
    BY <2>1 DEF Attended, Chosen, Loose, Scanning
<1>2. AttendedInv /\ [Next]_vars => AttendedInv'
  <2> SUFFICES ASSUME AttendedInv, [Next]_vars PROVE Attended(db, worker)'
    BY IndexInvSteps DEF AttendedInv
  <2>1. CASE UNCHANGED vars
    BY <2>1 DEF vars, AttendedInv
  <2>2. CASE Next
    BY <2>2, UserAttends, LoopAttends, PrepareAttends, ScanAttends DEF Next, Thread
  <2> QED
    BY <2>1, <2>2
<1>3. AttendedInv => IndexingHasWorker
  BY DEF AttendedInv, Attended, IndexingHasWorker, Outside
<1> QED
  BY <1>1, <1>2, <1>3, PTL DEF Spec
=============================================================================
