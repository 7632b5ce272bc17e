------------------------- MODULE BrokerClientProofs -------------------------
(***************************************************************************)
(* For every batch, number of attempts, prefetch and number of breaks: no  *)
(* answer is lost, and nothing happens twice but for a broken connection.  *)
(* The inductive invariant SafeInv says of the publish worker how many     *)
(* copies of each request there can be by the progress of its attempts,    *)
(* and of the polling worker, as long as its connection has not broken,    *)
(* that an answer is in one place at a time.                               *)
(***************************************************************************)
EXTENDS BrokerClient, TLAPS

Answers == Tasks \X Nat
PubRec == [run : {"connecting", "sending", "done"}, conn : Conns, todo : Seq(Tasks),
           tries : 0 .. MaxTries - 1, written : BOOLEAN]
PollRec == [run : {"connecting", "pumping", "done"}, conn : Conns,
            buffer : SUBSET Answers, acking : Answers \cup {Nothing}, consumer : BOOLEAN]

Typed ==
  /\ copies \in [Tasks -> 0 .. MaxTries]
  /\ requests \in SUBSET Answers /\ ready \in SUBSET Answers /\ handed \in SUBSET Answers
  /\ pub \in PubRec /\ poll \in PollRec
  /\ report \in [Tasks -> {"none", "published", "failed"}]
  /\ stop \in [Workers -> BOOLEAN] /\ breaks \in [Workers -> Nat]

\* An answer is to a copy that was sent.
Sent(a) == a[2] \in 1 .. copies[a[1]]
Genuine == \A a \in requests \cup ready \cup handed \cup poll.buffer : Sent(a)

Linked ==
  /\ poll.consumer => poll.conn = "open"
  /\ poll.acking # Nothing => poll.acking \in handed
  /\ twice \subseteq handed

\* What is still to be sent is named once, has not been reported, and, but for the
\* request in hand, has not been written.
ToSend ==
  /\ \A i, j \in 1 .. Len(pub.todo) : pub.todo[i] = pub.todo[j] => i = j
  /\ \A i \in 1 .. Len(pub.todo) : report[pub.todo[i]] = "none"
  /\ \A i \in 2 .. Len(pub.todo) : copies[pub.todo[i]] = 0

\* Of the request in hand there is one copy for each attempt, and without the one
\* just written no more than the connection broke.
InHand ==
  /\ pub.written => pub.conn \in {"open", "broken"} /\ pub.todo # << >>
  /\ pub.todo # << >> =>
       /\ copies[Head(pub.todo)] <= pub.tries + (IF pub.written THEN 1 ELSE 0)
       /\ ~pub.written \/ pub.conn # "open" => copies[Head(pub.todo)] <= breaks["pub"]
       /\ pub.written => copies[Head(pub.todo)] >= 1

SentOnce ==
  /\ \A t \in Tasks : copies[t] <= 1 + breaks["pub"]
  /\ breaks["pub"] = 0 =>
       /\ pub.conn # "broken"
       /\ \A t \in Tasks : /\ report[t] = "published" => copies[t] = 1
                           /\ report[t] = "failed" => copies[t] = 0

\* Without a break an answer is in one place.
HandedOnce ==
  breaks["poll"] = 0 =>
    /\ poll.conn \in {"none", "open"} /\ twice = {}
    /\ poll.conn = "none" => poll.buffer = {} /\ poll.acking = Nothing
    /\ requests \cap (ready \cup poll.buffer \cup handed) = {}
    /\ ready \cap (poll.buffer \cup handed) = {}
    /\ poll.buffer \cap handed \subseteq {poll.acking}

SafeInv == Typed /\ Genuine /\ Linked /\ ToSend /\ InHand /\ SentOnce /\ HandedOnce /\ AnswerKept

-----------------------------------------------------------------------------
\* What Head and Tail do to the list of requests.
LEMMA TailFacts ==
  ASSUME NEW s \in Seq(Tasks), s # << >>
  PROVE  /\ Tail(s) \in Seq(Tasks) /\ Len(s) \in Nat \ {0} /\ Len(Tail(s)) = Len(s) - 1
         /\ Head(s) = s[1] /\ Head(s) \in Tasks
         /\ \A i \in 1 .. Len(s) : s[i] \in Tasks
         /\ \A i \in 1 .. Len(s) - 1 : Tail(s)[i] = s[i + 1]
  OBVIOUS

\* The first state satisfies every part of the invariant.
LEMMA InitSafe == Init => SafeInv
<1> SUFFICES ASSUME Init PROVE SafeInv
  OBVIOUS
<1> USE BrokerAssumption
<1>1. Typed
  BY DEF Init, Typed, PubRec, PollRec, Answers, Conns, Workers
<1>2. Genuine /\ Linked /\ HandedOnce /\ AnswerKept
  BY DEF Init, Genuine, Linked, HandedOnce, AnswerKept, Unacknowledged, Workers
<1>3. ToSend
  <2>1. \A i \in 1 .. Len(Batch) : Batch[i] \in Tasks
    OBVIOUS
  <2> QED
    BY <2>1 DEF Init, ToSend
<1>4. InHand /\ SentOnce
  <2>1. Batch # << >> => Head(Batch) \in Tasks
    OBVIOUS
  <2> QED
    BY <2>1 DEF Init, InHand, SentOnce, Workers
<1> QED
  BY <1>1, <1>2, <1>3, <1>4 DEF SafeInv

-----------------------------------------------------------------------------
\* An attempt that ended keeps the publish worker's type.
LEMMA AttemptedTyped ==
  ASSUME Typed, pub.todo # << >>, NEW verdict \in {"none", "published", "failed"},
         verdict = "none" => pub.tries + 1 < MaxTries
  PROVE  /\ Attempted(verdict) \in PubRec
         /\ Reported(verdict) => report' \in [Tasks -> {"none", "published", "failed"}]
<1>1. pub.todo \in Seq(Tasks) /\ Tail(pub.todo) \in Seq(Tasks) /\ Head(pub.todo) \in Tasks
  BY TailFacts DEF Typed, PubRec
<1>2. CASE verdict = "none"
  <2>1. pub.tries + 1 \in 0 .. MaxTries - 1
    BY <1>2, BrokerAssumption DEF Typed, PubRec
  <2> QED
    BY <1>1, <1>2, <2>1 DEF Typed, PubRec, Attempted, Reported
<1>3. CASE verdict # "none"
  <2>1. 0 \in 0 .. MaxTries - 1
    BY BrokerAssumption
  <2> QED
    BY <1>1, <1>3, <2>1 DEF Typed, PubRec, Attempted, Reported
<1> QED
  BY <1>2, <1>3

\* A break keeps the types of what it does not touch.
LEMMA BreakingTyped ==
  ASSUME Typed, NEW w \in Workers, Breaking(w)
  PROVE  breaks' \in [Workers -> Nat] /\ UNCHANGED <<copies, requests, report, handed, stop>>
  BY DEF Typed, Breaking, Workers

LEMMA TypedStep == SafeInv /\ [Next]_vars => Typed'
<1> SUFFICES ASSUME SafeInv, [Next]_vars PROVE Typed'
  OBVIOUS
<1> USE BrokerAssumption DEF SafeInv
<1>1. CASE PubConnect
  BY <1>1, ZenonT(60) DEF PubConnect, PubKeeps, Typed, PubRec, Conns
<1>2. CASE PubReconnect
  BY <1>2 DEF PubReconnect, PubKeeps, Typed, PubRec, Conns
<1>3. CASE PubWrite
  <2> DEFINE t == Head(pub.todo)
  <2>1. t \in Tasks /\ pub.todo # << >>
    BY <1>3, TailFacts DEF PubWrite, Attempting, Typed, PubRec
  <2>2. copies[t] + 1 \in 0 .. MaxTries
    BY <1>3, <2>1, SMTT(30) DEF PubWrite, InHand, Typed, PubRec
  <2>3. copies' \in [Tasks -> 0 .. MaxTries]
    BY <1>3, <2>1, <2>2 DEF PubWrite, Typed
  <2>4. requests' \in SUBSET Answers
    BY <1>3, <2>1, <2>2 DEF PubWrite, Typed, Answers
  <2>5. pub' \in PubRec
    BY <1>3 DEF PubWrite, Typed, PubRec
  <2> QED
    BY <1>3, <2>3, <2>4, <2>5 DEF PubWrite, PubKeeps, Typed
<1>4. CASE PubReturn
  BY <1>4, AttemptedTyped DEF PubReturn, Attempting, PubKeeps, Typed
<1>5. CASE PubRaise
  <2> DEFINE verdict == IF pub.tries + 1 < MaxTries THEN "none" ELSE "failed"
  <2>1. pub' = [Attempted(verdict) EXCEPT !.conn = "closed"] /\ Reported(verdict)
    BY <1>5 DEF PubRaise
  <2>2. Attempted(verdict) \in PubRec /\ report' \in [Tasks -> {"none", "published", "failed"}]
    BY <1>5, <2>1, AttemptedTyped DEF PubRaise, Attempting
  <2>3. pub' \in PubRec
    BY <2>1, <2>2 DEF PubRec, Conns
  <2> QED
    BY <1>5, <2>2, <2>3 DEF PubRaise, PubKeeps, Typed
<1>6. CASE PubEnd
  BY <1>6 DEF PubEnd, PubKeeps, Typed, PubRec, Conns
<1>7. CASE PollConnect \/ Ack \/ Notice \/ PollReconnect
  <2>1. CASE PollConnect
    <3>1. poll' \in PollRec
      BY <2>1, ZenonT(60) DEF PollConnect, Typed, PollRec, Conns
    <3> QED
      BY <2>1, <3>1 DEF PollConnect, PollKeeps, Typed
  <2>2. CASE Ack
    BY <2>2 DEF Ack, PollKeeps, Typed, PollRec
  <2>3. CASE Notice
    BY <2>3 DEF Notice, PollKeeps, Typed, PollRec, Conns
  <2>4. CASE PollReconnect
    BY <2>4 DEF PollReconnect, PollKeeps, Typed, PollRec, Conns
  <2> QED
    BY <1>7, <2>1, <2>2, <2>3, <2>4
<1>8. CASE PollEnd
  BY <1>8 DEF PollEnd, Unacknowledged, PollKeeps, Typed, PollRec, Conns
<1>9. ASSUME NEW a \in ready, Deliver(a) PROVE Typed'
  BY <1>9, ZenonT(60) DEF Deliver, PollKeeps, Typed, PollRec
<1>10. ASSUME NEW a \in poll.buffer, Hand(a) PROVE Typed'
  BY <1>10 DEF Hand, PollKeeps, Typed, PollRec
<1>11. ASSUME NEW w \in Workers, AskStop(w) PROVE Typed'
  BY <1>11 DEF AskStop, Typed
<1>12. ASSUME NEW a \in requests, Answer(a) PROVE Typed'
  BY <1>12 DEF Answer, Typed
<1>13. CASE PubBreaks
  <2>1. pub' \in PubRec /\ UNCHANGED <<ready, poll>>
    BY <1>13 DEF PubBreaks, Typed, PubRec, Conns
  <2> QED
    BY <1>13, <2>1, BreakingTyped DEF PubBreaks, Typed, Workers
<1>14. CASE PollBreaks
  <2>1. poll' \in PollRec /\ ready' \in SUBSET Answers /\ UNCHANGED pub
    BY <1>14 DEF PollBreaks, Typed, PollRec, Conns
  <2> QED
    BY <1>14, <2>1, BreakingTyped DEF PollBreaks, Typed, Workers
<1>15. CASE UNCHANGED vars
  BY <1>15 DEF vars, Typed
<1> QED
  BY <1>1, <1>2, <1>3, <1>4, <1>5, <1>6, <1>7, <1>8, <1>9, <1>10, <1>11, <1>12, <1>13, <1>14,
     <1>15 DEF Next, PubRuns

-----------------------------------------------------------------------------
(* The two workers touch each other's state only through the broker. *)

PubQuiet == UNCHANGED <<copies, pub, report>> /\ breaks'["pub"] = breaks["pub"]
PollQuiet == UNCHANGED <<ready, poll, handed, twice>> /\ breaks'["poll"] = breaks["poll"]

PollSide ==
  \/ PollConnect \/ Ack \/ Notice \/ PollReconnect \/ PollEnd
  \/ \E a \in ready : Deliver(a)
  \/ \E a \in poll.buffer : Hand(a)
  \/ \E w \in Workers : AskStop(w)
  \/ \E a \in requests : Answer(a)
  \/ PollBreaks \/ UNCHANGED vars

LEMMA StepSides == [Next]_vars => PubRuns \/ PubBreaks \/ PollSide
  BY DEF Next, PollSide

LEMMA PollSideQuiet == Typed /\ PollSide => PubQuiet
<1> SUFFICES ASSUME Typed, PollSide PROVE PubQuiet
  OBVIOUS
<1>1. CASE PollConnect \/ Ack \/ Notice \/ PollReconnect \/ PollEnd
  BY <1>1 DEF PollConnect, Ack, Notice, PollReconnect, PollEnd, PollKeeps, PubQuiet
<1>2. CASE (\E a \in ready : Deliver(a)) \/ (\E a \in poll.buffer : Hand(a))
  BY <1>2 DEF Deliver, Hand, PollKeeps, PubQuiet
<1>3. CASE (\E w \in Workers : AskStop(w)) \/ (\E a \in requests : Answer(a)) \/ UNCHANGED vars
  BY <1>3 DEF AskStop, Answer, PubQuiet, vars
<1>4. CASE PollBreaks
  BY <1>4 DEF PollBreaks, Breaking, PubQuiet, Typed, Workers
<1> QED
  BY <1>1, <1>2, <1>3, <1>4 DEF PollSide

LEMMA PubSideQuiet == Typed /\ (PubRuns \/ PubBreaks) => PollQuiet
<1> SUFFICES ASSUME Typed, PubRuns \/ PubBreaks PROVE PollQuiet
  OBVIOUS
<1>1. CASE PubRuns
  BY <1>1 DEF PubRuns, PubConnect, PubReconnect, PubWrite, PubReturn, PubRaise, PubEnd, PubKeeps,
              PollQuiet
<1>2. CASE PubBreaks
  BY <1>2 DEF PubBreaks, Breaking, PollQuiet, Typed, Workers
<1> QED
  BY <1>1, <1>2

-----------------------------------------------------------------------------
(* The publish worker. *)

\* The facts about the list of requests that its proofs use.
LEMMA TodoFacts ==
  ASSUME Typed, pub.todo # << >>
  PROVE  /\ Len(pub.todo) \in Nat \ {0} /\ Head(pub.todo) = pub.todo[1]
         /\ Head(pub.todo) \in Tasks
         /\ \A i \in 1 .. Len(pub.todo) : pub.todo[i] \in Tasks
         /\ Len(Tail(pub.todo)) = Len(pub.todo) - 1
         /\ \A i \in 1 .. Len(pub.todo) - 1 : Tail(pub.todo)[i] = pub.todo[i + 1]
         /\ Tail(pub.todo) # << >> =>
              Len(pub.todo) >= 2 /\ Head(Tail(pub.todo)) = pub.todo[2]
<1>1. pub.todo \in Seq(Tasks)
  BY DEF Typed, PubRec
<1>2. /\ Tail(pub.todo) \in Seq(Tasks) /\ Len(pub.todo) \in Nat \ {0}
      /\ Len(Tail(pub.todo)) = Len(pub.todo) - 1
      /\ \A i \in 1 .. Len(pub.todo) - 1 : Tail(pub.todo)[i] = pub.todo[i + 1]
      /\ \A i \in 1 .. Len(pub.todo) : pub.todo[i] \in Tasks
      /\ Head(pub.todo) = pub.todo[1] /\ Head(pub.todo) \in Tasks
  BY <1>1, TailFacts
<1>3. ASSUME Tail(pub.todo) # << >>
      PROVE  Len(pub.todo) >= 2 /\ Head(Tail(pub.todo)) = pub.todo[2]
  <2>1. Len(Tail(pub.todo)) \in Nat \ {0} /\ Head(Tail(pub.todo)) = Tail(pub.todo)[1]
    BY <1>2, <1>3, TailFacts
  <2>2. Len(pub.todo) >= 2
    <3>1. \A n \in Nat, m \in Nat \ {0} : m = n - 1 => n >= 2
      OBVIOUS
    <3>2. Len(pub.todo) \in Nat /\ Len(Tail(pub.todo)) = Len(pub.todo) - 1
      BY <1>2
    <3> QED
      BY <2>1, <3>1, <3>2, Zenon
  <2>3. 1 \in 1 .. Len(pub.todo) - 1
    BY <1>2, <2>2
  <2> QED
    BY <1>2, <2>1, <2>2, <2>3
<1> QED
  BY <1>2, <1>3

\* What the end of an attempt leaves of a request that is given up or sent.
LEMMA AttemptedFacts ==
  ASSUME Typed, NEW verdict \in {"none", "published", "failed"}
  PROVE  LET next == Attempted(verdict)
         IN  /\ ~next.written /\ next.conn = pub.conn /\ next.run = pub.run
             /\ verdict = "none" => next.todo = pub.todo /\ next.tries = pub.tries + 1
             /\ verdict # "none" => next.todo = Tail(pub.todo) /\ next.tries = 0
  BY DEF Typed, PubRec, Attempted

\* One step of the publish worker, seen from its list of requests.
LEMMA ToSendStep == SafeInv /\ [Next]_vars => ToSend'
<1> SUFFICES ASSUME SafeInv, [Next]_vars PROVE ToSend'
  OBVIOUS
<1> USE DEF SafeInv
<1>1. CASE PubConnect \/ PubReconnect \/ PubEnd \/ PubBreaks
  <2>1. pub'.todo = pub.todo /\ UNCHANGED <<copies, report>>
    BY <1>1 DEF PubConnect, PubReconnect, PubEnd, PubBreaks, Breaking, Typed, PubRec
  <2> QED
    BY <2>1 DEF ToSend
<1>2. CASE PubWrite
  <2>1. /\ pub'.todo = pub.todo /\ report' = report /\ pub.todo # << >>
        /\ copies' = [copies EXCEPT ![Head(pub.todo)] = @ + 1]
    BY <1>2 DEF PubWrite, Attempting, Typed, PubRec
  <2>2. ASSUME NEW i \in 2 .. Len(pub.todo) PROVE copies'[pub.todo[i]] = 0
    <3>1. pub.todo[i] # Head(pub.todo) /\ pub.todo[i] \in Tasks
      BY <2>1, TodoFacts DEF ToSend
    <3> QED
      BY <2>1, <3>1 DEF ToSend, Typed
  <2> QED
    BY <2>1, <2>2 DEF ToSend
<1>3. ASSUME NEW verdict \in {"none", "published", "failed"}, Attempting,
             pub'.todo = Attempted(verdict).todo, Reported(verdict), copies' = copies
      PROVE  ToSend'
  <2>1. pub.todo # << >>
    BY <1>3 DEF Attempting
  <2>2. CASE verdict = "none"
    <3>1. pub'.todo = pub.todo
      BY <1>3, <2>2, AttemptedFacts
    <3>2. report' = report
      BY <1>3, <2>1, <2>2, TodoFacts DEF Reported, ToSend, Typed
    <3> QED
      BY <1>3, <3>1, <3>2 DEF ToSend
  <2>3. CASE verdict # "none"
    <3>1. pub'.todo = Tail(pub.todo)
      BY <1>3, <2>3, AttemptedFacts
    <3>2. \A i \in 1 .. Len(pub'.todo) :
            i + 1 \in 2 .. Len(pub.todo) /\ pub'.todo[i] = pub.todo[i + 1]
      BY <2>1, <3>1, TodoFacts
    <3>3. \A i \in 2 .. Len(pub.todo) : report'[pub.todo[i]] = "none"
      <4> TAKE i \in 2 .. Len(pub.todo)
      <4>1. pub.todo[i] # Head(pub.todo) /\ report[pub.todo[i]] = "none"
        BY <2>1, TodoFacts DEF ToSend
      <4> QED
        BY <1>3, <2>1, <4>1, TodoFacts DEF Reported, Typed
    <3>4. \A i \in 1 .. Len(pub'.todo) : report'[pub'.todo[i]] = "none"
      BY <3>2, <3>3
    <3>5. \A i \in 2 .. Len(pub'.todo) : copies'[pub'.todo[i]] = 0
      BY <1>3, <3>2 DEF ToSend
    <3>6. \A i, j \in 1 .. Len(pub'.todo) : pub'.todo[i] = pub'.todo[j] => i = j
      <4> TAKE i, j \in 1 .. Len(pub'.todo)
      <4>1. pub.todo[i + 1] = pub.todo[j + 1] => i + 1 = j + 1
        BY <2>1, <3>2, TodoFacts DEF ToSend
      <4> QED
        BY <3>2, <4>1
    <3> QED
      BY <3>4, <3>5, <3>6 DEF ToSend
  <2> QED
    BY <2>2, <2>3
<1>4. CASE PubReturn
  BY <1>3, <1>4 DEF PubReturn
<1>5. CASE PubRaise
  <2> DEFINE verdict == IF pub.tries + 1 < MaxTries THEN "none" ELSE "failed"
  <2>1. pub' = [Attempted(verdict) EXCEPT !.conn = "closed"]
    BY <1>5 DEF PubRaise
  <2>2. pub'.todo = Attempted(verdict).todo
    BY <2>1 DEF Attempted, Typed, PubRec
  <2> QED
    BY <1>3, <1>5, <2>2 DEF PubRaise
<1>6. CASE PollSide
  BY <1>6, PollSideQuiet DEF PubQuiet, ToSend
<1> QED
  BY <1>1, <1>2, <1>4, <1>5, <1>6, StepSides DEF PubRuns

\* With the attempts, the written copy and the breaks counted.
LEMMA InHandStep == SafeInv /\ [Next]_vars => InHand'
<1> SUFFICES ASSUME SafeInv, [Next]_vars PROVE InHand'
  OBVIOUS
<1> USE BrokerAssumption DEF SafeInv
<1>1. CASE PubConnect
  <2>1. /\ pub'.todo = pub.todo /\ pub'.tries = pub.tries /\ pub'.written = pub.written
        /\ copies' = copies /\ breaks' = breaks /\ pub'.conn \in {"open", pub.conn}
    BY <1>1 DEF PubConnect, PubKeeps, Typed, PubRec
  <2> QED
    BY <2>1 DEF InHand
<1>2. CASE PubReconnect
  <2>1. /\ pub'.todo = pub.todo /\ pub'.tries = pub.tries /\ pub'.written = pub.written
        /\ ~pub.written /\ copies' = copies /\ breaks' = breaks
    BY <1>2 DEF PubReconnect, PubKeeps, Typed, PubRec, InHand
  <2> QED
    BY <2>1 DEF InHand
<1>3. CASE PubWrite
  <2> DEFINE t == Head(pub.todo)
  <2>1. /\ pub'.todo = pub.todo /\ pub'.tries = pub.tries /\ pub'.written /\ ~pub.written
        /\ pub'.conn = "open" /\ breaks' = breaks /\ pub.todo # << >>
    BY <1>3 DEF PubWrite, PubKeeps, Attempting, Typed, PubRec
  <2>2. copies'[t] = copies[t] + 1 /\ copies[t] \in Nat
    BY <1>3, <2>1, TodoFacts DEF PubWrite, Typed
  <2>3. copies[t] <= pub.tries /\ pub.tries \in Nat
    BY <2>1 DEF InHand, Typed, PubRec
  <2> QED
    BY <2>1, <2>2, <2>3 DEF InHand
<1>4. ASSUME NEW verdict \in {"none", "published", "failed"}, Attempting,
             pub'.todo = Attempted(verdict).todo, pub'.tries = Attempted(verdict).tries,
             ~pub'.written, copies' = copies, breaks' = breaks,
             verdict = "none" => pub.conn # "open"
      PROVE  InHand'
  <2>1. pub.todo # << >>
    BY <1>4 DEF Attempting
  <2>2. CASE verdict = "none"
    <3>1. pub'.todo = pub.todo /\ pub'.tries = pub.tries + 1
      BY <1>4, <2>2, AttemptedFacts
    <3>2. copies[Head(pub.todo)] <= pub.tries + 1 /\ copies[Head(pub.todo)] <= breaks["pub"]
      BY <1>4, <2>1, <2>2, TodoFacts DEF InHand, Typed, PubRec
    <3>3. pub.tries + 1 \in Nat
      BY DEF Typed, PubRec
    <3> QED
      BY <1>4, <3>1, <3>2, <3>3 DEF InHand
  <2>3. CASE verdict # "none"
    <3>1. pub'.todo = Tail(pub.todo) /\ pub'.tries = 0
      BY <1>4, <2>3, AttemptedFacts
    <3>2. pub'.todo # << >> => copies[Head(pub'.todo)] = 0
      BY <2>1, <3>1, TodoFacts DEF ToSend
    <3>3. breaks["pub"] \in Nat
      BY DEF Typed, Workers
    <3> QED
      BY <1>4, <3>1, <3>2, <3>3 DEF InHand
  <2> QED
    BY <2>2, <2>3
<1>5. CASE PubReturn
  <2>1. pub' = Attempted("published") /\ Attempting /\ UNCHANGED <<copies, breaks>>
    BY <1>5 DEF PubReturn, PubKeeps
  <2>2. ~pub'.written
    BY <2>1, AttemptedFacts
  <2> QED
    BY <1>4, <2>1, <2>2
<1>6. CASE PubRaise
  <2> DEFINE verdict == IF pub.tries + 1 < MaxTries THEN "none" ELSE "failed"
  <2>1. pub' = [Attempted(verdict) EXCEPT !.conn = "closed"] /\ UNCHANGED <<copies, breaks>>
    BY <1>6 DEF PubRaise, PubKeeps
  <2>2. /\ pub'.todo = Attempted(verdict).todo /\ pub'.tries = Attempted(verdict).tries
        /\ ~pub'.written
    BY <2>1 DEF Attempted, Typed, PubRec
  <2> QED
    BY <1>4, <1>6, <2>1, <2>2 DEF PubRaise
<1>7. CASE PubEnd
  <2>1. /\ pub'.todo = pub.todo /\ pub'.tries = pub.tries /\ pub'.written = pub.written
        /\ copies' = copies /\ breaks' = breaks /\ ~pub.written
    BY <1>7 DEF PubEnd, PubKeeps, Attempting, Typed, PubRec, InHand
  <2> QED
    BY <2>1 DEF InHand
<1>8. CASE PubBreaks
  <2>1. /\ pub'.todo = pub.todo /\ pub'.tries = pub.tries /\ pub'.written = pub.written
        /\ copies' = copies /\ breaks'["pub"] = breaks["pub"] + 1 /\ pub'.conn = "broken"
    BY <1>8 DEF PubBreaks, Breaking, Typed, PubRec, Workers
  <2>2. pub.todo # << >> =>
          copies[Head(pub.todo)] \in Nat /\ copies[Head(pub.todo)] <= 1 + breaks["pub"]
    BY TodoFacts DEF SentOnce, Typed
  <2> QED
    BY <2>1, <2>2 DEF InHand, Typed, Workers
<1>9. CASE PollSide
  BY <1>9, PollSideQuiet DEF PubQuiet, InHand
<1> QED
  BY <1>1, <1>2, <1>3, <1>5, <1>6, <1>7, <1>8, <1>9, StepSides DEF PubRuns

LEMMA SentOnceStep == SafeInv /\ [Next]_vars => SentOnce'
<1> SUFFICES ASSUME SafeInv, [Next]_vars PROVE SentOnce'
  OBVIOUS
<1> USE DEF SafeInv
<1>1. CASE PubConnect \/ PubReconnect \/ PubEnd
  <2>1. UNCHANGED <<copies, report, breaks>> /\ pub'.conn \in {"none", "open", pub.conn}
    BY <1>1 DEF PubConnect, PubReconnect, PubEnd, PubKeeps, Typed, PubRec
  <2> QED
    BY <2>1 DEF SentOnce
<1>2. CASE PubWrite
  <2> DEFINE t == Head(pub.todo)
  <2>1. /\ pub.todo # << >> /\ pub'.conn = "open" /\ UNCHANGED <<report, breaks>> /\ ~pub.written
        /\ copies' = [copies EXCEPT ![t] = @ + 1]
    BY <1>2 DEF PubWrite, PubKeeps, Attempting, Typed, PubRec
  <2>2. t \in Tasks /\ report[t] = "none" /\ copies[t] <= breaks["pub"]
    BY <2>1, TodoFacts DEF ToSend, InHand
  <2>3. copies[t] \in Nat /\ breaks["pub"] \in Nat
    BY <2>2 DEF Typed, Workers
  <2> QED
    BY <2>1, <2>2, <2>3 DEF SentOnce, Typed
<1>3. CASE PubReturn
  <2> DEFINE t == Head(pub.todo)
  <2>1. /\ pub.todo # << >> /\ UNCHANGED <<copies, breaks>> /\ (pub.written \/ pub.conn = "broken")
        /\ report' = [report EXCEPT ![t] = "published"] /\ pub'.conn = pub.conn
    BY <1>3, AttemptedFacts DEF PubReturn, PubKeeps, Attempting, Reported
  <2>2. t \in Tasks
    BY <2>1, TodoFacts
  <2>3. breaks["pub"] = 0 => copies[t] = 1
    BY <2>1, <2>2 DEF SentOnce, InHand, Typed
  <2> QED
    BY <2>1, <2>2, <2>3 DEF SentOnce, Typed
<1>4. CASE PubRaise
  <2> DEFINE t == Head(pub.todo)
             verdict == IF pub.tries + 1 < MaxTries THEN "none" ELSE "failed"
  <2>1. /\ pub.todo # << >> /\ UNCHANGED <<copies, breaks>> /\ pub.conn \in {"broken", "closed"}
        /\ report' = [report EXCEPT ![t] = verdict]
        /\ pub' = [Attempted(verdict) EXCEPT !.conn = "closed"]
    BY <1>4 DEF PubRaise, PubKeeps, Attempting, Reported
  <2>2. pub'.conn = "closed"
    BY <2>1 DEF Attempted, Typed, PubRec
  <2>3. t \in Tasks /\ copies[t] <= breaks["pub"]
    BY <2>1, TodoFacts DEF InHand
  <2>4. breaks["pub"] = 0 => copies[t] = 0
    BY <2>3 DEF Typed
  <2> QED
    BY <2>1, <2>2, <2>3, <2>4 DEF SentOnce, Typed
<1>5. CASE PubBreaks
  <2>1. UNCHANGED <<copies, report>> /\ breaks'["pub"] = breaks["pub"] + 1 /\ breaks["pub"] \in Nat
    BY <1>5 DEF PubBreaks, Breaking, Typed, Workers
  <2> QED
    BY <2>1 DEF SentOnce, Typed
<1>6. CASE PollSide
  BY <1>6, PollSideQuiet DEF PubQuiet, SentOnce
<1> QED
  BY <1>1, <1>2, <1>3, <1>4, <1>5, <1>6, StepSides DEF PubRuns

-----------------------------------------------------------------------------
(* The polling worker, and the copies it has to do with. *)

\* What the publish worker does to the request queue.
LEMMA CopiesStep ==
  ASSUME SafeInv, [Next]_vars
  PROVE  \/ copies' = copies
         \/ /\ pub.todo # << >> /\ Head(pub.todo) \in Tasks
            /\ copies' = [copies EXCEPT ![Head(pub.todo)] = @ + 1]
            /\ requests' = requests \cup {<<Head(pub.todo), copies[Head(pub.todo)] + 1>>}
            /\ UNCHANGED <<ready, poll, handed, twice>> /\ breaks'["poll"] = breaks["poll"]
<1> USE DEF SafeInv
<1>1. CASE PubConnect \/ PubReconnect \/ PubReturn \/ PubRaise \/ PubEnd \/ PubBreaks
  BY <1>1 DEF PubConnect, PubReconnect, PubReturn, PubRaise, PubEnd, PubBreaks, Breaking
<1>2. CASE PubWrite
  <2>1. pub.todo # << >>
    BY <1>2 DEF PubWrite, Attempting
  <2> QED
    BY <1>2, <2>1, TodoFacts DEF PubWrite, PubKeeps
<1>3. CASE PollSide
  BY <1>3, PollSideQuiet DEF PubQuiet
<1> QED
  BY <1>1, <1>2, <1>3, StepSides DEF PubRuns

LEMMA PubSideRequests ==
  ASSUME PubRuns \/ PubBreaks, copies' = copies, SafeInv
  PROVE  requests' = requests
<1>1. CASE PubWrite
  <2>1. pub.todo # << >>
    BY <1>1 DEF PubWrite, Attempting
  <2>2. copies[Head(pub.todo)] \in Nat /\ copies'[Head(pub.todo)] = copies[Head(pub.todo)] + 1
    BY <1>1, <2>1, TodoFacts DEF PubWrite, SafeInv, Typed
  <2> QED
    BY <2>2
<1> QED
  BY <1>1 DEF PubRuns, PubConnect, PubReconnect, PubReturn, PubRaise, PubEnd, PubBreaks, Breaking

\* An answer moves from the request queue to the result queue, to the consumer and
\* to the GUI thread; nothing appears from elsewhere.
LEMMA NothingAppears ==
  ASSUME SafeInv, PollSide
  PROVE  requests' \cup ready' \cup handed' \cup poll'.buffer
           \subseteq requests \cup ready \cup handed \cup poll.buffer
<1> USE DEF SafeInv
<1>1. CASE PollConnect \/ Ack \/ Notice \/ PollReconnect
  <2>1. poll'.buffer \subseteq poll.buffer
    BY <1>1, ZenonT(60) DEF PollConnect, Ack, Notice, PollReconnect, Typed, PollRec
  <2>2. UNCHANGED <<requests, ready, handed>>
    BY <1>1 DEF PollConnect, Ack, Notice, PollReconnect, PollKeeps
  <2> QED
    BY <2>1, <2>2
<1>2. CASE PollEnd
  BY <1>2 DEF PollEnd, Unacknowledged, PollKeeps, Typed, PollRec
<1>3. ASSUME NEW a \in ready, Deliver(a)
      PROVE  requests' \cup ready' \cup handed' \cup poll'.buffer
               \subseteq requests \cup ready \cup handed \cup poll.buffer
  BY <1>3 DEF Deliver, PollKeeps, Typed, PollRec
<1>4. ASSUME NEW a \in poll.buffer, Hand(a)
      PROVE  requests' \cup ready' \cup handed' \cup poll'.buffer
               \subseteq requests \cup ready \cup handed \cup poll.buffer
  BY <1>4 DEF Hand, PollKeeps, Typed, PollRec
<1>5. CASE (\E w \in Workers : AskStop(w)) \/ (\E a \in requests : Answer(a)) \/ UNCHANGED vars
  BY <1>5 DEF AskStop, Answer, vars
<1>6. CASE PollBreaks
  BY <1>6 DEF PollBreaks, Breaking, Typed, PollRec
<1> QED
  BY <1>1, <1>2, <1>3, <1>4, <1>5, <1>6 DEF PollSide

LEMMA GenuineStep == SafeInv /\ [Next]_vars => Genuine'
<1> SUFFICES ASSUME SafeInv, [Next]_vars PROVE Genuine'
  OBVIOUS
<1> USE DEF SafeInv
<1> DEFINE all == requests \cup ready \cup handed \cup poll.buffer
<1>1. CASE copies' = copies
  <2>1. all' \subseteq all
    BY <1>1, NothingAppears, PubSideRequests, PubSideQuiet, StepSides DEF PollQuiet
  <2> QED
    BY <1>1, <2>1 DEF Genuine, Sent
<1>2. CASE copies' # copies
  <2> DEFINE t == Head(pub.todo)
  <2>1. /\ t \in Tasks /\ copies' = [copies EXCEPT ![t] = @ + 1]
        /\ all' = all \cup {<<t, copies[t] + 1>>}
    BY <1>2, CopiesStep
  <2>2. \A u \in Tasks : copies[u] \in Nat /\ copies'[u] \in {copies[u], copies[u] + 1}
    BY <2>1 DEF Typed
  <2>3. ASSUME NEW a \in all PROVE a[2] \in 1 .. copies'[a[1]]
    <3>1. a \in Tasks \X Nat /\ a[2] \in 1 .. copies[a[1]]
      BY <2>3 DEF Genuine, Sent, Typed, Answers, PollRec
    <3> QED
      BY <2>2, <3>1 DEF Sent
  <2>4. copies[t] + 1 \in 1 .. copies'[t]
    BY <2>1, <2>2 DEF Typed
  <2> QED
    BY <2>1, <2>3, <2>4 DEF Genuine, Sent
<1> QED
  BY <1>1, <1>2

LEMMA LinkedStep == SafeInv /\ [Next]_vars => Linked'
<1> SUFFICES ASSUME SafeInv, [Next]_vars PROVE Linked'
  OBVIOUS
<1> USE DEF SafeInv
<1>1. CASE PollConnect \/ Ack \/ Notice \/ PollReconnect \/ PollEnd
  <2>1. UNCHANGED <<handed, twice>>
    BY <1>1 DEF PollConnect, Ack, Notice, PollReconnect, PollEnd
  <2>2. poll'.acking \in {poll.acking, Nothing}
    BY <1>1 DEF PollConnect, Ack, Notice, PollReconnect, PollEnd, Typed, PollRec
  <2>3. poll'.consumer => poll'.conn = "open"
    <3>1. CASE PollConnect
      BY <3>1 DEF PollConnect, Linked, Typed, PollRec
    <3>2. CASE Ack \/ Notice \/ PollReconnect \/ PollEnd
      BY <3>2 DEF Ack, Notice, PollReconnect, PollEnd, Linked, Typed, PollRec
    <3> QED
      BY <1>1, <3>1, <3>2
  <2> QED
    BY <2>1, <2>2, <2>3 DEF Linked
<1>2. ASSUME NEW a \in ready, Deliver(a) PROVE Linked'
  BY <1>2 DEF Deliver, PollKeeps, Linked, Typed, PollRec
<1>3. ASSUME NEW a \in poll.buffer, Hand(a) PROVE Linked'
  BY <1>3 DEF Hand, PollKeeps, Linked, Typed, PollRec
<1>4. CASE (\E w \in Workers : AskStop(w)) \/ (\E a \in requests : Answer(a)) \/ UNCHANGED vars
  BY <1>4 DEF AskStop, Answer, vars, Linked
<1>5. CASE PollBreaks
  BY <1>5 DEF PollBreaks, Breaking, Linked, Typed, PollRec
<1>6. CASE PubRuns \/ PubBreaks
  BY <1>6, PubSideQuiet DEF PollQuiet, Linked
<1> QED
  BY <1>1, <1>2, <1>3, <1>4, <1>5, <1>6, StepSides DEF PollSide

\* Whoever holds an answer, it is passed on, taken back or handed over.
LEMMA NothingVanishes ==
  ASSUME SafeInv, PollSide
  PROVE  requests \cup ready \cup Unacknowledged \cup handed
           \subseteq requests' \cup ready' \cup Unacknowledged' \cup handed'
<1> USE DEF SafeInv
<1> DEFINE Kept == requests \cup ready \cup Unacknowledged \cup handed
                     \subseteq requests' \cup ready' \cup Unacknowledged' \cup handed'
<1>1. CASE PollConnect \/ Notice \/ PollReconnect
  <2>1. UNCHANGED <<requests, ready, handed>>
    BY <1>1 DEF PollConnect, Notice, PollReconnect, PollKeeps
  <2>2. Unacknowledged \subseteq Unacknowledged'
    <3>1. CASE PollConnect
      BY <3>1 DEF PollConnect, Unacknowledged, Typed, PollRec
    <3>2. CASE Notice \/ PollReconnect
      BY <3>2 DEF Notice, PollReconnect, Unacknowledged
    <3> QED
      BY <1>1, <3>1, <3>2
  <2> QED
    BY <2>1, <2>2
<1>2. CASE Ack
  <2>1. UNCHANGED <<requests, ready, handed>> /\ poll.acking \in handed
    BY <1>2 DEF Ack, PollKeeps, Linked
  <2>2. poll'.conn = poll.conn /\ poll'.buffer = poll.buffer \ {poll.acking}
    BY <1>2 DEF Ack, Typed, PollRec
  <2> QED
    BY <2>1, <2>2 DEF Unacknowledged
<1>3. CASE PollEnd
  BY <1>3 DEF PollEnd, PollKeeps
<1>4. ASSUME NEW a \in ready, Deliver(a) PROVE Kept
  <2>1. /\ UNCHANGED <<requests, handed>> /\ ready' = ready \ {a}
        /\ poll.conn = "open" /\ poll'.conn = "open" /\ poll'.buffer = poll.buffer \cup {a}
    BY <1>4 DEF Deliver, PollKeeps, Linked, Typed, PollRec
  <2> QED
    BY <2>1 DEF Unacknowledged
<1>5. ASSUME NEW a \in poll.buffer, Hand(a) PROVE Kept
  <2>1. /\ UNCHANGED <<requests, ready>> /\ handed \subseteq handed'
        /\ poll'.conn = poll.conn /\ poll'.buffer = poll.buffer
    BY <1>5 DEF Hand, PollKeeps, Typed, PollRec
  <2> QED
    BY <2>1 DEF Unacknowledged
<1>6. CASE (\E w \in Workers : AskStop(w)) \/ (\E a \in requests : Answer(a)) \/ UNCHANGED vars
  BY <1>6 DEF AskStop, Answer, vars, Unacknowledged
<1>7. CASE PollBreaks
  BY <1>7 DEF PollBreaks, Breaking, Unacknowledged
<1> QED
  BY <1>1, <1>2, <1>3, <1>4, <1>5, <1>6, <1>7 DEF PollSide

LEMMA KeptStep == SafeInv /\ [Next]_vars => AnswerKept'
<1> SUFFICES ASSUME SafeInv, [Next]_vars,
                    NEW t \in Tasks, NEW n \in 1 .. copies'[t]
             PROVE  <<t, n>> \in (requests \cup ready \cup Unacknowledged \cup handed)'
  BY DEF AnswerKept
<1> USE DEF SafeInv
<1>1. CASE copies' = copies
  <2>1. CASE PollSide
    BY <1>1, <2>1, NothingVanishes DEF AnswerKept
  <2>2. CASE PubRuns \/ PubBreaks
    BY <1>1, <2>2, PubSideRequests, PubSideQuiet DEF AnswerKept, PollQuiet, Unacknowledged
  <2> QED
    BY <2>1, <2>2, StepSides
<1>2. CASE copies' # copies
  <2> DEFINE u == Head(pub.todo)
  <2>1. /\ u \in Tasks /\ copies' = [copies EXCEPT ![u] = @ + 1] /\ copies[u] \in Nat
        /\ requests' = requests \cup {<<u, copies[u] + 1>>}
        /\ ready' = ready /\ handed' = handed /\ poll' = poll
    BY <1>2, CopiesStep DEF Typed
  <2>2. n \in 1 .. copies[t] \/ (t = u /\ n = copies[u] + 1)
    BY <2>1 DEF Typed
  <2> QED
    BY <2>1, <2>2 DEF AnswerKept, Unacknowledged
<1> QED
  BY <1>1, <1>2

\* As long as the poll connection has not broken, an answer is in one place.
LEMMA HandedOnceStep == SafeInv /\ [Next]_vars => HandedOnce'
<1> SUFFICES ASSUME SafeInv, [Next]_vars, breaks'["poll"] = 0 PROVE HandedOnce'
  BY DEF HandedOnce
<1> USE BrokerAssumption DEF SafeInv
<1>1. CASE PubRuns \/ PubBreaks
  <2>1. /\ UNCHANGED <<ready, poll, handed, twice>> /\ breaks["poll"] = 0
    BY <1>1, PubSideQuiet DEF PollQuiet
  <2>2. CASE copies' = copies
    BY <1>1, <2>1, <2>2, PubSideRequests DEF HandedOnce
  <2>3. CASE copies' # copies
    <3> DEFINE t == Head(pub.todo)
               new == <<t, copies[t] + 1>>
    <3>1. t \in Tasks /\ copies[t] \in Nat /\ requests' = requests \cup {new}
      BY <2>3, CopiesStep DEF Typed
    <3>2. new \notin ready \cup poll.buffer \cup handed
      BY <3>1 DEF Genuine, Sent
    <3> QED
      BY <2>1, <3>1, <3>2 DEF HandedOnce
  <2> QED
    BY <2>2, <2>3
<1>2. CASE PollBreaks
  BY <1>2 DEF PollBreaks, Breaking, Typed, Workers
<1>3. ASSUME PollSide, ~PollBreaks PROVE HandedOnce'
  <2>1. breaks["poll"] = 0
    BY <1>3 DEF PollSide, PollConnect, Ack, Notice, PollReconnect, PollEnd, Deliver, Hand, PollKeeps,
                AskStop, Answer, vars
  <2>2. /\ poll.conn \in {"none", "open"} /\ twice = {}
        /\ poll.conn = "none" => poll.buffer = {} /\ poll.acking = Nothing
        /\ requests \cap (ready \cup poll.buffer \cup handed) = {}
        /\ ready \cap (poll.buffer \cup handed) = {}
        /\ poll.buffer \cap handed \subseteq {poll.acking}
    BY <2>1 DEF HandedOnce
  <2>3. CASE PollConnect
    <3>1. /\ poll'.conn \in {poll.conn, "open"} /\ poll'.buffer = poll.buffer
          /\ poll'.acking = poll.acking /\ UNCHANGED <<requests, ready, handed, twice>>
      BY <2>3, ZenonT(60) DEF PollConnect, PollKeeps, Typed, PollRec
    <3> QED
      BY <2>2, <3>1 DEF HandedOnce
  <2>4. CASE Ack
    <3>1. /\ poll'.conn = poll.conn /\ poll'.buffer = poll.buffer \ {poll.acking}
          /\ poll'.acking = Nothing /\ UNCHANGED <<requests, ready, handed, twice>>
      BY <2>4 DEF Ack, PollKeeps, Typed, PollRec
    <3> QED
      BY <2>2, <3>1 DEF HandedOnce
  <2>5. CASE Notice \/ PollReconnect
    BY <2>2, <2>5 DEF Notice, PollReconnect
  <2>6. CASE PollEnd
    <3>1. /\ poll'.conn = "none" /\ poll'.buffer = {} /\ poll'.acking = Nothing
          /\ ready' = ready \cup Unacknowledged /\ poll.acking = Nothing
          /\ UNCHANGED <<requests, handed, twice>>
      BY <2>6 DEF PollEnd, PollKeeps, Typed, PollRec
    <3>2. Nothing \notin handed /\ Unacknowledged \subseteq poll.buffer
      BY DEF Typed, Answers, Unacknowledged
    <3>3. poll.buffer \cap handed = {}
      BY <2>2, <3>1, <3>2
    <3> QED
      BY <2>2, <3>1, <3>2, <3>3 DEF HandedOnce
  <2>7. ASSUME NEW a \in ready, Deliver(a) PROVE HandedOnce'
    <3>1. /\ poll'.conn = poll.conn /\ poll'.buffer = poll.buffer \cup {a}
          /\ poll'.acking = poll.acking /\ ready' = ready \ {a} /\ poll.conn = "open"
          /\ UNCHANGED <<requests, handed, twice>>
      BY <2>7 DEF Deliver, PollKeeps, Typed, PollRec, Linked
    <3> QED
      BY <2>2, <2>7, <3>1 DEF HandedOnce
  <2>8. ASSUME NEW a \in poll.buffer, Hand(a) PROVE HandedOnce'
    <3>1. /\ poll'.conn = poll.conn /\ poll'.buffer = poll.buffer /\ poll'.acking = a
          /\ poll.acking = Nothing /\ handed' = handed \cup {a}
          /\ twice' = twice \cup ({a} \cap handed) /\ UNCHANGED <<requests, ready>>
      BY <2>8 DEF Hand, PollKeeps, Typed, PollRec
    <3>2. a \notin handed
      BY <2>2, <2>8, <3>1 DEF Typed, Answers
    <3>3. poll.buffer \cap handed = {}
      BY <2>2, <3>1 DEF Typed, Answers
    <3> QED
      BY <2>2, <2>8, <3>1, <3>2, <3>3 DEF HandedOnce
  <2>9. CASE \E w \in Workers : AskStop(w)
    BY <2>2, <2>9 DEF AskStop, HandedOnce
  <2>10. CASE \E a \in requests : Answer(a)
    BY <2>2, <2>10 DEF Answer, HandedOnce
  <2>11. CASE UNCHANGED vars
    BY <2>2, <2>11 DEF vars, HandedOnce
  <2> QED
    BY <1>3, <2>3, <2>4, <2>5, <2>6, <2>7, <2>8, <2>9, <2>10, <2>11 DEF PollSide
<1> QED
  BY <1>1, <1>2, <1>3, StepSides

-----------------------------------------------------------------------------
LEMMA SafeInvariant == Spec => []SafeInv
<1>1. SafeInv /\ [Next]_vars => SafeInv'
  BY TypedStep, GenuineStep, LinkedStep, ToSendStep, InHandStep, SentOnceStep, HandedOnceStep,
     KeptStep DEF SafeInv
<1> QED
  BY InitSafe, <1>1, PTL DEF Spec

\* Every variable has its type, no request is attempted more than MaxTries times,
\* and no answer is to a copy that was not sent.
THEOREM TypeCorrect == Spec => []TypeOK
<1>1. SafeInv => TypeOK
  BY DEF SafeInv, Typed, Genuine, Sent, Linked, TypeOK, PubRec, PollRec
<1> QED
  BY SafeInvariant, <1>1, PTL

\* No answer is lost between the broker and the GUI thread, wherever the
\* connection breaks or the worker is stopped (AnswerKept).
THEOREM AnswersAreKept == Spec => []AnswerKept
<1>1. SafeInv => AnswerKept
  BY DEF SafeInv
<1> QED
  BY SafeInvariant, <1>1, PTL

\* Without a break every publication and every answer happens once and as it was
\* reported; each break makes for one more copy at most (OnceOverGoodLinks).
THEOREM OnceUnlessBroken == Spec => []OnceOverGoodLinks
<1>1. SafeInv => OnceOverGoodLinks
  BY DEF SafeInv, SentOnce, HandedOnce, OnceOverGoodLinks
<1> QED
  BY SafeInvariant, <1>1, PTL
=============================================================================
