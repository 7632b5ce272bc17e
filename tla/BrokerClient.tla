---------------------------- MODULE BrokerClient ----------------------------
(***************************************************************************)
(* RabbitMQClient under its two users: a publish worker sends its requests *)
(* and a polling worker consumes the answers, each over a connection of    *)
(* its own, which may break at any time and need not be noticed at once.   *)
(* Behind the broker the external image workers answer the requests.       *)
(***************************************************************************)
EXTENDS Integers, Sequences, FiniteSets

CONSTANTS Tasks,
          Batch,     \* the requests the publish worker was given, in order
          Nothing,   \* no answer
          MaxTries,  \* publish.max_publish_retries
          Prefetch,  \* publish.max_messages_per_poll
          MaxBreaks  \* bound: how often one client's connection breaks

ASSUME BrokerAssumption ==
  /\ Batch \in Seq(Tasks)
  /\ \A i, j \in DOMAIN Batch : Batch[i] = Batch[j] => i = j
  /\ MaxTries \in Nat \ {0} /\ Prefetch \in Nat \ {0} /\ MaxBreaks \in Nat
  /\ Nothing \notin Tasks \X Nat

VARIABLES copies,    \* how often a request has reached the broker
          requests,  \* the request queue: copies no image worker has answered
          ready,     \* the result queue, less what a consumer was given
          pub,       \* the publish worker and its client
          report,    \* what it reported of each request
          poll,      \* the polling worker and its client
          handed,    \* the answers passed to the GUI thread
          twice,     \* those passed to it more than once
          stop,      \* _stop_requested of the two workers
          breaks     \* how often each connection broke

vars == <<copies, requests, ready, pub, report, poll, handed, twice, stop, breaks>>
Workers == {"pub", "poll"}

\* A connection: none yet or any more, open, broken and taken to be open, or
\* known to be closed.
Conns == {"none", "open", "broken", "closed"}

Init ==
  /\ copies = [t \in Tasks |-> 0] /\ requests = {} /\ ready = {}
  /\ handed = {} /\ twice = {} /\ report = [t \in Tasks |-> "none"]
  /\ pub = [run |-> "connecting", conn |-> "none", todo |-> Batch, tries |-> 0,
            written |-> FALSE]
  /\ poll = [run |-> "connecting", conn |-> "none", buffer |-> {}, acking |-> Nothing,
             consumer |-> FALSE]
  /\ stop = [w \in Workers |-> FALSE] /\ breaks = [w \in Workers |-> 0]

-----------------------------------------------------------------------------
(* The publish worker: only basic_publish without publisher confirms. *)

PubKeeps == UNCHANGED <<ready, poll, handed, twice, stop, breaks>>

\* connect and declare_result_queue.
PubConnect ==
  /\ pub.run = "connecting" /\ PubKeeps /\ UNCHANGED <<copies, requests, report>>
  /\ \/ pub' = [pub EXCEPT !.run = "sending", !.conn = "open"]
     \/ pub' = [pub EXCEPT !.run = "done"]

\* Between two requests the worker looks at the stop flag, between attempts not.
Attempting == pub.run = "sending" /\ pub.todo # << >>
              /\ (~stop["pub"] \/ pub.tries > 0 \/ pub.written)

\* _ensure_connected: only a connection known to be closed is opened again.
PubReconnect ==
  /\ Attempting /\ pub.conn = "closed" /\ pub' = [pub EXCEPT !.conn = "open"]
  /\ PubKeeps /\ UNCHANGED <<copies, requests, report>>

PubWrite ==
  /\ Attempting /\ pub.conn = "open" /\ ~pub.written
  /\ LET t == Head(pub.todo)
     IN  /\ copies' = [copies EXCEPT ![t] = @ + 1]
         /\ requests' = requests \cup {<<t, copies[t] + 1>>}
  /\ pub' = [pub EXCEPT !.written = TRUE] /\ PubKeeps /\ UNCHANGED report

\* basic_publish returns, or raises; the attempts are over (verdict) or not.
Attempted(verdict) ==
  IF verdict = "none" THEN [pub EXCEPT !.written = FALSE, !.tries = @ + 1]
  ELSE [pub EXCEPT !.written = FALSE, !.tries = 0, !.todo = Tail(@)]
Reported(verdict) == report' = [report EXCEPT ![Head(pub.todo)] = verdict]

\* Mutant: an attempt that went well does not end the attempts.
ReturnAndRetry ==
  /\ Attempting /\ (pub.written \/ pub.conn = "broken")
  /\ LET verdict == IF pub.tries + 1 < MaxTries THEN "none" ELSE "published"
     IN  pub' = Attempted(verdict) /\ Reported(verdict)
  /\ PubKeeps /\ UNCHANGED <<copies, requests>>

\* Into a broken connection that nobody has noticed a request is written too.
PubReturn ==
  /\ Attempting /\ (pub.written \/ pub.conn = "broken")
  /\ pub' = Attempted("published") /\ Reported("published")
  /\ PubKeeps /\ UNCHANGED <<copies, requests>>

PubRaise ==
  /\ Attempting /\ pub.conn \in {"broken", "closed"}
  /\ LET verdict == IF pub.tries + 1 < MaxTries THEN "none" ELSE "failed"
     IN  /\ pub' = [Attempted(verdict) EXCEPT !.conn = "closed"]
         /\ Reported(verdict)
  /\ PubKeeps /\ UNCHANGED <<copies, requests>>

PubEnd ==
  /\ pub.run = "sending" /\ ~Attempting
  /\ pub' = [pub EXCEPT !.run = "done", !.conn = "none"]
  /\ PubKeeps /\ UNCHANGED <<copies, requests, report>>

PubRuns == PubConnect \/ PubReconnect \/ PubWrite \/ PubReturn \/ PubRaise \/ PubEnd

-----------------------------------------------------------------------------
(* The polling worker: manual acknowledgement, one at a time. *)

PollKeeps == UNCHANGED <<copies, requests, pub, report, stop, breaks>>

\* connect, declare_result_queue and start_result_consumer.
PollConnect ==
  /\ poll.run = "connecting" /\ PollKeeps /\ UNCHANGED <<ready, handed, twice>>
  /\ \/ poll' = [poll EXCEPT !.run = "pumping", !.conn = "open", !.consumer = TRUE]
     \/ poll' = [poll EXCEPT !.run = "done"]

\* The broker gives the consumer up to Prefetch answers it has not acknowledged.
Deliver(a) ==
  /\ poll.consumer /\ a \in ready /\ Cardinality(poll.buffer) < Prefetch
  /\ ready' = ready \ {a} /\ poll' = [poll EXCEPT !.buffer = @ \cup {a}]
  /\ PollKeeps /\ UNCHANGED <<handed, twice>>

\* pump_events runs the callback, which emits the answer to the GUI thread.
Hand(a) ==
  /\ poll.run = "pumping" /\ a \in poll.buffer /\ poll.acking = Nothing
  /\ poll' = [poll EXCEPT !.acking = a]
  /\ handed' = handed \cup {a} /\ twice' = twice \cup ({a} \cap handed)
  /\ PollKeeps /\ UNCHANGED ready

\* Mutant: nothing is acknowledged.
AckForgotten ==
  /\ poll.acking # Nothing /\ poll' = [poll EXCEPT !.acking = Nothing]
  /\ PollKeeps /\ UNCHANGED <<ready, handed, twice>>

\* Over a broken connection the acknowledgement reaches nobody.
Ack ==
  /\ poll.acking # Nothing
  /\ poll' = [poll EXCEPT !.buffer = @ \ {poll.acking}, !.acking = Nothing]
  /\ PollKeeps /\ UNCHANGED <<ready, handed, twice>>

\* The loop logs what pump_events raises and goes on.
Notice ==
  /\ poll.conn = "broken"
  /\ poll' = [poll EXCEPT !.conn = "closed", !.buffer = {}, !.acking = Nothing]
  /\ PollKeeps /\ UNCHANGED <<ready, handed, twice>>

\* _ensure_connected of the next pump: the new connection has no consumer.
PollReconnect ==
  /\ poll.run = "pumping" /\ poll.conn = "closed"
  /\ poll' = [poll EXCEPT !.conn = "open"]
  /\ PollKeeps /\ UNCHANGED <<ready, handed, twice>>

Unacknowledged == IF poll.conn = "open" THEN poll.buffer ELSE {}

\* Mutant: what was prefetched is acknowledged on leaving.
PollEndAcking ==
  /\ poll.run = "pumping" /\ stop["poll"] /\ poll.acking = Nothing
  /\ poll' = [poll EXCEPT !.run = "done", !.conn = "none", !.buffer = {}, !.consumer = FALSE]
  /\ PollKeeps /\ UNCHANGED <<ready, handed, twice>>

\* Mutant: the loop ends only with a healthy connection.
PollEndConnected ==
  /\ poll.run = "pumping" /\ stop["poll"] /\ poll.acking = Nothing /\ poll.conn = "open"
  /\ ready' = ready \cup Unacknowledged
  /\ poll' = [poll EXCEPT !.run = "done", !.conn = "none", !.buffer = {}, !.consumer = FALSE]
  /\ PollKeeps /\ UNCHANGED <<handed, twice>>

\* stop_result_consumer and close.
PollEnd ==
  /\ poll.run = "pumping" /\ stop["poll"] /\ poll.acking = Nothing
  /\ ready' = ready \cup Unacknowledged
  /\ poll' = [poll EXCEPT !.run = "done", !.conn = "none", !.buffer = {}, !.consumer = FALSE]
  /\ PollKeeps /\ UNCHANGED <<handed, twice>>

-----------------------------------------------------------------------------
(* The controller, the image workers and the network. *)

AskStop(w) ==
  /\ ~stop[w] /\ stop' = [stop EXCEPT ![w] = TRUE]
  /\ UNCHANGED <<copies, requests, ready, pub, report, poll, handed, twice, breaks>>

Answer(a) ==
  /\ a \in requests /\ requests' = requests \ {a} /\ ready' = ready \cup {a}
  /\ UNCHANGED <<copies, pub, report, poll, handed, twice, stop, breaks>>

Breaking(w) ==
  /\ breaks[w] < MaxBreaks /\ breaks' = [breaks EXCEPT ![w] = @ + 1]
  /\ UNCHANGED <<copies, requests, report, handed, twice, stop>>

PubBreaks ==
  /\ pub.conn = "open" /\ Breaking("pub") /\ pub' = [pub EXCEPT !.conn = "broken"]
  /\ UNCHANGED <<ready, poll>>

\* The broker drops the consumer and takes back what was not acknowledged.
PollBreaks ==
  /\ poll.conn = "open" /\ Breaking("poll") /\ ready' = ready \cup poll.buffer
  /\ poll' = [poll EXCEPT !.conn = "broken", !.consumer = FALSE] /\ UNCHANGED pub

Next ==
  \/ PubRuns
  \/ PollConnect \/ Ack \/ Notice \/ PollReconnect \/ PollEnd
  \/ \E a \in ready : Deliver(a)
  \/ \E a \in poll.buffer : Hand(a)
  \/ \E w \in Workers : AskStop(w)
  \/ \E a \in requests : Answer(a)
  \/ PubBreaks \/ PollBreaks

Spec == Init /\ [][Next]_vars

(***************************************************************************)
(* Fairness: the broker delivers and both threads go on with their loops.  *)
(* That a connection can be opened again, that requests are answered and   *)
(* that a worker is told to stop is not assumed.                           *)
(***************************************************************************)
FairSpec ==
  /\ Spec /\ WF_vars(PubRuns) /\ WF_vars(PollConnect) /\ WF_vars(Ack) /\ WF_vars(Notice)
  /\ WF_vars(PollEnd)
  /\ WF_vars(\E a \in ready : Deliver(a)) /\ WF_vars(\E a \in poll.buffer : Hand(a))

-----------------------------------------------------------------------------
(* Properties. *)

\* Every variable has its type; a request is attempted at most MaxTries times.
TypeOK ==
  /\ copies \in [Tasks -> 0 .. MaxTries]
  /\ \A a \in requests \cup ready \cup handed \cup poll.buffer : a[2] \in 1 .. copies[a[1]]
  /\ pub.run \in {"connecting", "sending", "done"} /\ pub.conn \in Conns
  /\ pub.tries \in 0 .. MaxTries - 1 /\ pub.written \in BOOLEAN
  /\ report \in [Tasks -> {"none", "published", "failed"}]
  /\ poll.run \in {"connecting", "pumping", "done"} /\ poll.conn \in Conns
  /\ poll.consumer => poll.conn = "open"
  /\ twice \subseteq handed

\* No answer is lost between the broker and the GUI thread: every copy of a
\* request that reached the broker is still to be answered, or its answer is in the
\* result queue, or the broker holds it until it is acknowledged, or it was handed
\* over; whenever the connection breaks or the worker is stopped.
AnswerKept ==
  \A t \in Tasks : \A n \in 1 .. copies[t] :
    <<t, n>> \in requests \cup ready \cup Unacknowledged \cup handed

\* What happens twice, or is reported and did not happen, is due to a connection
\* that broke: without one a request reported as published reached the broker once,
\* a failed one never did, and every answer is handed over once; each break makes
\* for one more copy at most.
OnceOverGoodLinks ==
  /\ \A t \in Tasks :
       /\ copies[t] <= 1 + breaks["pub"]
       /\ breaks["pub"] = 0 =>
            /\ report[t] = "published" => copies[t] = 1
            /\ report[t] = "failed" => copies[t] = 0
  /\ breaks["poll"] = 0 => twice = {}

\* A worker that is asked to stop ends, whatever state its connection is in, so
\* that the controller's wait for the thread is not in vain.
StopEnds ==
  /\ stop["pub"] ~> pub.run = "done"
  /\ stop["poll"] ~> poll.run = "done"

\* While the consumer is registered, an answer in the result queue gets to the GUI
\* thread, however few answers the broker gives out ahead of acknowledgement.
AnswersArrive ==
  \A a \in Tasks \X (1 .. MaxTries) :
    a \in ready /\ poll.consumer ~> a \in handed \/ ~poll.consumer
=============================================================================
