---------------------------- MODULE TaskPromise ----------------------------
(***************************************************************************)
(* What the program promises about the requests of a run, whatever the     *)
(* component that keeps them: a request waits, is out with the external    *)
(* image workers, or is settled, and a settled request stays settled with  *)
(* the verdict it got until the whole run is archived.  Only a waiting     *)
(* request can be withdrawn: what has been handed out is never deleted.    *)
(***************************************************************************)


CONSTANTS Requests, Verdicts

VARIABLES waiting,   \* accepted, not handed out
          out,       \* handed to the publisher or to the broker
          verdict    \* the settled requests and their verdicts

vars == <<waiting, out, verdict>>

TypeOK == /\ waiting \subseteq Requests
          /\ out \subseteq Requests
          /\ DOMAIN verdict \subseteq Requests
          /\ \A r \in DOMAIN verdict : verdict[r] \in Verdicts

Init == waiting = {} /\ out = {} /\ verdict = [r \in {} |-> "none"]

\* Requests not known to this run are accepted.
Accept ==
  /\ waiting \subseteq waiting' /\ waiting' \subseteq Requests
  /\ waiting' \cap (out \cup DOMAIN verdict) = {}
  /\ UNCHANGED <<out, verdict>>

HandOut == \E R \in SUBSET waiting :
  waiting' = waiting \ R /\ out' = out \cup R /\ UNCHANGED verdict

TakeBack == \E R \in SUBSET out :
  out' = out \ R /\ waiting' = waiting \cup R /\ UNCHANGED verdict

\* An error before the hand-out settles a waiting request directly.
Settle == \E R \in SUBSET (waiting \cup out), v \in Verdicts :
  /\ waiting' = waiting \ R
  /\ out' = out \ R
  /\ verdict' = [r \in DOMAIN verdict \cup R |-> IF r \in R THEN v ELSE verdict[r]]

Withdraw == \E R \in SUBSET waiting :
  waiting' = waiting \ R /\ UNCHANGED <<out, verdict>>

Archive == waiting' = {} /\ out' = {} /\ verdict' = [r \in {} |-> "none"]

Next == Accept \/ HandOut \/ TakeBack \/ Settle \/ Withdraw \/ Archive

Spec == Init /\ [][Next]_vars
=============================================================================
