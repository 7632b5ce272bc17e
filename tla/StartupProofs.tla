---------------------------- MODULE StartupProofs ----------------------------
(***************************************************************************)
(* Proofs about module Startup, for every list of files and every bound:   *)
(* no edit of the user is lost, and a stamp of the installed version means *)
(* whole files as long as no crash tears a file of the present seed.       *)
(***************************************************************************)
EXTENDS Startup, TLAPS

\* The file that is being copied over.
Filling(f) == phase \in {"migrate", "seed"} /\ step = "fill" /\ at <= Len(Files) /\ f = Files[at]

\* What is in the file about to be truncated is in its backups, and what a copy
\* is about to fill is a truncated file.
Secured(f) ==
  f = Files[at] => /\ Visiting("open") => dir[f] = Missing \/ dir[f] \in backups[f]
                   /\ Visiting("fill") => dir[f] = Torn

\* A part of the start begins with a look at the first file.
Orderly ==
  (phase = "decide" => at = 1) /\
  (phase = "decide" \/ (phase \in {"migrate", "seed"} /\ at > Len(Files)) => step = "look")

\* The files are whole where the steps to come rely on it.
Whole(f) == dir[f] = Torn => Filling(f)
Relied ==
  \/ stamp = bundle
  \/ phase = "migrate" \/ (phase = "decide" /\ moved) \/ (phase = "seed" /\ ~refresh)
  \/ phase \in {"stamp", "load", "running"}
WholeSoFar ==
  phase = "seed" /\ refresh => \A i \in DOMAIN Files : i < at => dir[Files[i]] # Torn

SafeInv == EditsSurvive /\ Orderly /\ \A f \in Names : Secured(f)
StampInv ==
  /\ Relied => \A f \in Names : Whole(f)
  /\ WholeSoFar
  /\ stamp \in 0 .. bundle \cup {TornStamp}
  /\ phase = "migrate" => moved

-----------------------------------------------------------------------------
USE StartupAssumption DEF StartupAssumption

LEMMA Bounds ==
  /\ MaxVersion \in Nat /\ MaxVersion > 0 /\ MaxDeeds \in Nat /\ MaxCrash \in Nat
  /\ Len(Files) \in Nat /\ DOMAIN Files = 1 .. Len(Files)
OBVIOUS

LEMMA VisitedName == ASSUME at \in DOMAIN Files PROVE Files[at] \in Names
BY DEF Names

LEMMA SeedIsContent == ASSUME NEW v \in 1 .. MaxVersion PROVE Seed(v) \in Contents
BY DEF Contents

LEMMA OldIsEdit == Old \in Edits /\ Old \in Contents /\ Missing \in Contents /\ Torn \in Contents
BY DEF Old, Edits, Contents

\* An edit is neither a template, nor nothing, nor a torn file.
LEMMA EditStandsOut ==
  ASSUME NEW e \in Edits
  PROVE  e # Missing /\ e # Torn /\ \A v \in Nat : e # Seed(v)
<1>1. e.edit \in 1 .. MaxDeeds + 1
  BY DEF Edits
<1>2. Missing.edit = 0 /\ Torn.edit = MaxDeeds + 2 /\ \A v : Seed(v).edit = 0
  BY DEF Missing, Torn, Seed
<1> QED
  BY <1>1, <1>2

LEMMA SourceIsContent ==
  ASSUME TypeOK, NEW f \in Names
  PROVE  Source(f) \in Contents
<1>1. legacy[f] \in Contents
  BY OldIsEdit DEF TypeOK
<1>2. Seed(bundle) \in Contents
  BY SeedIsContent DEF TypeOK
<1> QED
  BY <1>1, <1>2 DEF Source

LEMMA EditedContent ==
  ASSUME NEW c \in Contents, NEW k \in 1 .. MaxDeeds + 1
  PROVE  [base |-> c.base, edit |-> k] \in Edits
<1>1. c.base \in 0 .. MaxVersion
  BY DEF Contents, Edits, Missing, Torn, Seed
<1> QED
  BY <1>1 DEF Edits

LEMMA InitTyped == Init => TypeOK
<1> SUFFICES ASSUME Init PROVE TypeOK
  OBVIOUS
<1>1. kept \in [Names -> SUBSET Edits]
  <2>1. \A f \in Names : {legacy[f]} \ {Missing} \subseteq Edits
    BY OldIsEdit DEF Init
  <2> QED
    BY <2>1 DEF Init
<1>2. dir \in [Names -> Contents]
  BY OldIsEdit DEF Init
<1> QED
  <2>1. /\ at \in 1 .. Len(Files) + 1 /\ bundle \in 1 .. MaxVersion /\ stamp \in 0 .. MaxVersion + 1
        /\ crashes \in 0 .. MaxCrash /\ deeds \in 0 .. MaxDeeds
    BY Bounds DEF Init, NoStamp
  <2>2. /\ backups \in [Names -> SUBSET Contents] /\ legacy \in [Names -> {Missing, Old}]
        /\ marker \in BOOLEAN /\ phase = "off" /\ step = "look"
        /\ refresh \in BOOLEAN /\ moved \in BOOLEAN
    BY DEF Init
  <2> QED
    BY <1>1, <1>2, <2>1, <2>2 DEF TypeOK

LEMMA NextTyped == ASSUME TypeOK, [Next]_vars PROVE TypeOK'
<1> USE DEF TypeOK
<1>1. CASE Launch
  <2>1. at' \in 1 .. Len(Files) + 1
    BY <1>1, Bounds DEF Launch
  <2> QED
    BY <1>1, <2>1 DEF Launch, files, Rest
<1>2. CASE Decide
  BY <1>2 DEF Decide, files, StampChanged, HasEntries
<1>3. CASE Look
  BY <1>3 DEF Look, files, Rest, Visiting
<1>4. CASE Backup
  <2>1. Files[at] \in Names
    BY <1>4, VisitedName DEF Backup, Visiting
  <2> QED
    BY <1>4, <2>1 DEF Backup, Rest, Visiting
<1>5. CASE Open
  <2>1. Files[at] \in Names
    BY <1>5, VisitedName DEF Open, Visiting
  <2> QED
    BY <1>5, <2>1, OldIsEdit DEF Open, Rest, Visiting
<1>6. CASE Fill
  <2>1. Files[at] \in Names
    BY <1>6, VisitedName DEF Fill, Visiting
  <2> QED
    BY <1>6, <2>1, SourceIsContent DEF Fill, Rest, Visiting
<1>7. CASE Visited
  BY <1>7 DEF Visited, files, Rest
<1>8. CASE Stamping
  BY <1>8 DEF Stamping, files, TornStamp
<1>9. CASE Load
  BY <1>9 DEF Load, files, Rest
<1>10. CASE Exit
  BY <1>10 DEF Exit, files, Rest
<1>11. ASSUME NEW f \in Names, Edit(f) PROVE TypeOK'
  <2> DEFINE new == [base |-> dir[f].base, edit |-> deeds + 1]
  <2>1. new \in Edits /\ new \in Contents
    <3>1. dir[f] \in Contents /\ deeds + 1 \in 1 .. MaxDeeds + 1
      BY <1>11 DEF Edit
    <3> QED
      BY <3>1, EditedContent DEF Contents
  <2>2. dir' = [dir EXCEPT ![f] = new] /\ kept' = [kept EXCEPT ![f] = (@ \ {dir[f]}) \cup {new}]
    BY <1>11 DEF Edit
  <2>3. dir' \in [Names -> Contents] /\ kept' \in [Names -> SUBSET Edits]
    BY <2>1, <2>2
  <2> QED
    BY <1>11, <2>3 DEF Edit, process
<1>12. ASSUME NEW f \in Names, Remove(f) PROVE TypeOK'
  BY <1>12, OldIsEdit DEF Remove, process
<1>13. CASE RequestRefresh
  BY <1>13 DEF RequestRefresh, files, process
<1>14. CASE Upgrade
  BY <1>14 DEF Upgrade, files, process
<1>15. CASE Crash
  BY <1>15 DEF Crash, files
<1>16. CASE UNCHANGED vars
  BY <1>16 DEF vars, files, process
<1>17. CASE PathError
  BY <1>17 DEF PathError, files
<1> QED
  BY <1>1, <1>2, <1>3, <1>4, <1>5, <1>6, <1>7, <1>8, <1>9, <1>10, <1>11, <1>12,
     <1>13, <1>14, <1>15, <1>16, <1>17 DEF Next, Run

\* Every variable of the settings files has its type, for every list of files.
THEOREM TypeCorrect == Spec => []TypeOK
BY InitTyped, NextTyped, PTL DEF Spec

-----------------------------------------------------------------------------
(* No edit is lost.  A copy truncates a file only when it is missing or when *)
(* its content is in the backups, and puts a template or the content of the  *)
(* former directory there, which stays.                                      *)

LEMMA InitSafe == Init => SafeInv
BY DEF Init, SafeInv, EditsSurvive, Secured, Visiting, Orderly

LEMMA NextSafe == ASSUME TypeOK, SafeInv, [Next]_vars PROVE SafeInv'
<1> USE DEF SafeInv, EditsSurvive
<1>1. CASE Launch
  BY <1>1 DEF Launch, files, Rest, Secured, Visiting, Orderly
<1>2. CASE Decide
  BY <1>2 DEF Decide, files, Secured, Visiting, Orderly
<1>3. CASE Look
  BY <1>3, Bounds DEF Look, files, Rest, Secured, Visiting, Orderly, TypeOK
<1>4. CASE Backup
  <2>1. Files[at] \in Names
    BY <1>4, VisitedName DEF Backup, Visiting, TypeOK
  <2>2. /\ dir' = dir /\ legacy' = legacy /\ kept' = kept /\ at' = at
        /\ phase' = phase /\ step' = "open"
        /\ backups' = [backups EXCEPT ![Files[at]] = @ \cup {dir[Files[at]]}]
    BY <1>4 DEF Backup, Rest
  <2>3. \A f \in Names : backups[f] \subseteq backups'[f]
    BY <2>2 DEF TypeOK
  <2>4. dir[Files[at]] \in backups'[Files[at]]
    BY <2>1, <2>2 DEF TypeOK
  <2>5. EditsSurvive'
    BY <2>2, <2>3
  <2>6. Orderly'
    <3>1. phase \in {"migrate", "seed"} /\ at <= Len(Files) /\ at \in Nat
      BY <1>4 DEF Backup, Visiting, TypeOK
    <3> QED
      BY <2>2, <3>1, Bounds DEF Orderly
  <2> QED
    BY <2>2, <2>4, <2>5, <2>6 DEF Secured, Visiting
<1>5. CASE Open
  <2>1. Files[at] \in Names /\ Visiting("open")
    BY <1>5, VisitedName DEF Open, Visiting, TypeOK
  <2>2. /\ backups' = backups /\ legacy' = legacy /\ kept' = kept
        /\ dir' = [dir EXCEPT ![Files[at]] = Torn] /\ step' = "fill"
        /\ phase' = phase /\ at' = at
    BY <1>5 DEF Open, Rest
  <2>3. ASSUME NEW f \in Names, NEW e \in kept[f]
        PROVE  e \in {dir'[f], legacy[f]} \cup backups[f]
    <3>1. e # Missing
      BY EditStandsOut DEF TypeOK
    <3>2. CASE f = Files[at]
      BY <2>1, <3>1, <3>2 DEF Secured
    <3>3. CASE f # Files[at]
      BY <2>2, <3>3 DEF TypeOK
    <3> QED
      BY <3>2, <3>3
  <2>4. Orderly'
    <3>1. phase \in {"migrate", "seed"} /\ at <= Len(Files) /\ at \in Nat
      BY <2>1 DEF Visiting, TypeOK
    <3> QED
      BY <2>2, <3>1, Bounds DEF Orderly
  <2>5. dir'[Files[at]] = Torn
    BY <2>1, <2>2 DEF TypeOK
  <2>6. \A f \in Names : Secured(f)'
    BY <2>2, <2>5 DEF Secured, Visiting
  <2> QED
    BY <2>2, <2>3, <2>4, <2>6
<1>6. CASE Fill
  <2>1. Files[at] \in Names /\ Visiting("fill")
    BY <1>6, VisitedName DEF Fill, Visiting, TypeOK
  <2>2. /\ backups' = backups /\ legacy' = legacy /\ kept' = kept /\ step' = "look"
        /\ dir' = [dir EXCEPT ![Files[at]] = Source(Files[at])]
        /\ phase' = phase
    BY <1>6 DEF Fill, Rest
  <2>3. dir[Files[at]] = Torn
    BY <2>1 DEF Secured
  <2>4. ASSUME NEW f \in Names, NEW e \in kept[f]
        PROVE  e \in {dir'[f], legacy[f]} \cup backups[f]
    <3>1. e # Torn
      BY EditStandsOut DEF TypeOK
    <3>2. CASE f = Files[at]
      BY <2>3, <3>1, <3>2
    <3>3. CASE f # Files[at]
      BY <2>2, <3>3 DEF TypeOK
    <3> QED
      BY <3>2, <3>3
  <2>5. Orderly'
    BY <2>1, <2>2 DEF Visiting, Orderly
  <2>6. \A f \in Names : Secured(f)'
    BY <2>2 DEF Secured, Visiting
  <2> QED
    BY <2>2, <2>4, <2>5, <2>6
<1>7. CASE Visited
  BY <1>7 DEF Visited, files, Rest, Secured, Visiting, Orderly
<1>8. CASE Stamping
  BY <1>8 DEF Stamping, files, Secured, Visiting, Orderly
<1>9. CASE Load
  BY <1>9 DEF Load, files, Rest, Secured, Visiting, Orderly
<1>10. CASE Exit
  BY <1>10 DEF Exit, files, Rest, Secured, Visiting, Orderly
<1>11. ASSUME NEW f \in Names, Edit(f) PROVE SafeInv'
  <2> DEFINE new == [base |-> dir[f].base, edit |-> deeds + 1]
  <2>1. /\ dir' = [dir EXCEPT ![f] = new] /\ kept' = [kept EXCEPT ![f] = (@ \ {dir[f]}) \cup {new}]
        /\ backups' = backups /\ legacy' = legacy /\ phase' = phase
        /\ phase \in {"running", "elsewhere", "off"}
    BY <1>11 DEF Edit, process
  <2>2. ASSUME NEW g \in Names, NEW e \in kept'[g]
        PROVE  e \in {dir'[g], legacy[g]} \cup backups[g]
    BY <2>1 DEF TypeOK
  <2> QED
    BY <2>1, <2>2 DEF Secured, Visiting, Orderly
<1>12. ASSUME NEW f \in Names, Remove(f) PROVE SafeInv'
  <2>1. /\ dir' = [dir EXCEPT ![f] = Missing] /\ kept' = [kept EXCEPT ![f] = @ \ {dir[f]}]
        /\ backups' = backups /\ legacy' = legacy /\ phase' = phase /\ phase = "off"
    BY <1>12 DEF Remove, process
  <2>2. ASSUME NEW g \in Names, NEW e \in kept'[g]
        PROVE  e \in {dir'[g], legacy[g]} \cup backups[g]
    BY <2>1 DEF TypeOK
  <2> QED
    BY <2>1, <2>2 DEF Secured, Visiting, Orderly
<1>13. CASE RequestRefresh
  BY <1>13 DEF RequestRefresh, files, process, Secured, Visiting, Orderly
<1>14. CASE Upgrade
  BY <1>14 DEF Upgrade, files, process, Secured, Visiting, Orderly
<1>15. CASE Crash
  BY <1>15 DEF Crash, files, Secured, Visiting, Orderly
<1>16. CASE UNCHANGED vars
  BY <1>16 DEF vars, files, process, Secured, Visiting, Orderly
<1>17. CASE PathError
  BY <1>17 DEF PathError, files, Secured, Visiting, Orderly
<1> QED
  BY <1>1, <1>2, <1>3, <1>4, <1>5, <1>6, <1>7, <1>8, <1>9, <1>10, <1>11, <1>12,
     <1>13, <1>14, <1>15, <1>16, <1>17 DEF Next, Run

\* No edit of the user is lost to a refresh or to the copy of the former directory,
\* wherever a crash cuts it, for every list of files and any number of versions.
THEOREM EditsAreKept == Spec => []EditsSurvive
<1>1. TypeOK /\ SafeInv /\ [Next]_vars => SafeInv'
  BY NextSafe
<1>2. SafeInv => EditsSurvive
  BY DEF SafeInv
<1> QED
  BY <1>1, <1>2, InitSafe, TypeCorrect, PTL DEF Spec

-----------------------------------------------------------------------------
(* A stamp of the installed version means whole files.  A start that does    *)
(* not replace every file relies on none being torn: on a stamp of this      *)
(* version, or on an empty directory.  Otherwise it replaces every file      *)
(* before it writes the stamp, and those before "at" are whole.              *)

LEMMA TornStandsOut ==
  Torn # Missing /\ Torn # Old /\ \A v \in Nat : Torn # Seed(v)
<1>1. Torn.edit = MaxDeeds + 2 /\ Missing.edit = 0 /\ Old.edit = MaxDeeds + 1
  BY DEF Torn, Missing, Old
<1>2. \A v : Seed(v).edit = 0
  BY DEF Seed
<1> QED
  BY <1>1, <1>2, Bounds

\* No file is torn where a start relies on it and copies none.
LEMMA WholeAtRest ==
  ASSUME StampInv, Relied, \A f \in Names : ~Filling(f)
  PROVE  \A f \in Names : dir[f] # Torn
BY DEF StampInv, Whole

LEMMA SourceIsWhole ==
  ASSUME TypeOK, NEW f \in Names
  PROVE  Source(f) # Torn
BY TornStandsOut DEF Source, TypeOK

LEMMA InitStamp == Init => StampInv
BY Bounds, TornStandsOut DEF Init, StampInv, Whole, WholeSoFar, NoStamp

LEMMA NextStamp ==
  ASSUME "tearing" \notin Allowed, TypeOK, SafeInv, StampInv, [Next]_vars
  PROVE  StampInv'
<1> USE DEF StampInv
<1>1. CASE Launch
  <2>1. dir' = dir /\ stamp' = stamp /\ bundle' = bundle /\ step' = "look" /\ phase = "off"
    BY <1>1 DEF Launch, files, Rest
  <2>2. CASE phase' = "migrate" /\ moved' = TRUE /\ ~HasEntries
    <3>1. \A f \in Names : dir'[f] # Torn
      BY <2>1, <2>2, TornStandsOut DEF HasEntries
    <3> QED
      BY <2>1, <2>2, <3>1 DEF Whole, WholeSoFar
  <2>3. CASE phase' = "decide" /\ moved' = FALSE
    <3>1. Relied' => \A f \in Names : dir'[f] # Torn
      BY <2>1, <2>3, WholeAtRest DEF Relied, Filling
    <3> QED
      BY <2>1, <2>3, <3>1 DEF Whole, WholeSoFar
  <2> QED
    BY <1>1, <2>2, <2>3 DEF Launch
<1>2. CASE Decide
  <2>1. /\ dir' = dir /\ stamp' = stamp /\ bundle' = bundle /\ phase = "decide" /\ phase' = "seed"
        /\ refresh' = (marker \/ (~moved /\ StampChanged)) /\ at' = at /\ moved' = moved
    BY <1>2 DEF Decide, files
  <2>2. at = 1
    BY <2>1 DEF SafeInv, Orderly
  <2>3. ASSUME Relied' PROVE \A f \in Names : dir'[f] # Torn
    <3>1. CASE stamp = bundle \/ moved
      BY <2>1, <3>1, WholeAtRest DEF Relied, Filling
    <3>2. CASE ~HasEntries
      BY <2>1, <3>2, TornStandsOut DEF HasEntries
    <3> QED
      BY <2>1, <2>3, <3>1, <3>2 DEF Relied, StampChanged
  <2>4. WholeSoFar'
    BY <2>1, <2>2, Bounds DEF WholeSoFar
  <2> QED
    BY <2>1, <2>3, <2>4 DEF Whole
<1>3. CASE Look
  <2>1. /\ dir' = dir /\ stamp' = stamp /\ bundle' = bundle /\ phase' = phase /\ moved' = moved
        /\ refresh' = refresh /\ Visiting("look") /\ step' # "fill"
        /\ \/ at' = at
           \/ at' = at + 1 /\ ~Wanted(Files[at])
    BY <1>3 DEF Look, files, Rest, Visiting
  <2>2. Files[at] \in Names /\ at \in Nat
    BY <2>1, VisitedName DEF Visiting, TypeOK
  <2>3. Relied' => \A f \in Names : dir'[f] # Torn
    BY <2>1, WholeAtRest DEF Relied, Filling, Visiting
  <2>4. ASSUME phase = "seed", refresh, ~Wanted(Files[at]) PROVE dir[Files[at]] # Torn
    <3>1. Source(Files[at]) = Seed(bundle) /\ bundle \in Nat
      BY <2>4 DEF Source, TypeOK
    <3>2. Seed(bundle) # Missing
      BY <3>1, Bounds DEF Seed, Missing, TypeOK
    <3> QED
      BY <2>4, <3>1, <3>2, TornStandsOut DEF Wanted
  <2>5. WholeSoFar'
    <3>1. CASE at' = at
      BY <2>1, <3>1 DEF WholeSoFar
    <3>2. CASE at' = at + 1 /\ ~Wanted(Files[at])
      <4> SUFFICES ASSUME phase = "seed", refresh, NEW i \in DOMAIN Files, i < at + 1
                   PROVE  dir[Files[i]] # Torn
        BY <2>1, <3>2 DEF WholeSoFar
      <4>1. i < at \/ i = at
        BY <2>2, Bounds
      <4> QED
        BY <2>4, <3>2, <4>1 DEF WholeSoFar
    <3> QED
      BY <2>1, <3>1, <3>2
  <2> QED
    BY <2>1, <2>3, <2>5 DEF Whole
<1>4. CASE Backup
  <2>1. /\ dir' = dir /\ stamp' = stamp /\ bundle' = bundle /\ phase' = phase /\ moved' = moved
        /\ refresh' = refresh /\ Visiting("backup") /\ at' = at
    BY <1>4 DEF Backup, Rest
  <2>2. Relied' => \A f \in Names : dir'[f] # Torn
    BY <2>1, WholeAtRest DEF Relied, Filling, Visiting
  <2> QED
    BY <2>1, <2>2 DEF Whole, WholeSoFar
<1>5. CASE Open
  <2>1. /\ dir' = [dir EXCEPT ![Files[at]] = Torn] /\ stamp' = stamp /\ bundle' = bundle
        /\ phase' = phase /\ moved' = moved /\ refresh' = refresh /\ Visiting("open")
        /\ at' = at /\ step' = "fill" /\ dir \in [Names -> Contents]
    BY <1>5 DEF Open, Rest, TypeOK
  <2>2. Files[at] \in Names /\ at \in DOMAIN Files
    BY <2>1, VisitedName DEF Visiting, TypeOK
  <2>3. \A f \in Names : Relied /\ f # Files[at] => dir'[f] # Torn
    BY <2>1, WholeAtRest DEF Filling, Visiting
  <2>4. Filling(Files[at])'
    BY <2>1 DEF Filling, Visiting
  <2>5. WholeSoFar'
    <3> SUFFICES ASSUME phase = "seed", refresh, NEW i \in DOMAIN Files, i < at
                 PROVE  dir'[Files[i]] # Torn
      BY <2>1 DEF WholeSoFar
    <3>1. Files[i] # Files[at] /\ Files[i] \in Names
      BY <2>2, Bounds DEF Names
    <3> QED
      BY <2>1, <3>1 DEF WholeSoFar
  <2>6. Relied' => \A f \in Names : Whole(f)'
    BY <2>1, <2>3, <2>4 DEF Relied, Whole
  <2> QED
    BY <2>1, <2>5, <2>6
<1>6. CASE Fill
  <2>1. /\ dir' = [dir EXCEPT ![Files[at]] = Source(Files[at])] /\ stamp' = stamp
        /\ bundle' = bundle /\ phase' = phase /\ moved' = moved /\ refresh' = refresh
        /\ Visiting("fill") /\ at' = at + 1 /\ dir \in [Names -> Contents]
    BY <1>6 DEF Fill, Rest, TypeOK
  <2>2. Files[at] \in Names /\ at \in DOMAIN Files /\ at \in Nat
    BY <2>1, VisitedName DEF Visiting, TypeOK
  <2>3. dir'[Files[at]] # Torn
    BY <2>1, <2>2, SourceIsWhole
  <2>4. Relied' => \A f \in Names : dir'[f] # Torn
    BY <2>1, <2>3 DEF Relied, Whole, Filling
  <2>5. WholeSoFar'
    <3> SUFFICES ASSUME phase = "seed", refresh, NEW i \in DOMAIN Files, i < at + 1
                 PROVE  dir'[Files[i]] # Torn
      BY <2>1 DEF WholeSoFar
    <3>1. CASE i = at
      BY <2>3, <3>1
    <3>2. CASE i < at
      <4>1. dir[Files[i]] # Torn
        BY <3>2 DEF WholeSoFar
      <4>2. Files[i] # Files[at]
        BY <2>2, <3>2, Bounds
      <4>3. Files[i] \in Names
        BY DEF Names
      <4> QED
        BY <2>1, <4>1, <4>2, <4>3
    <3> QED
      BY <2>2, <3>1, <3>2, Bounds
  <2> QED
    BY <2>1, <2>4, <2>5 DEF Whole
<1>7. CASE Visited
  <2>1. /\ dir' = dir /\ stamp' = stamp /\ bundle' = bundle /\ refresh' = refresh
        /\ moved' = moved /\ phase \in {"migrate", "seed"} /\ at > Len(Files)
        /\ phase' = IF phase = "migrate" THEN "decide" ELSE "stamp"
    BY <1>7 DEF Visited, files, Rest
  <2>2. \A f \in Names : ~Filling(f)
    BY <2>1, Bounds DEF Filling, TypeOK
  <2>3. CASE Relied
    BY <2>1, <2>2, <2>3, WholeAtRest DEF Whole, WholeSoFar
  <2>4. CASE phase = "seed" /\ refresh
    <3>1. \A i \in DOMAIN Files : i < at
      BY <2>1, Bounds DEF TypeOK
    <3>2. \A f \in Names : dir[f] # Torn
      BY <2>4, <3>1 DEF WholeSoFar, Names
    <3> QED
      BY <2>1, <2>4, <3>2 DEF Whole, WholeSoFar
  <2> QED
    BY <2>1, <2>3, <2>4 DEF Relied
<1>8. CASE Stamping
  <2>1. /\ dir' = dir /\ stamp' \in {bundle, TornStamp} /\ bundle' = bundle /\ phase = "stamp"
        /\ phase' \in {"stamp", "load"} /\ bundle \in Nat
    BY <1>8 DEF Stamping, files, TypeOK
  <2>2. \A f \in Names : dir[f] # Torn
    BY <2>1, WholeAtRest DEF Relied, Filling
  <2> QED
    BY <2>1, <2>2 DEF Whole, WholeSoFar, TornStamp
<1>9. CASE Load
  <2>1. /\ dir' = dir /\ stamp' = stamp /\ bundle' = bundle /\ phase = "load"
        /\ phase' \in {"off", "running"}
    BY <1>9 DEF Load, files, Rest
  <2>2. \A f \in Names : dir[f] # Torn
    BY <2>1, WholeAtRest DEF Relied, Filling
  <2> QED
    BY <2>1, <2>2 DEF Whole, WholeSoFar
<1>10. CASE Exit
  <2>1. /\ dir' = dir /\ stamp' = stamp /\ bundle' = bundle
        /\ phase \in {"running", "elsewhere"} /\ phase' = "off"
    BY <1>10 DEF Exit, files, Rest
  <2>2. Relied' => \A f \in Names : dir[f] # Torn
    BY <2>1, WholeAtRest DEF Relied, Filling
  <2> QED
    BY <2>1, <2>2 DEF Whole, WholeSoFar
<1>11. ASSUME NEW f \in Names, Edit(f) PROVE StampInv'
  <2> DEFINE new == [base |-> dir[f].base, edit |-> deeds + 1]
  <2>1. /\ dir' = [dir EXCEPT ![f] = new] /\ stamp' = stamp /\ bundle' = bundle
        /\ phase' = phase /\ phase \in {"running", "elsewhere", "off"} /\ deeds < MaxDeeds
    BY <1>11 DEF Edit, process
  <2>2. new # Torn
    <3>1. new.edit = deeds + 1 /\ Torn.edit = MaxDeeds + 2
      BY DEF Torn
    <3> QED
      BY <2>1, <3>1, Bounds DEF TypeOK
  <2>3. \A g \in Names : dir[g] # Torn => dir'[g] # Torn
    BY <2>1, <2>2 DEF TypeOK
  <2>4. Relied => \A g \in Names : dir[g] # Torn
    BY <2>1, WholeAtRest DEF Filling
  <2>5. Relied' => Relied
    BY <2>1 DEF Relied
  <2> QED
    BY <2>1, <2>3, <2>4, <2>5 DEF Whole, WholeSoFar
<1>12. ASSUME NEW f \in Names, Remove(f) PROVE StampInv'
  <2>1. /\ dir' = [dir EXCEPT ![f] = Missing] /\ stamp' = stamp /\ bundle' = bundle
        /\ phase' = phase /\ phase = "off"
    BY <1>12 DEF Remove, process
  <2>2. \A g \in Names : dir[g] # Torn => dir'[g] # Torn
    BY <2>1, TornStandsOut DEF TypeOK
  <2>3. Relied => \A g \in Names : dir[g] # Torn
    BY <2>1, WholeAtRest DEF Filling
  <2>4. Relied' => Relied
    BY <2>1 DEF Relied
  <2> QED
    BY <2>1, <2>2, <2>3, <2>4 DEF Whole, WholeSoFar
<1>13. CASE RequestRefresh
  <2>1. /\ dir' = dir /\ stamp' = stamp /\ bundle' = bundle /\ UNCHANGED process
        /\ phase = "off"
    BY <1>13 DEF RequestRefresh, files
  <2> QED
    BY <2>1 DEF Relied, Whole, WholeSoFar, Filling, process
<1>14. CASE Upgrade
  <2>1. /\ stamp' = stamp /\ bundle' = bundle + 1 /\ phase' = "off" /\ bundle < MaxVersion
        /\ bundle \in Nat
    BY <1>14 DEF Upgrade, process, TypeOK
  <2>2. stamp' # bundle' /\ stamp' \in 0 .. bundle' \cup {TornStamp}
    BY <2>1, Bounds DEF TornStamp
  <2> QED
    BY <2>1, <2>2 DEF Relied, WholeSoFar
<1>15. CASE Crash
  <2>1. /\ dir' = dir /\ stamp' = stamp /\ bundle' = bundle /\ phase' = "off"
        /\ stamp = bundle => step # "fill"
    BY <1>15 DEF Crash, files
  <2>2. Relied' => \A f \in Names : dir[f] # Torn
    BY <2>1, WholeAtRest DEF Relied, Filling
  <2> QED
    BY <2>1, <2>2 DEF Whole, WholeSoFar
<1>16. CASE UNCHANGED vars
  BY <1>16 DEF vars, Relied, Whole, WholeSoFar, Filling
<1>17. CASE PathError
  <2>1. /\ dir' = dir /\ stamp' = stamp /\ bundle' = bundle
        /\ phase \in {"decide", "stamp"} /\ phase' \in {"elsewhere", "off"}
    BY <1>17 DEF PathError, files
  <2>2. Relied' => \A f \in Names : dir[f] # Torn
    BY <2>1, WholeAtRest DEF Relied, Filling
  <2> QED
    BY <2>1, <2>2 DEF Whole, WholeSoFar
<1> QED
  BY <1>1, <1>2, <1>3, <1>4, <1>5, <1>6, <1>7, <1>8, <1>9, <1>10, <1>11, <1>12,
     <1>13, <1>14, <1>15, <1>16, <1>17 DEF Next, Run

\* Unless a crash tears a file of the present seed, the stamp of the installed
\* version is never on disk beside a torn file once a start has got past the copies:
\* a later start, which will repair nothing, finds whole files.
THEOREM StampIsHonest ==
  ASSUME "tearing" \notin Allowed
  PROVE  Spec => []StampMeansWhole
<1>1. TypeOK /\ SafeInv /\ StampInv /\ [Next]_vars => StampInv'
  BY NextStamp
<1>2. TypeOK /\ SafeInv /\ [Next]_vars => SafeInv'
  BY NextSafe
<1>3. StampInv => StampMeansWhole
  BY WholeAtRest DEF StampMeansWhole, Relied, Filling
<1> QED
  BY <1>1, <1>2, <1>3, InitSafe, InitStamp, TypeCorrect, PTL DEF Spec

=============================================================================
