------------------------------- MODULE Startup -------------------------------
(***************************************************************************)
(* The user's settings files across starts of the program                  *)
(* (src/app/runtime_paths.py): what older directories hold is copied over  *)
(* once, the bundled templates are copied in when a file is missing, and   *)
(* replace the files, with a backup, when the bundle has changed.          *)
(*                                                                         *)
(* A content is the template of some version or an edit of the user made   *)
(* upon it.  A copy first truncates its target, so a crash in the middle   *)
(* of it leaves a torn file.  Only one instance gets this far              *)
(* (src/app/single_instance.py), so one process is enough.                 *)
(***************************************************************************)
EXTENDS Naturals, Sequences

CONSTANTS Files,      \* the settings files, in the order in which they are visited
          MaxVersion, \* bound: upgrades of the program
          MaxDeeds,   \* bound: edits, removals and refresh requests
          MaxCrash,   \* bound: crashes and errors of the file system
          Allowed     \* "tearing": a crash may also tear a file of the present seed

ASSUME StartupAssumption ==
  /\ {MaxVersion, MaxDeeds, MaxCrash} \subseteq Nat /\ MaxVersion > 0
  /\ Files \in Seq(STRING)
  /\ \A i, j \in DOMAIN Files : Files[i] = Files[j] => i = j
  /\ Allowed \subseteq {"tearing"}

VARIABLES dir,      \* the content of every settings file
          backups,  \* the set of contents of its .bak files
          legacy,   \* what the directory of the program's former name holds
          marker,   \* .refresh_seed_config is there
          stamp,    \* the content of .seed_fingerprint, a version
          bundle,   \* the version that is installed
          phase, at, step,   \* how far the start has come: part, file, part of a copy
          refresh,  \* this start replaces the files by the templates
          moved,    \* this start has copied the former directory
          crashes, deeds, \* bounds: counters
          kept      \* history: the edits of each file the user has not given up

files == <<dir, backups, legacy>>
process == <<phase, at, step, refresh, moved>>
vars == <<dir, backups, legacy, marker, stamp, bundle, phase, at, step, refresh,
          moved, crashes, deeds, kept>>

Names == {Files[i] : i \in DOMAIN Files}
Missing == [base |-> 0, edit |-> 0]
Torn == [base |-> 0, edit |-> MaxDeeds + 2]
Seed(v) == [base |-> v, edit |-> 0]
Old == [base |-> 0, edit |-> MaxDeeds + 1]  \* settings of the former program
Edits == [base : 0 .. MaxVersion, edit : 1 .. MaxDeeds + 1]
Contents == Edits \cup {Missing, Torn} \cup {Seed(v) : v \in 1 .. MaxVersion}

NoStamp == 0
TornStamp == MaxVersion + 1

Init ==
  /\ dir = [f \in Names |-> Missing] /\ backups = [f \in Names |-> {}]
  /\ legacy \in [Names -> {Missing, Old}]
  /\ marker = FALSE /\ stamp = NoStamp /\ bundle = 1
  /\ phase = "off" /\ at = 1 /\ step = "look" /\ refresh = FALSE /\ moved = FALSE
  /\ crashes = 0 /\ deeds = 0
  /\ kept = [f \in Names |-> {legacy[f]} \ {Missing}]

-----------------------------------------------------------------------------
(* A start of the program. *)

\* _directory_has_entries; the directory of a program that has run has a stamp.
HasEntries == marker \/ stamp # NoStamp \/ \E f \in Names : dir[f] # Missing
LegacyExists == \E f \in Names : legacy[f] # Missing

Rest == <<marker, stamp, bundle, crashes, deeds, kept>>

Launch ==
  /\ phase = "off" /\ at' = 1 /\ step' = "look" /\ refresh' = FALSE
  /\ IF LegacyExists /\ ~HasEntries THEN phase' = "migrate" /\ moved' = TRUE
     ELSE phase' = "decide" /\ moved' = FALSE
  /\ UNCHANGED <<files, Rest>>

\* Mutant: only a missing stamp counts.
StampMissing == stamp = NoStamp

\* A missing stamp means a change as well, unless the directory is empty.
StampChanged == IF stamp = NoStamp THEN HasEntries ELSE stamp # bundle

\* Mutant: the stamp is written before the files are visited.
DecideAndStamp ==
  /\ phase = "decide" /\ phase' = "seed"
  /\ marker' = FALSE /\ refresh' = (marker \/ (~moved /\ StampChanged))
  /\ stamp' = bundle
  /\ UNCHANGED <<files, bundle, at, step, moved, crashes, deeds, kept>>

\* The request of the installer is consumed before anything is replaced.
Decide ==
  /\ phase = "decide" /\ phase' = "seed"
  /\ marker' = FALSE /\ refresh' = (marker \/ (~moved /\ StampChanged))
  /\ UNCHANGED <<files, stamp, bundle, at, step, moved, crashes, deeds, kept>>

\* What the visited file is to become.
Source(f) == IF phase = "migrate" THEN legacy[f] ELSE Seed(bundle)
Visiting(part) == phase \in {"migrate", "seed"} /\ at <= Len(Files) /\ step = part

Wanted(f) ==
  /\ Source(f) # Missing
  /\ dir[f] = Missing \/ (phase = "seed" /\ refresh /\ dir[f] # Seed(bundle))

\* Mutant: the template goes over the file at once.
LookOnly ==
  /\ Visiting("look")
  /\ IF ~Wanted(Files[at]) THEN at' = at + 1 /\ step' = step
     ELSE at' = at /\ step' = "open"
  /\ UNCHANGED <<files, Rest, phase, refresh, moved>>

Look ==
  /\ Visiting("look")
  /\ IF ~Wanted(Files[at]) THEN at' = at + 1 /\ step' = step
     ELSE at' = at /\ step' = IF dir[Files[at]] = Missing THEN "open" ELSE "backup"
  /\ UNCHANGED <<files, Rest, phase, refresh, moved>>

\* The name of a backup is new; a backup torn by a crash is of no account.
Backup ==
  /\ Visiting("backup") /\ step' = "open"
  /\ backups' = [backups EXCEPT ![Files[at]] = @ \cup {dir[Files[at]]}]
  /\ UNCHANGED <<dir, legacy, Rest, phase, at, refresh, moved>>

Open ==
  /\ Visiting("open") /\ step' = "fill"
  /\ dir' = [dir EXCEPT ![Files[at]] = Torn]
  /\ UNCHANGED <<backups, legacy, Rest, phase, at, refresh, moved>>

Fill ==
  /\ Visiting("fill") /\ step' = "look" /\ at' = at + 1
  /\ dir' = [dir EXCEPT ![Files[at]] = Source(Files[at])]
  /\ UNCHANGED <<backups, legacy, Rest, phase, refresh, moved>>

Visited ==
  /\ phase \in {"migrate", "seed"} /\ at > Len(Files) /\ at' = 1
  /\ phase' = IF phase = "migrate" THEN "decide" ELSE "stamp"
  /\ UNCHANGED <<files, Rest, step, refresh, moved>>

Stamping ==
  /\ phase = "stamp"
  /\ IF stamp = TornStamp THEN phase' = "load" /\ stamp' = bundle
     ELSE phase' = phase /\ stamp' = TornStamp
  /\ UNCHANGED <<files, marker, bundle, at, step, refresh, moved, crashes, deeds, kept>>

\* ConfigLoader.load: a torn file ends the start.
Load ==
  /\ phase = "load"
  /\ phase' = IF \E f \in Names : dir[f] = Torn THEN "off" ELSE "running"
  /\ UNCHANGED <<files, Rest, at, step, refresh, moved>>

Run == Launch \/ Decide \/ Look \/ Backup \/ Open \/ Fill \/ Visited \/ Stamping \/ Load

-----------------------------------------------------------------------------
(* The user, the installer, and crashes. *)

Exit ==
  /\ phase \in {"running", "elsewhere"} /\ phase' = "off"
  /\ UNCHANGED <<files, Rest, at, step, refresh, moved>>

\* By the settings dialogs, which replace the file at once, or by hand.
Edit(f) ==
  /\ phase \in {"running", "elsewhere", "off"} /\ deeds < MaxDeeds /\ deeds' = deeds + 1
  /\ dir[f] \notin {Missing, Torn}
  /\ LET new == [base |-> dir[f].base, edit |-> deeds + 1]
     IN  /\ dir' = [dir EXCEPT ![f] = new]
         /\ kept' = [kept EXCEPT ![f] = (@ \ {dir[f]}) \cup {new}]
  /\ UNCHANGED <<backups, legacy, marker, stamp, bundle, process, crashes>>

Remove(f) ==
  /\ phase = "off" /\ deeds < MaxDeeds /\ deeds' = deeds + 1 /\ dir[f] # Missing
  /\ dir' = [dir EXCEPT ![f] = Missing]
  /\ kept' = [kept EXCEPT ![f] = @ \ {dir[f]}]
  /\ UNCHANGED <<backups, legacy, marker, stamp, bundle, process, crashes>>

RequestRefresh ==
  /\ phase = "off" /\ deeds < MaxDeeds /\ deeds' = deeds + 1 /\ marker' = TRUE
  /\ UNCHANGED <<files, stamp, bundle, process, crashes, kept>>

Upgrade ==
  /\ phase = "off" /\ bundle < MaxVersion /\ bundle' = bundle + 1
  /\ UNCHANGED <<files, marker, stamp, process, crashes, deeds, kept>>

\* The marker cannot be deleted, or the fingerprint or a template not be read or
\* written: resolve_default_config_path catches this error and the program runs on the
\* settings beside it or in its bundle ("elsewhere"), if there are any.
PathError ==
  /\ phase \in {"decide", "stamp"} /\ phase' \in {"elsewhere", "off"}
  /\ crashes < MaxCrash /\ crashes' = crashes + 1
  /\ UNCHANGED <<files, marker, stamp, bundle, at, step, refresh, moved, deeds, kept>>

\* The end of the process, or of the start by an error in one of its copies, which
\* nothing catches.
Crash ==
  /\ phase # "off" /\ phase' = "off" /\ crashes < MaxCrash /\ crashes' = crashes + 1
  /\ "tearing" \in Allowed \/ ~(step = "fill" /\ stamp = bundle)
  /\ UNCHANGED <<files, marker, stamp, bundle, at, step, refresh, moved, deeds, kept>>

Next == Run \/ Exit \/ (\E f \in Names : Edit(f) \/ Remove(f)) \/ RequestRefresh
        \/ Upgrade \/ PathError \/ Crash

Spec == Init /\ [][Next]_vars

\* A start goes on by itself, and the user starts the program again, also one that
\* runs on other settings.
FairSpec == Spec /\ WF_vars(Run) /\ WF_vars(phase = "elsewhere" /\ Exit)

-----------------------------------------------------------------------------
(* Properties. *)

\* Every variable has its type.
TypeOK ==
  /\ dir \in [Names -> Contents] /\ backups \in [Names -> SUBSET Contents]
  /\ legacy \in [Names -> {Missing, Old}] /\ kept \in [Names -> SUBSET Edits]
  /\ marker \in BOOLEAN /\ stamp \in 0 .. MaxVersion + 1 /\ bundle \in 1 .. MaxVersion
  /\ phase \in {"off", "migrate", "decide", "seed", "stamp", "load", "running",
                 "elsewhere"}
  /\ at \in 1 .. Len(Files) + 1 /\ step \in {"look", "backup", "open", "fill"}
  /\ refresh \in BOOLEAN /\ moved \in BOOLEAN
  /\ crashes \in 0 .. MaxCrash /\ deeds \in 0 .. MaxDeeds

\* "기존 파일은 .bak.<timestamp>로 백업되고" (docs/build_windows.md:115): no edit of
\* the user is lost to a refresh or a migration, wherever a crash cuts it.
EditsSurvive ==
  \A f \in Names : \A e \in kept[f] : e \in {dir[f], legacy[f]} \cup backups[f]

\* The fingerprint is "마지막으로 적용한 seed" (docs/build_windows.md:114): once it is
\* that of the bundle no later start repairs anything, so after the stamp is written
\* every file is whole.
StampMeansWhole ==
  stamp = bundle /\ phase \in {"load", "running", "elsewhere", "off"}
    => \A f \in Names : dir[f] # Torn

\* After an upgrade the settings in use come, in the end, from the new templates
\* ("새 버전을 설치하면 항상", docs/build_windows.md:115), or from edits made on them,
\* or they are the ones taken over from the former program, however many starts were cut
\* or ran on other settings before.
UpToDate == \A f \in Names : dir[f] \notin {Missing, Torn} /\ dir[f].base \in {0, bundle}
SettingsArrive == bundle = MaxVersion ~> phase = "running" /\ stamp = bundle /\ UpToDate
=============================================================================
