------------------------------- MODULE Health -------------------------------
(***************************************************************************)
(* app/health/watcher.go: a loop reads what the runtime knows of a dead    *)
(* server and records each new failure as an Incident.  The runtime's      *)
(* account is a counter and the time of the last death; a replaced pod or  *)
(* container begins a new account.  Times are the order of events.         *)
(***************************************************************************)
EXTENDS Naturals, Sequences, FiniteSets

CONSTANTS
  Hosts,         \* SUBSET {"cluster", "docker"}: the Hosts to explore
  SlowChecks,    \* the pod can be replaced and die within one check
  StoreFails,    \* SQLite can refuse
  MaxEvents      \* bound: deaths, replacements and stops

ASSUME HealthAssumption == Hosts \subseteq {"cluster", "docker"} /\ MaxEvents \in Nat

VARIABLES
  host,
  pod,        \* what the runtime reports: see NoPod
  now,        \* the events so far
  watcher,    \* the failure the check in progress has read
  incidents,  \* the rows of the world's incidents, oldest first
  quiet       \* a check ended and nothing has happened since

healthVars == <<host, pod, now, watcher, incidents, quiet>>

\* restarts, setups: the two counts; step: the setup step that failed;
\* finished: when it last died (0: never); cause: which event that was.
NoPod == [restarts |-> 0, setups |-> 0, step |-> FALSE, finished |-> 0, cause |-> "none"]
Idle == [reading |-> FALSE, failure |-> NoPod]

HealthTypeOK ==
  /\ host \in Hosts /\ now \in 0..MaxEvents
  /\ pod.restarts \in 0..now /\ pod.setups \in 0..now /\ pod.finished \in 0..now
  /\ pod.finished > 0 => pod.cause \in {"server", "setup", "operator"}
  /\ watcher.reading \in BOOLEAN /\ watcher.failure.finished \in 0..now
  /\ \A i \in DOMAIN incidents : incidents[i].at \in 0..now /\ incidents[i].of \in 1..now

InitHealth == /\ host \in Hosts /\ pod = NoPod /\ now = 0 /\ watcher = Idle
              /\ incidents = <<>> /\ quiet = FALSE

\* ports.Failure.
Crashed(f) == f.restarts > 0 \/ f.setups > 0 \/ f.finished > 0
FailedBeforeStart(f) == f.setups > 0 \/ f.step
RestartCount(f) == IF FailedBeforeStart(f) THEN f.setups ELSE f.restarts

-----------------------------------------------------------------------------
(* The server.                                                             *)

Happens(p) == /\ now < MaxEvents /\ now' = now + 1 /\ pod' = p
              /\ quiet' = FALSE /\ UNCHANGED <<host, incidents>>
              /\ SlowChecks \/ ~watcher.reading
              /\ UNCHANGED watcher

\* The container dies and its restart policy starts it again.
ServerDies == Happens([pod EXCEPT !.restarts = @ + 1, !.finished = now + 1, !.cause = "server"])

\* An init container fails.  Its count and name stay in the pod's status
\* after a later attempt succeeded.
SetupStepFails ==
  /\ host = "cluster" /\ pod.restarts = 0
  /\ Happens([pod EXCEPT !.setups = @ + 1, !.step = TRUE, !.finished = now + 1, !.cause = "setup"])

(* Mutant: a new pod is reported with the death of the one before. *)
DeathKept == pod # NoPod /\ Happens([NoPod EXCEPT !.finished = pod.finished])

\* A rollout, a compose up or a start: a new pod or container.
PodReplaced == pod # NoPod /\ Happens(NoPod)

\* An operator stops it: the cluster removes the pod, Docker keeps the
\* container, its restart count and the time it ended.
OperatorStops ==
  Happens(IF host = "cluster" THEN NoPod ELSE [pod EXCEPT !.finished = now + 1, !.cause = "operator"])

-----------------------------------------------------------------------------
(* The watcher.                                                            *)

\* What Status reports.  Docker's failureFrom counts a container that the
\* restart policy has never restarted as not failed.
Reported == IF host = "docker" /\ pod.restarts = 0 THEN NoPod ELSE pod

\* Check and checkOne up to the status; no failure, or no status: nothing.
CheckBegins ==
  /\ ~watcher.reading
  /\ IF Crashed(Reported) THEN watcher' = [reading |-> TRUE, failure |-> Reported] /\ UNCHANGED quiet
     ELSE quiet' = TRUE /\ UNCHANGED watcher
  /\ UNCHANGED <<host, pod, now, incidents>>

\* LastIncident: RecordIncident stores no step and scanIncident reads none.
LastIncident == incidents[Len(incidents)]

(* Mutant: the time of death is not looked at. *)
IsNewByCount(f) == \/ incidents = <<>>
                   \/ RestartCount(f) > LastIncident.restarts
                   \/ f.step

(* Mutant: everything that finished is new. *)
IsNewAlways(f) == f.finished > 0

IsNew(f) == \/ incidents = <<>>
            \/ RestartCount(f) > LastIncident.restarts
            \/ f.step # LastIncident.step
            \/ f.finished > LastIncident.at

(* Mutant: an Incident is dated at the death it is about. *)
DatedEarly(f) == [at |-> f.finished - 1, restarts |-> RestartCount(f), step |-> FALSE, of |-> f.finished, cause |-> f.cause, setup |-> f.step]

\* The row that RecordIncident stores; "of" is the death it is
\* about, "setup" whether a setup step of that pod had failed.
Incident(f) == [at |-> now, restarts |-> RestartCount(f), step |-> FALSE, of |-> f.finished, cause |-> f.cause, setup |-> f.step]

\* The rest of checkOne.
CheckEnds ==
  /\ watcher.reading /\ watcher' = Idle
  /\ \/ /\ incidents' = IF IsNew(watcher.failure) THEN Append(incidents, Incident(watcher.failure)) ELSE incidents
        /\ quiet' = (watcher.failure = Reported)
     \/ StoreFails /\ UNCHANGED <<incidents, quiet>>
  /\ Len(incidents) <= MaxEvents
  /\ UNCHANGED <<host, pod, now>>

HealthNext == \/ ServerDies \/ SetupStepFails \/ PodReplaced \/ OperatorStops
              \/ CheckBegins \/ CheckEnds

HealthSpec == InitHealth /\ [][HealthNext]_healthVars

-----------------------------------------------------------------------------
Recorded(n) == \E i \in DOMAIN incidents : incidents[i].of = n

(* The same death is not recorded twice, however often it is
   looked at, whatever was recorded before it and however the counts start
   again (isNew).  In a pod
   whose setup failed once it is: IncidentFlood.cfg. *)
DeathsRecordedOnce ==
  \A i, j \in DOMAIN incidents :
    incidents[i].of = incidents[j].of /\ ~incidents[i].setup => i = j

(* After a check that nothing disturbed, the last death the runtime knows of
   is on record (checkOne).  A pod replaced within the check can die without
   being recorded: scenario SlowCheck. *)
NoDeathMissed == quiet /\ Crashed(Reported) /\ pod.cause # "operator" => Recorded(pod.finished)

(* Every death is recorded, and once (Check, isNew). *)
DeathsRecorded == DeathsRecordedOnce /\ NoDeathMissed

(* No failure is recorded twice, setup failures included: "unchanged failure
   recorded again: the watcher would spam one incident per tick"
   (app/health/watcher_test.go). *)
SameFailureIsNotRecordedTwice ==
  \A i, j \in DOMAIN incidents : incidents[i].of = incidents[j].of => i = j

(* An operator's stop is not recorded as a crash (failureFrom: "An operator
   stopping a server also exits non-zero"). *)
StopsAreNotCrashes == \A i \in DOMAIN incidents : incidents[i].cause # "operator"
=============================================================================
