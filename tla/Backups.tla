------------------------------ MODULE Backups ------------------------------
(***************************************************************************)
(* World archives: app/instances/manager.go (CreateBackup, RestoreInPlace, *)
(* RestoreNew, DeleteBackup), app/backups/scheduler.go (the daily pass),   *)
(* infra/backups (pruning) and infra/kube (the Jobs).                      *)
(*                                                                         *)
(* Agrelha only launches Jobs.  A Job's tar reads or replaces the world's  *)
(* data while the game server and every later request go on, so what an    *)
(* archive holds is decided after the request that asked for it answered.  *)
(***************************************************************************)
EXTENDS Naturals, FiniteSets, Sequences

CONSTANTS
  Worlds,        \* Instances of both games
  Minecraft,     \* those whose server has /save-off and /save-on
  Fresh,         \* the ones that do not exist yet: RestoreNew creates them
  Globs,         \* <<w, v>>: CreateBackup's pattern for w matches v's archives
  DailyGlobs,    \* the same for the pattern of the daily pass
  Keep,          \* archives a pruning leaves (5 in the code)
  Admins,        \* goroutines of the backup pages
  Scheduler,     \* the goroutine of the daily pass
  BackupFaults,  \* SUBSET {"job", "launch", "list", "command", "process", "overlap",
                 \* "delete"}.  Without "process", Agrelha is only restarted at a
                 \* quiet moment; without "overlap", a world is copied by one Job at
                 \* a time; without "delete", no operator deletes an archive between
                 \* the listing and the removals of a pruning
  MaxWrites, MaxVersions, MaxDays, MaxAsked, MaxJobs    \* bounds

ASSUME BackupsAssumption ==
  /\ Scheduler \notin Admins
  /\ Keep \in Nat \ {0} /\ MaxVersions \in Nat \ {0}

VARIABLES
  server,   \* server[w]: the game server: up or not, saving by itself or not
  disk,     \* disk[w]: the version of the data in w's volume, Torn if not whole
  version,  \* the versions written so far
  shelf,    \* the archives in the backups directory
  made,     \* made[n]: the world whose archive the n-th write was to: each copy
            \* writes when it begins and when it ends
  jobs,     \* the Jobs the cluster has not finished
  asked, \* requests of the backups page so far
  call,     \* call[p]: what a goroutine of Agrelha is doing
  exists,   \* the worlds that have a row
  clock     \* the date, whether it is 04:xx, and what the day's pass has done

backupVars == <<server, disk, version, shelf, made, jobs, asked, call, exists, clock>>

Torn == 0
Callers == Admins \cup {Scheduler}
NoCall == [pc |-> "idle", w |-> Scheduler, quiet |-> FALSE, old |-> {}, queue |-> {}]

BackupsTypeOK ==
  /\ server \in [Worlds -> [up : BOOLEAN, saving : BOOLEAN]]
  /\ disk \in [Worlds -> 0..version] /\ version \in 0..MaxVersions
  /\ \A a \in shelf : /\ a.at \in 1..Len(made) /\ a.world = made[a.at] /\ a.holds \in 0..version
                      /\ a.mod \in a.at..Len(made) /\ a.world = made[a.mod]
  /\ \A p \in Callers : /\ call[p].pc \in {"idle", "next", "launch", "finish"}
                        /\ call[p].pc \in {"launch", "finish"} => call[p].w \in exists
                        /\ p \in Admins => call[p].queue = {} /\ call[p].pc # "next"
  /\ \A j \in jobs : j.world \in exists /\ j.pc \in {"pending", "running"}

InitBackups ==
  /\ exists = Worlds \ Fresh
  /\ server = [w \in Worlds |-> [up |-> w \notin Fresh, saving |-> TRUE]]
  /\ version = 1 /\ disk = [w \in Worlds |-> IF w \in Fresh THEN Torn ELSE 1]
  /\ shelf = {} /\ made = <<>> /\ jobs = {} /\ asked = 0
  /\ call = [p \in Callers |-> NoCall]
  /\ clock = [day |-> 1, four |-> FALSE, last |-> 0, passes |-> 0, listed |-> {}, tried |-> {}]

-----------------------------------------------------------------------------
(* What reads and writes a volume.                                         *)

\* A write to w's data tears the copy every backup Job is making of it.
Tear(w, js) == {IF j.kind = "backup" /\ j.world = w /\ j.pc = "running"
                THEN [j EXCEPT !.holds = Torn] ELSE j : j \in js}

\* The server writes the world, by itself or because it is told to.
Written(w) == /\ version < MaxVersions
              /\ version' = version + 1
              /\ disk' = [disk EXCEPT ![w] = version + 1]
              /\ jobs' = Tear(w, jobs)

ServerSaves(w) == /\ server[w].up /\ server[w].saving /\ Written(w)
                  /\ UNCHANGED <<server, shelf, made, asked, call, exists, clock>>

ServerStops(w) == /\ server[w].up
                  /\ server' = [server EXCEPT ![w].up = FALSE]
                  /\ UNCHANGED <<disk, version, shelf, made, jobs, asked, call, exists, clock>>

ServerStarts(w) == /\ w \in exists /\ ~server[w].up
                   /\ server' = [server EXCEPT ![w] = [up |-> TRUE, saving |-> TRUE]]
                   /\ UNCHANGED <<disk, version, shelf, made, jobs, asked, call, exists, clock>>

\* The Job's archive is begun, and not yet whole.
InProgress(j) == j.kind = "backup" /\ (j.pc = "running" \/ j.tries = 1)

\* The tar of CreateBackupJob: the archive has its final name from the start,
\* and the time of its last write is its ModTime.
CopyBegins(j) ==
  /\ j \in jobs /\ j.kind = "backup" /\ j.pc = "pending"
  /\ j.tries = 0 => Len(made) < MaxWrites
  /\ "overlap" \in BackupFaults \/ ~\E i \in jobs \ {j} : InProgress(i) /\ i.world = j.world
  /\ made' = Append(made, j.world)
  /\ LET n == IF j.tries = 0 THEN Len(made) + 1 ELSE j.at IN
     /\ shelf' = {a \in shelf : a.at # n}
                 \cup {[world |-> j.world, at |-> n, holds |-> Torn, mod |-> Len(made) + 1]}
     /\ jobs' = (jobs \ {j}) \cup {[j EXCEPT !.pc = "running", !.at = n, !.holds = disk[j.world]]}
  /\ UNCHANGED <<server, disk, version, asked, call, exists, clock>>

CopyEnds(j) ==
  /\ j \in jobs /\ j.kind = "backup" /\ j.pc = "running"
  /\ made' = Append(made, j.world)
  /\ shelf' = {IF a.at = j.at THEN [a EXCEPT !.holds = j.holds, !.mod = Len(made) + 1] ELSE a : a \in shelf}
  /\ jobs' = jobs \ {j}
  /\ UNCHANGED <<server, disk, version, asked, call, exists, clock>>

\* The rm -rf of CreateRestoreJob ...
RestoreBegins(j) == /\ j \in jobs /\ j.kind = "restore" /\ j.pc = "pending"
                    /\ disk' = [disk EXCEPT ![j.world] = Torn]
                    /\ jobs' = Tear(j.world, (jobs \ {j}) \cup {[j EXCEPT !.pc = "running"]})
                    /\ UNCHANGED <<server, version, shelf, made, asked, call, exists, clock>>

\* ... and its tar.  Without the archive it fails, with half of one it may
\* leave half a world.
RestoreEnds(j) == /\ j \in jobs /\ j.kind = "restore" /\ j.pc = "running"
                  /\ \E a \in shelf : /\ a.at = j.at
                                      /\ disk' = [disk EXCEPT ![j.world] = a.holds]
                  /\ jobs' = Tear(j.world, jobs \ {j})
                  /\ UNCHANGED <<server, version, shelf, made, asked, call, exists, clock>>

\* A pod fails; BackoffLimit 1 starts it once more, then the Job is over.
JobFails(j) == /\ j \in jobs /\ j.pc = "running"
               /\ \/ "job" \in BackupFaults
                  \/ j.kind = "restore" /\ ~\E a \in shelf : a.at = j.at
               /\ jobs' = (jobs \ {j}) \cup (IF j.tries = 0
                                             THEN {[j EXCEPT !.pc = "pending", !.tries = 1]} ELSE {})
               /\ UNCHANGED <<server, disk, version, shelf, made, asked, call, exists, clock>>

-----------------------------------------------------------------------------
(* A backup: quiesce the server, launch the Job, prune, let it save again. *)

\* A Job that has not begun stands for every later one like it: they would
\* all copy what the volume holds when they begin.
BackupJob(w) == [kind |-> "backup", world |-> w, pc |-> "pending", at |-> 0, holds |-> Torn, tries |-> 0]
RestoreJob(w, n) == [kind |-> "restore", world |-> w, pc |-> "pending", at |-> n, holds |-> Torn, tries |-> 0]

\* /save-off and /save-all flush for a Minecraft world that was read as
\* running; the manager tells a Valheim server to save, the pass does not.
\* A command that fails is ignored.
Quiesced(w, up, tell) ==
  \/ /\ up /\ server[w].up /\ (tell \/ w \in Minecraft)
     /\ server' = [server EXCEPT ![w].saving = @ /\ w \notin Minecraft]
     /\ IF version < MaxVersions THEN Written(w) ELSE UNCHANGED <<version, disk, jobs>>
  \/ /\ ~up \/ ~server[w].up \/ ~(tell \/ w \in Minecraft) \/ "command" \in BackupFaults
     /\ UNCHANGED <<server, version, disk, jobs>>

Begun(w, up, q) == [NoCall EXCEPT !.pc = "launch", !.w = w, !.quiet = up /\ w \in Minecraft, !.queue = q]

\* POST .../backups/create up to the Job.
CreateBackup(p, w) ==
  /\ p \in Admins /\ call[p].pc = "idle" /\ w \in exists /\ asked < MaxAsked
  /\ asked' = asked + 1
  /\ Quiesced(w, server[w].up, TRUE)
  /\ call' = [call EXCEPT ![p] = Begun(w, server[w].up, {})]
  /\ UNCHANGED <<shelf, made, exists, clock>>

\* pruneBackups and PruneBackups: glob, stat, by ModTime newest first, beyond
\* Keep.
Matching(p) == {a \in shelf : <<call[p].w, a.world>> \in (IF p = Scheduler THEN DailyGlobs ELSE Globs)}

(* Mutant: oldest first. *)
OldestFirst(p) == {a \in Matching(p) : Cardinality({b \in Matching(p) : b.mod < a.mod}) >= Keep}

Excess(p) == {a \in Matching(p) : Cardinality({b \in Matching(p) : b.mod > a.mod}) >= Keep}

(* Mutant: a Job that cannot be launched ends the whole pass. *)
LaunchOrGiveUp(p) ==
  /\ call[p].pc = "launch"
  /\ \/ /\ Cardinality(jobs) < MaxJobs
        /\ jobs' = jobs \cup {BackupJob(call[p].w)}
        /\ call' = [call EXCEPT ![p].pc = "finish"]
     \/ /\ call' = [call EXCEPT ![p].pc = "finish", ![p].queue = {}]
        /\ UNCHANGED jobs
  /\ clock' = IF p = Scheduler THEN [clock EXCEPT !.tried = @ \cup {call[p].w}] ELSE clock
  /\ UNCHANGED <<server, disk, version, shelf, made, asked, exists>>

\* CreateBackupJob, and the listing of what to prune when it succeeded.
Launch(p) ==
  /\ call[p].pc = "launch"
  /\ \/ /\ Cardinality(jobs) < MaxJobs
        /\ jobs' = jobs \cup {BackupJob(call[p].w)}
        /\ call' = [call EXCEPT ![p].pc = "finish", ![p].old = {a.at : a \in Excess(p)}]
     \/ /\ "launch" \in BackupFaults
        /\ call' = [call EXCEPT ![p].pc = "finish"]
        /\ UNCHANGED jobs
  /\ clock' = IF p = Scheduler THEN [clock EXCEPT !.tried = @ \cup {call[p].w}] ELSE clock
  /\ UNCHANGED <<server, disk, version, shelf, made, asked, exists>>

Returned(p) == [NoCall EXCEPT !.pc = IF p = Scheduler THEN "next" ELSE "idle", !.queue = call[p].queue]

(* Mutant: no /save-on when the Job was not launched. *)
SaveOnAfterJob(p) ==
  IF call[p].quiet /\ server[call[p].w].up /\ \E j \in jobs : j.world = call[p].w
  THEN server' = [server EXCEPT ![call[p].w].saving = TRUE] ELSE UNCHANGED server

\* The deferred /save-on, sent whatever happened before.
SaveOn(p) ==
  \/ /\ call[p].quiet /\ server[call[p].w].up
     /\ server' = [server EXCEPT ![call[p].w].saving = TRUE]
  \/ /\ ~call[p].quiet \/ ~server[call[p].w].up \/ "command" \in BackupFaults
     /\ UNCHANGED server

\* The removal of the archives that were listed, and the return.
Finish(p) ==
  /\ call[p].pc = "finish"
  /\ shelf' = {a \in shelf : a.at \notin call[p].old}
  /\ SaveOn(p)
  /\ call' = [call EXCEPT ![p] = Returned(p)]
  /\ UNCHANGED <<disk, version, made, jobs, asked, exists, clock>>

-----------------------------------------------------------------------------
(* The other requests of the backups page.                                 *)

\* The safety snapshot and the restore are two Jobs; neither waits for the
\* other, and whether the first one was launched is not looked at.
RestoreInPlace(p, w, a) ==
  /\ p \in Admins /\ call[p].pc = "idle" /\ w \in exists /\ asked < MaxAsked /\ Cardinality(jobs) < MaxJobs
  /\ ~server[w].up /\ a \in shelf /\ <<w, a.world>> \in Globs
  /\ asked' = asked + 1
  /\ \E safety \in IF "launch" \in BackupFaults THEN {{}, {BackupJob(w)}} ELSE {{BackupJob(w)}} :
       jobs' = jobs \cup safety \cup {RestoreJob(w, a.at)}
  /\ UNCHANGED <<server, disk, version, shelf, made, call, exists, clock>>

(* Mutant: the Job is launched although the Instance could not be created. *)
RestoreUncreated(p, w, a) ==
  /\ p \in Admins /\ call[p].pc = "idle" /\ w \notin exists /\ asked < MaxAsked
  /\ a \in shelf /\ asked' = asked + 1
  /\ jobs' = jobs \cup {RestoreJob(w, a.at)}
  /\ UNCHANGED <<server, disk, version, shelf, made, call, exists, clock>>

\* CreateInstance with State stopped, then the restore Job.
RestoreNew(p, w, a) ==
  /\ p \in Admins /\ call[p].pc = "idle" /\ w \notin exists /\ asked < MaxAsked /\ Cardinality(jobs) < MaxJobs
  /\ a \in shelf /\ (w \in Minecraft <=> a.world \in Minecraft) /\ asked' = asked + 1
  /\ exists' = exists \cup {w}
  /\ \/ jobs' = jobs \cup {RestoreJob(w, a.at)}
     \/ "launch" \in BackupFaults /\ UNCHANGED jobs
  /\ UNCHANGED <<server, disk, version, shelf, made, call, clock>>

DeleteBackup(p, a) ==
  /\ p \in Admins /\ call[p].pc = "idle" /\ a \in shelf /\ asked < MaxAsked
  /\ "delete" \in BackupFaults \/ \A q \in Callers : call[q].old = {}
  /\ shelf' = shelf \ {a} /\ asked' = asked + 1
  /\ UNCHANGED <<server, disk, version, made, jobs, call, exists, clock>>

-----------------------------------------------------------------------------
(* The daily pass.                                                         *)

\* A tick falls in every hour, and the loop takes it unless a pass is still
\* under way.
HourPasses ==
  /\ clock.four => clock.last = clock.day \/ call[Scheduler].pc # "idle"
  /\ IF clock.four THEN clock.day < MaxDays /\ clock' = [clock EXCEPT !.four = FALSE, !.day = @ + 1, !.passes = 0]
                   ELSE clock' = [clock EXCEPT !.four = TRUE]
  /\ UNCHANGED <<server, disk, version, shelf, made, jobs, asked, call, exists>>

(* Mutant: the date is noted only when the worlds could be listed. *)
RunDailyAgain ==
  /\ clock.four /\ clock.last # clock.day /\ call[Scheduler].pc = "idle"
  /\ \E listed \in {{w \in exists : server[w].up}, {}} :
       /\ clock' = [clock EXCEPT !.last = IF listed = {} THEN 0 ELSE clock.day, !.passes = @ + 1, !.listed = listed, !.tried = {}]
       /\ call' = [call EXCEPT ![Scheduler] = [NoCall EXCEPT !.pc = "next", !.queue = listed]]
  /\ UNCHANGED <<server, disk, version, shelf, made, jobs, asked, exists>>

\* Start's loop and the head of RunDaily.
RunDaily ==
  /\ clock.four /\ clock.last # clock.day /\ call[Scheduler].pc = "idle"
  /\ \E listed \in {{w \in exists : server[w].up}} \cup (IF "list" \in BackupFaults THEN {{}} ELSE {}) :
       /\ clock' = [clock EXCEPT !.last = clock.day, !.passes = @ + 1, !.listed = listed, !.tried = {}]
       /\ call' = [call EXCEPT ![Scheduler] = [NoCall EXCEPT !.pc = "next", !.queue = listed]]
  /\ UNCHANGED <<server, disk, version, shelf, made, jobs, asked, exists>>

\* The loop of RunDaily over the worlds that were running when it listed
\* them, in the order of their Numbers.
BackupOne ==
  /\ call[Scheduler].pc = "next"
  /\ LET q == call[Scheduler].queue
         w == CHOOSE v \in q : TRUE
     IN IF q = {} THEN /\ call' = [call EXCEPT ![Scheduler] = NoCall]
                       /\ UNCHANGED <<server, version, disk, jobs>>
        ELSE Quiesced(w, TRUE, FALSE) /\ call' = [call EXCEPT ![Scheduler] = Begun(w, TRUE, q \ {w})]
  /\ UNCHANGED <<shelf, made, asked, exists, clock>>

\* Agrelha dies and is started again; the Jobs and the servers are not its
\* children, and lastDailyDate was a local variable.
ProcessRestarts ==
  /\ "process" \in BackupFaults \/ (~clock.four /\ \A p \in Callers : call[p].pc = "idle")
  /\ call' = [p \in Callers |-> NoCall]
  /\ clock' = [clock EXCEPT !.last = 0]
  /\ UNCHANGED <<server, disk, version, shelf, made, jobs, asked, exists>>

-----------------------------------------------------------------------------
BackupsNext ==
  \/ \E w \in Worlds : ServerSaves(w) \/ ServerStops(w) \/ ServerStarts(w)
  \/ \E j \in jobs : CopyBegins(j) \/ CopyEnds(j) \/ RestoreBegins(j) \/ RestoreEnds(j) \/ JobFails(j)
  \/ \E p \in Callers : Launch(p) \/ Finish(p)
  \/ \E p \in Admins, w \in Worlds : CreateBackup(p, w)
  \/ \E p \in Admins, a \in shelf : DeleteBackup(p, a)
  \/ \E p \in Admins, w \in Worlds, a \in shelf : RestoreInPlace(p, w, a) \/ RestoreNew(p, w, a)
  \/ HourPasses \/ RunDaily \/ BackupOne \/ ProcessRestarts

BackupsSpec == InitBackups /\ [][BackupsNext]_backupVars

-----------------------------------------------------------------------------
(* A server that runs without saving is one that a backup in progress has
   told so and will tell to save again: neither a failed Job nor another
   backup in between leaves it without saves (the deferred /save-on of
   CreateBackup and backupOne).  A crash or a failed command does:
   SavesLost.cfg. *)
SavesReturn ==
  \A w \in Worlds : server[w].up /\ ~server[w].saving => \E p \in Callers : call[p].w = w /\ call[p].quiet

(* Pruning removes an archive only when Keep others of its own world, written
   later, are there and stay, whatever Jobs and other prunings run between the
   listing and the removals (pruneBackups, PruneBackups): goroutines act on
   archives by Finish alone.  Nothing is said of what those hold: they may be
   torn, or copies that have just begun.  It takes patterns that match one
   world only, copies of a world one at a time, and no deletion by hand in
   between: SharedGlob, OverlappingCopies and DeletedMeanwhile are the
   scenarios. *)
PruneSparesNewest ==
  [][\A a \in shelf \ shelf' : call' # call =>
       Keep <= Cardinality({b \in shelf' : b.world = a.world /\ b.mod > a.mod})]_backupVars

(* At most one daily pass a day (Start's "once per calendar day").  A
   restart of Agrelha between four and five runs a second: scenario DailyTwice. *)
OncePerCalendarDay == clock.passes <= 1

(* A daily pass that ended tried every world that it listed as running: the
   failure of one is not the failure of the others (backupOne). *)
DailyReachesAll ==
  call[Scheduler].pc = "idle" /\ clock.last = clock.day => clock.listed \subseteq clock.tried

(* One daily pass a day reaches every world, and what it or an operator's
   backup prunes leaves Keep later archives of the world in the directory
   (RunDaily, PruneBackups). *)
DailyPassIsRight == [](OncePerCalendarDay /\ DailyReachesAll) /\ PruneSparesNewest

(* What a restore replaces is in an archive by then: "safety snapshot saved"
   (handlers/backups, RestoreInPlace). *)
SafetySnapshotSaved ==
  [][\A w \in Worlds : /\ disk[w] # Torn /\ disk'[w] = Torn
                       => \E a \in shelf : a.world = w /\ a.holds = disk[w]]_backupVars

(* A backup of a Minecraft world that was flushed for it holds one version
   of the world: "Flush world save via command executor" (CreateBackup). *)
BackupIsOneVersion == \A a \in shelf : a.holds = Torn => \E j \in jobs : j.at = a.at

(* A restore that is over left a whole world (CreateRestoreJob). *)
RestoreLeavesAWorld ==
  \A w \in exists : (\E j \in jobs : j.world = w /\ j.kind = "restore") \/ disk[w] # Torn
=============================================================================
