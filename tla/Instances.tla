----------------------------- MODULE Instances -----------------------------
(***************************************************************************)
(* The life cycle of the Instances of one game: InstanceManager of         *)
(* internal/app/instances/manager.go, its SQLite rows, the declarative     *)
(* state store, the runtime that hosts the servers, and the per-Instance   *)
(* access Roles of the identity provider.                                  *)
(*                                                                         *)
(* Every operator request runs in a goroutine of its own (an element of    *)
(* Procs).  Only CreateInstance and StartInstance hold budgetMu; all the   *)
(* other operations interleave freely with them and with each other.  One  *)
(* action is one call that reads or changes shared state, so everything    *)
(* read before a call may be stale when the next call uses it.             *)
(***************************************************************************)
EXTENDS Integers, FiniteSets, FiniteSetsExt

CONSTANTS
  MaxInstances,    \* maxInstances: the Instance Numbers are 1..MaxInstances
  MaxRunning,      \* maxRunning
  TotalBudgetGiB,  \* totalBudgetGiB
  Sizes,           \* memory sizes a Tier can give a world, in GiB
  Host,            \* where the game's worlds run: "cluster" or "docker"
  RuntimeAddress,  \* the address the runtime reports: "planned" or "actual"
  InstantBoot,     \* TRUE: Status is Available as soon as the server is up
  CreatedState,    \* the state a new Instance is asked for: the wizards say
                   \* "running", a restore into a new world "stopped"
  Procs,           \* request goroutines
  NoProc,          \* budgetMu is free
  Kinds,           \* the operations requested in this instance of the model
  Faults,          \* the calls that may fail
  Existing,        \* Numbers that hold a stopped world when agrelha boots
  MaxWorlds        \* bound on the worlds ever created

Numbers  == 1 .. MaxInstances
WorldIDs == 0 .. MaxWorlds          \* 0 stands for "no world"
States   == {"running", "stopped", "provisioning", "error"}
Phases   == {"absent", "stopped", "booting", "ready", "looping"}
Addresses == {"planned", "actual"}
AllKinds == {"create", "start", "stop", "restart", "delete", "resize",
             "tier", "settings", "view", "reconcile", "grant"}
AllFaults == {"status", "runtime", "store", "read", "db", "idp", "process", "server"}
Pcs == {"idle", "lock", "get", "list", "status", "persist", "pick", "dirfree",
        "role", "write", "converge", "row", "tierrow", "undo", "scale", "mark", "destroy",
        "undir", "unrow", "unrole", "ensure"}

(***************************************************************************)
(* budgetMu guards number allocation and the start gate; a Number is at    *)
(* least 1 and a world holds memory.                                       *)
(***************************************************************************)
ASSUME ConstantsAssumption ==
  /\ MaxInstances \in Nat \ {0}
  /\ MaxRunning \in Nat \ {0}
  /\ TotalBudgetGiB \in Nat
  /\ Sizes \subseteq Nat \ {0}
  /\ Sizes # {}
  /\ Host \in {"cluster", "docker"}
  /\ RuntimeAddress \in Addresses
  /\ InstantBoot \in BOOLEAN
  /\ CreatedState \in {"running", "stopped"}
  /\ NoProc \notin Procs
  /\ Kinds \subseteq AllKinds
  /\ Faults \subseteq AllFaults
  /\ Existing \subseteq Numbers
  /\ MaxWorlds \in Nat
  /\ MaxInstances <= MaxWorlds

VARIABLES
  row,        \* the game's instance table, by Number
  dir,        \* the Instance directories of the state store (slot.yaml)
  srv,        \* what the runtime hosts under each Number
  role,       \* which Instance Roles exist in the identity provider
  keepers,    \* the worlds for which some Account was granted each Role
  lock,       \* the holder of budgetMu
  op,         \* the request each goroutine is serving
  minted,     \* how many WorldIDs CreateInstance has minted
  reconciled, \* the boot-time role reconciliation has been launched
  gone        \* history: worlds whose row a DeleteInstance removed

vars == <<row, dir, srv, role, keepers, lock, op, minted, reconciled, gone>>

-----------------------------------------------------------------------------
(* Data *)

Rows == [world : WorldIDs, state : States, mem : Sizes \cup {0}, addr : Addresses]
NoRow == [world |-> 0, state |-> "stopped", mem |-> 0, addr |-> "planned"]

(* The rendered manifests; run is replicas: 1, rendered from the state. *)
Dirs == [world : WorldIDs, mem : Sizes \cup {0}, run : BOOLEAN]
NoDir == [world |-> 0, mem |-> 0, run |-> FALSE]

Servers == [phase : Phases, mem : Sizes \cup {0}]
NoServer == [phase |-> "absent", mem |-> 0]

(* A request: what it does, the call it makes next, the Number it is about, *)
(* the size it asks for, the records it holds in memory, the ones it still  *)
(* has to refresh, and whether its first lookup is behind it.               *)
Ops == [kind : AllKinds \cup {"none"}, pc : Pcs, n : Numbers \cup {0},
        size : Sizes \cup {0}, inst : Rows, copy : [Numbers -> Rows],
        todo : SUBSET Numbers, second : BOOLEAN]

Idle == [kind |-> "none", pc |-> "idle", n |-> 0, size |-> 0, inst |-> NoRow,
         copy |-> [m \in Numbers |-> NoRow], todo |-> {}, second |-> FALSE]

Up == {"booting", "ready", "looping"}       \* Lifecycle running
UpPhase == IF InstantBoot THEN "ready" ELSE "booting"
Used == {m \in Numbers : row[m].world # 0}

(* stateFromStatus: a crash loop first, then Available, then Lifecycle. *)
stateFromStatus(phase) ==
  CASE phase = "looping" -> "error"
    [] phase = "ready"   -> "running"
    [] phase = "booting" -> "provisioning"
    [] OTHER             -> "stopped"

(* runtime.Status errors when the host does not answer, and on the cluster  *)
(* also while the Deployment does not exist; Docker reports a missing       *)
(* container as stopped.                                                    *)
StatusMayFail(m) == "status" \in Faults \/ (Host = "cluster" /\ srv[m].phase = "absent")
StatusAnswers(m) == ~(Host = "cluster" /\ srv[m].phase = "absent")

(* Mutant: the conflict clause also overwrites world_id. *)
UpsertEverything(t, n, r) == [t EXCEPT ![n] = r]

(* repo.Upsert: inserts the row, or overwrites every column of an existing  *)
(* one but world_id, whose first writer wins.                               *)
Upsert(t, n, r) ==
  [t EXCEPT ![n] = IF t[n].world = 0 THEN r ELSE [r EXCEPT !.world = t[n].world]]

(* repo.UpdateState: UPDATE ... WHERE number = n, nothing when no row is there. *)
UpdateState(t, n, s) == [t EXCEPT ![n] = IF t[n].world = 0 THEN @ ELSE [@ EXCEPT !.state = s]]

(* domain.CalculateBudget over the listed Instances other than n, and       *)
(* Budget.CanStart: only the ones in state running count.                   *)
RunningOthers(copy, n) == {m \in Numbers \ {n} : copy[m].world # 0 /\ copy[m].state = "running"}
UsedGiB(copy, S) == MapThenSumSet(LAMBDA m : copy[m].mem, S)
CanStart(copy, n, mem) ==
  LET R == RunningOthers(copy, n)
  IN  /\ Cardinality(R) < MaxRunning
      /\ UsedGiB(copy, R) + mem <= TotalBudgetGiB

(* Budget.CanCreate over the rows of repo.List. *)
CanCreate(used) == Cardinality(used) < MaxInstances

-----------------------------------------------------------------------------
(* Requests *)

At(p, pc) == op[p].pc = pc
Goto(p, pc) == op' = [op EXCEPT ![p].pc = pc]

(* From here on the request uses none of the records it has read.           *)
Later(o, pc) == [Idle EXCEPT !.kind = o.kind, !.pc = pc, !.n = o.n]
GotoForgetting(p, pc) == op' = [op EXCEPT ![p] = Later(op[p], pc)]

(* A handler returns; a deferred budgetMu.Unlock runs if it held the mutex. *)
Return(p) ==
  /\ op' = [op EXCEPT ![p] = Idle]
  /\ lock' = IF lock = p THEN NoProc ELSE lock

(* The records this request asked for are all refreshed. *)
Refreshed(p, kind) == op[p].kind = kind /\ op[p].pc = "status" /\ op[p].todo = {}

FirstPc(kind) ==
  CASE kind \in {"create", "start"}    -> "lock"
    [] kind \in {"view", "reconcile"}  -> "list"
    [] OTHER                           -> "get"

(* A request arrives.  The role reconciliation runs once after every boot.  *)
(* A create takes its WorldID with it, which bounds how many there are.     *)
Begin(p, kind, n, size) ==
  /\ At(p, "idle")
  /\ kind \in Kinds \ {"grant"}
  /\ kind \in {"create", "view", "reconcile"} <=> n = 0
  /\ kind \in {"create", "resize", "tier"} <=> size # 0
  /\ kind = "create" => minted < MaxWorlds
  /\ kind = "reconcile" => ~reconciled
  /\ reconciled' = (reconciled \/ kind = "reconcile")
  /\ minted' = IF kind = "create" THEN minted + 1 ELSE minted
  /\ op' = [op EXCEPT ![p] =
       [Idle EXCEPT !.kind = kind, !.pc = FirstPc(kind), !.n = n, !.size = size,
                    !.inst.world = IF kind = "create" THEN minted + 1 ELSE 0]]
  /\ UNCHANGED <<row, dir, srv, role, keepers, lock, gone>>

(* Mutant: budgetMu is not taken. *)
AcquireNothing(p) ==
  /\ At(p, "lock")
  /\ Goto(p, IF op[p].kind = "create" THEN "pick" ELSE "get")
  /\ UNCHANGED <<row, dir, srv, role, keepers, lock, minted, reconciled, gone>>

(* budgetMu.Lock at the top of CreateInstance and of StartInstance. *)
AcquireBudget(p) ==
  /\ At(p, "lock")
  /\ lock = NoProc
  /\ lock' = p
  /\ Goto(p, IF op[p].kind = "create" THEN "pick" ELSE "get")
  /\ UNCHANGED <<row, dir, srv, role, keepers, minted, reconciled, gone>>

(* GetInstance: repo.Get ... *)
GetInstance(p) ==
  LET n == op[p].n IN
  /\ At(p, "get")
  /\ \/ /\ row[n].world = 0 \/ "db" \in Faults
        /\ Return(p)
     \/ /\ row[n].world # 0
        /\ op' = [op EXCEPT ![p].pc = "status", ![p].todo = {n}, ![p].copy[n] = row[n]]
        /\ UNCHANGED lock
  /\ UNCHANGED <<row, dir, srv, role, keepers, minted, reconciled, gone>>

(* ListInstances: repo.List ... *)
ListInstances(p) ==
  /\ At(p, "list")
  /\ \/ /\ "db" \in Faults
        /\ Return(p)
     \/ /\ op' = [op EXCEPT ![p].pc = "status", ![p].todo = Used, ![p].copy = row, ![p].second = TRUE]
        /\ UNCHANGED lock
  /\ UNCHANGED <<row, dir, srv, role, keepers, minted, reconciled, gone>>

(* ... then runtime.Status for each record in turn; a host that does not    *)
(* answer leaves the recorded state ...                                     *)
ReadStatus(p) ==
  LET m == Min(op[p].todo)
      s == stateFromStatus(srv[m].phase)
      changed == s # op[p].copy[m].state \/ op[p].copy[m].addr # RuntimeAddress
  IN
  /\ At(p, "status")
  /\ op[p].todo # {}
  /\ \/ /\ StatusMayFail(m) \/ (StatusAnswers(m) /\ ~changed)
        /\ op' = [op EXCEPT ![p].todo = @ \ {m}]
     \/ /\ StatusAnswers(m) /\ changed
        /\ op' = [op EXCEPT ![p].pc = "persist", ![p].copy[m].state = s]
  /\ UNCHANGED <<row, dir, srv, role, keepers, lock, minted, reconciled, gone>>

(* Mutant: a failed write of a refreshed record is tried again. *)
PersistUntilWritten(p) ==
  LET m == Min(op[p].todo)
      r == [op[p].copy[m] EXCEPT !.addr = RuntimeAddress]
  IN
  /\ At(p, "persist")
  /\ \/ /\ row' = IF r # op[p].copy[m] THEN Upsert(row, m, r) ELSE UpdateState(row, m, r.state)
        /\ op' = [op EXCEPT ![p].pc = "status", ![p].todo = @ \ {m}, ![p].copy[m] = r]
     \/ /\ "db" \in Faults
        /\ op' = [op EXCEPT ![p].pc = "status", ![p].copy[m].state = row[m].state]
        /\ UNCHANGED row
  /\ UNCHANGED <<dir, srv, role, keepers, lock, minted, reconciled, gone>>

(* ... and a changed state is written with UpdateState, a changed address   *)
(* with an Upsert of the whole record; a failed write is ignored.           *)
PersistStatus(p) ==
  LET m == Min(op[p].todo)
      r == [op[p].copy[m] EXCEPT !.addr = RuntimeAddress]
  IN
  /\ At(p, "persist")
  /\ \/ row' = IF r # op[p].copy[m] THEN Upsert(row, m, r) ELSE UpdateState(row, m, r.state)
     \/ "db" \in Faults /\ UNCHANGED row
  /\ op' = [op EXCEPT ![p].pc = "status", ![p].todo = @ \ {m}, ![p].copy[m] = r]
  /\ UNCHANGED <<dir, srv, role, keepers, lock, minted, reconciled, gone>>

(* A page that shows the Instances. *)
ViewInstances(p) ==
  /\ Refreshed(p, "view")
  /\ Return(p)
  /\ UNCHANGED <<row, dir, srv, role, keepers, minted, reconciled, gone>>

(* The Instance a request works on: StartInstance keeps the one GetInstance *)
(* returned, whatever ListInstances read since.                             *)
Held(p) == IF op[p].kind = "start" THEN op[p].inst ELSE op[p].copy[op[p].n]

-----------------------------------------------------------------------------
(* CreateInstance, under budgetMu *)

(* repo.List, CanCreate, the lowest free Number. *)
PickNumber(p) ==
  LET n == Min(Numbers \ Used)
      r == [world |-> op[p].inst.world, state |-> CreatedState, mem |-> op[p].size, addr |-> "planned"]
  IN
  /\ At(p, "pick")
  /\ \/ /\ ~CanCreate(Used) \/ "db" \in Faults
        /\ Return(p)
     \/ /\ CanCreate(Used)
        /\ op' = [op EXCEPT ![p].pc = "dirfree", ![p].n = n, ![p].copy[n] = r]
        /\ UNCHANGED lock
  /\ UNCHANGED <<row, dir, srv, role, keepers, minted, reconciled, gone>>

(* Mutant: the directory is not looked at. *)
SkipDirCheck(p) ==
  /\ At(p, "dirfree")
  /\ Goto(p, "role")
  /\ UNCHANGED <<row, dir, srv, role, keepers, lock, minted, reconciled, gone>>

(* checkInstanceDirFree: a directory the database does not know is refused, *)
(* but a store that cannot be read counts as an empty one.                  *)
CheckInstanceDirFree(p) ==
  /\ At(p, "dirfree")
  /\ \/ /\ dir[op[p].n].world # 0
        /\ Return(p)
     \/ /\ dir[op[p].n].world = 0 \/ "read" \in Faults
        /\ Goto(p, "role")
        /\ UNCHANGED lock
  /\ UNCHANGED <<row, dir, srv, role, keepers, minted, reconciled, gone>>

(* Mutant: a Role that already exists counts as reserved. *)
ReserveOrReuseRole(p) ==
  /\ At(p, "role")
  /\ role' = [role EXCEPT ![op[p].n] = TRUE]
  /\ Goto(p, "write")
  /\ UNCHANGED <<row, dir, srv, keepers, lock, minted, reconciled, gone>>

(* roleRegistrar: AddRole fails when the Role already exists. *)
ReserveRole(p) ==
  LET n == op[p].n IN
  /\ At(p, "role")
  /\ \/ /\ role[n] \/ "idp" \in Faults
        /\ Return(p)
        /\ UNCHANGED role
     \/ /\ ~role[n]
        /\ role' = [role EXCEPT ![n] = TRUE]
        /\ Goto(p, "write")
        /\ UNCHANGED lock
  /\ UNCHANGED <<row, dir, srv, keepers, minted, reconciled, gone>>

(* Mutant: the Grants of a removed Role stay behind. *)
RemoveRoleOnly(n) ==
  \/ /\ role' = [role EXCEPT ![n] = FALSE]
     /\ UNCHANGED keepers
  \/ /\ "idp" \in Faults
     /\ UNCHANGED <<role, keepers>>

(* RetireInstanceRole: RemoveRole takes the Grants of the Role with it. *)
RemoveRole(n) ==
  \/ /\ role' = [role EXCEPT ![n] = FALSE]
     /\ keepers' = [keepers EXCEPT ![n] = {}]
  \/ /\ "idp" \in Faults
     /\ UNCHANGED <<role, keepers>>

(* roleRetirer after a failed create; its own error is ignored. *)
UndoRole(p) ==
  /\ At(p, "undo")
  /\ RemoveRole(op[p].n)
  /\ Return(p)
  /\ UNCHANGED <<row, dir, srv, minted, reconciled, gone>>

-----------------------------------------------------------------------------
(* writeManifests and the edits that share it *)

(* A failed write ends the handler; a create first retires its Role. *)
Fail(p) ==
  IF op[p].kind = "create" THEN Goto(p, "undo") /\ UNCHANGED lock ELSE Return(p)

AfterManifests(kind) == IF kind = "start" THEN "mark" ELSE "row"

(* ApplyTier reads the Instance, calls SetResources, which reads it again,  *)
(* and at the end saves the record it read first.                           *)
ApplyTier(p) ==
  /\ Refreshed(p, "tier")
  /\ ~op[p].second
  /\ op' = [op EXCEPT ![p].pc = "get", ![p].second = TRUE, ![p].inst = op[p].copy[op[p].n]]
  /\ UNCHANGED <<row, dir, srv, role, keepers, lock, minted, reconciled, gone>>

(* SetResources and UpdateSettings, on the record GetInstance returned. *)
EditInstance(p) ==
  LET n == op[p].n IN
  /\ \/ /\ Refreshed(p, "resize") \/ (Refreshed(p, "tier") /\ op[p].second)
        /\ op' = [op EXCEPT ![p].pc = "write", ![p].copy[n].mem = op[p].size]
     \/ /\ Refreshed(p, "settings")
        /\ Goto(p, "write")
  /\ UNCHANGED <<row, dir, srv, role, keepers, lock, minted, reconciled, gone>>

(* stateStore.PutTree of the rendered directory.  Only a settings save does *)
(* not converge; on the cluster converging is a no-op left to ArgoCD.       *)
WriteManifests(p) ==
  LET n == op[p].n
      k == op[p].kind
  IN
  /\ At(p, "write")
  /\ \/ /\ dir' = [dir EXCEPT ![n] = [world |-> Held(p).world, mem |-> Held(p).mem,
                                  run |-> (Held(p).state = "running")]]
        /\ Goto(p, IF Host = "docker" /\ k # "settings" THEN "converge" ELSE AfterManifests(k))
        /\ UNCHANGED lock
     \/ /\ "store" \in Faults
        /\ Fail(p)
        /\ UNCHANGED dir
  /\ UNCHANGED <<row, srv, role, keepers, minted, reconciled, gone>>

(* Materialize and `docker compose up -d`: starts a server that is not up,  *)
(* recreates one whose definition changed, and otherwise does nothing.      *)
Converge(p) ==
  LET n == op[p].n
      want == [phase |-> UpPhase, mem |-> Held(p).mem]
  IN
  /\ At(p, "converge")
  /\ \/ /\ srv' = [srv EXCEPT ![n] = IF @.phase \in Up /\ @.mem = want.mem THEN @ ELSE want]
        /\ Goto(p, AfterManifests(op[p].kind))
        /\ UNCHANGED lock
     \/ /\ "runtime" \in Faults
        /\ Fail(p)
        /\ UNCHANGED srv
  /\ UNCHANGED <<row, dir, role, keepers, minted, reconciled, gone>>

(* repo.Upsert of the record held in memory; ApplyTier goes on when the     *)
(* Tier's key differs from the recorded one.                                *)
SaveRow(p) ==
  LET n == op[p].n IN
  /\ At(p, "row")
  /\ \/ /\ row' = Upsert(row, n, Held(p))
        /\ \/ Return(p)
           \/ op[p].kind = "tier" /\ Goto(p, "tierrow") /\ UNCHANGED lock
     \/ /\ "db" \in Faults
        /\ Fail(p)
        /\ UNCHANGED row
  /\ UNCHANGED <<dir, srv, role, keepers, minted, reconciled, gone>>

SaveTier(p) ==
  /\ At(p, "tierrow")
  /\ \/ row' = Upsert(row, op[p].n, [op[p].inst EXCEPT !.mem = op[p].size])
     \/ "db" \in Faults /\ UNCHANGED row
  /\ Return(p)
  /\ UNCHANGED <<dir, srv, role, keepers, minted, reconciled, gone>>

-----------------------------------------------------------------------------
(* StartInstance, under budgetMu *)

(* A world already running is left alone; otherwise all Instances are listed. *)
StartCheck(p) ==
  LET r == op[p].copy[op[p].n] IN
  /\ Refreshed(p, "start")
  /\ ~op[p].second
  /\ \/ /\ r.state = "running"
        /\ Return(p)
     \/ /\ r.state # "running"
        /\ op' = [op EXCEPT ![p].pc = "list", ![p].inst = r]
        /\ UNCHANGED lock
  /\ UNCHANGED <<row, dir, srv, role, keepers, minted, reconciled, gone>>

(* The budget gate; a Docker world starts by converging its manifests. *)
StartGate(p) ==
  LET n == op[p].n
      fits == CanStart(op[p].copy, n, op[p].inst.mem)
  IN
  /\ Refreshed(p, "start")
  /\ op[p].second
  /\ \/ /\ ~fits
        /\ Return(p)
     \/ /\ fits
        /\ Goto(p, IF Host = "docker" THEN "write" ELSE "scale")
        /\ UNCHANGED lock
  /\ UNCHANGED <<row, dir, srv, role, keepers, minted, reconciled, gone>>

(* runtime.Start: the Deployment is scaled to one replica. *)
ScaleUp(p) ==
  LET n == op[p].n IN
  /\ At(p, "scale")
  /\ \/ /\ srv[n].phase = "absent" \/ "runtime" \in Faults
        /\ Return(p)
        /\ UNCHANGED srv
     \/ /\ srv[n].phase # "absent"
        /\ srv' = [srv EXCEPT ![n].phase = IF @ \in Up THEN @ ELSE UpPhase]
        /\ GotoForgetting(p, "mark")
        /\ UNCHANGED lock
  /\ UNCHANGED <<row, dir, role, keepers, minted, reconciled, gone>>

(* repo.UpdateState at the end of StartInstance and of StopInstance. *)
MarkState(p) ==
  /\ At(p, "mark")
  /\ \/ row' = UpdateState(row, op[p].n, IF op[p].kind = "start" THEN "running" ELSE "stopped")
     \/ "db" \in Faults /\ UNCHANGED row
  /\ Return(p)
  /\ UNCHANGED <<dir, srv, role, keepers, minted, reconciled, gone>>

-----------------------------------------------------------------------------
(* StopInstance, RestartInstance, DeleteInstance: no mutex *)

StopInstance(p) ==
  LET n == op[p].n IN
  /\ Refreshed(p, "stop")
  /\ \/ /\ srv[n].phase = "absent" \/ "runtime" \in Faults
        /\ Return(p)
        /\ UNCHANGED srv
     \/ /\ srv[n].phase # "absent"
        /\ srv' = [srv EXCEPT ![n].phase = "stopped"]
        /\ GotoForgetting(p, "mark")
        /\ UNCHANGED lock
  /\ UNCHANGED <<row, dir, role, keepers, minted, reconciled, gone>>

(* A rollout restart of a Deployment scaled to zero starts nothing; a       *)
(* Docker restart of a stopped container starts it.                         *)
RestartInstance(p) ==
  LET n == op[p].n IN
  /\ Refreshed(p, "restart")
  /\ \/ /\ srv[n].phase = "absent" \/ "runtime" \in Faults
        /\ UNCHANGED srv
     \/ /\ srv[n].phase # "absent"
        /\ srv' = [srv EXCEPT ![n].phase = IF Host = "docker" \/ @ \in Up THEN UpPhase ELSE @]
  /\ Return(p)
  /\ UNCHANGED <<row, dir, role, keepers, minted, reconciled, gone>>

(* runtime.Status again: a server that is up is refused, a host that does   *)
(* not answer is not.                                                       *)
DeleteInstance(p) ==
  LET n == op[p].n IN
  /\ Refreshed(p, "delete")
  /\ \/ /\ StatusAnswers(n) /\ srv[n].phase \in Up
        /\ Return(p)
     \/ /\ StatusMayFail(n) \/ srv[n].phase \notin Up
        /\ GotoForgetting(p, IF Host = "docker" THEN "destroy" ELSE "undir")
        /\ UNCHANGED lock
  /\ UNCHANGED <<row, dir, srv, role, keepers, minted, reconciled, gone>>

(* Destroyer.Destroy on a Docker host: compose down, then the saves; it can *)
(* fail before or after the containers are gone.                            *)
DestroyServer(p) ==
  LET n == op[p].n IN
  /\ At(p, "destroy")
  /\ \/ /\ srv' = [srv EXCEPT ![n] = NoServer]
        /\ Goto(p, "undir")
        /\ UNCHANGED lock
     \/ /\ "runtime" \in Faults
        /\ srv' \in {srv, [srv EXCEPT ![n] = NoServer]}
        /\ Return(p)
  /\ UNCHANGED <<row, dir, role, keepers, minted, reconciled, gone>>

(* stateStore.Delete of the Instance directory. *)
DeleteDir(p) ==
  /\ At(p, "undir")
  /\ \/ /\ dir' = [dir EXCEPT ![op[p].n] = NoDir]
        /\ Goto(p, "unrow")
        /\ UNCHANGED lock
     \/ /\ "store" \in Faults
        /\ Return(p)
        /\ UNCHANGED dir
  /\ UNCHANGED <<row, srv, role, keepers, minted, reconciled, gone>>

(* repo.Delete. *)
DeleteRow(p) ==
  LET n == op[p].n IN
  /\ At(p, "unrow")
  /\ \/ /\ row' = [row EXCEPT ![n] = NoRow]
        /\ gone' = gone \cup ({row[n].world} \ {0})
        /\ Goto(p, "unrole")
        /\ UNCHANGED lock
     \/ /\ "db" \in Faults
        /\ Return(p)
        /\ UNCHANGED <<row, gone>>
  /\ UNCHANGED <<dir, srv, role, keepers, minted, reconciled>>

(* roleRetirer: an error is recorded as an orphaned Role, and that is all. *)
RetireRole(p) ==
  /\ At(p, "unrole")
  /\ RemoveRole(op[p].n)
  /\ Return(p)
  /\ UNCHANGED <<row, dir, srv, minted, reconciled, gone>>

-----------------------------------------------------------------------------
(* The boot-time role reconciliation *)

ReconcileInstanceRoles(p) ==
  LET listed == {m \in Numbers : op[p].copy[m].world # 0} IN
  /\ Refreshed(p, "reconcile")
  /\ \/ /\ listed = {}
        /\ Return(p)
     \/ /\ listed # {}
        /\ op' = [op EXCEPT ![p].pc = "ensure", ![p].todo = listed]
        /\ UNCHANGED lock
  /\ UNCHANGED <<row, dir, srv, role, keepers, minted, reconciled, gone>>

(* EnsureInstanceRole: a Role that exists is left as it is. *)
EnsureInstanceRole(p) ==
  LET m == Min(op[p].todo) IN
  /\ At(p, "ensure")
  /\ \/ /\ role' = [role EXCEPT ![m] = TRUE]
     \/ "idp" \in Faults /\ UNCHANGED role
  /\ \/ /\ op[p].todo = {m}
        /\ Return(p)
     \/ /\ op[p].todo # {m}
        /\ op' = [op EXCEPT ![p].todo = @ \ {m}]
        /\ UNCHANGED lock
  /\ UNCHANGED <<row, dir, srv, keepers, minted, reconciled, gone>>

(* Mutant: a Grant is recorded for a Number that holds no world. *)
GrantAnyway(n) ==
  /\ "grant" \in Kinds
  /\ role[n]
  /\ keepers' = [keepers EXCEPT ![n] = @ \cup {row[n].world}]
  /\ UNCHANGED <<row, dir, srv, role, lock, op, minted, reconciled, gone>>

(* Authz.Grant: names a Number, and asks the registry alone whether the     *)
(* Role is there.                                                           *)
Grant(n) ==
  /\ "grant" \in Kinds
  /\ role[n]
  /\ keepers' = [keepers EXCEPT ![n] = @ \cup ({row[n].world} \ {0})]
  /\ UNCHANGED <<row, dir, srv, role, lock, op, minted, reconciled, gone>>

-----------------------------------------------------------------------------
(* The environment: ArgoCD, the servers themselves, and agrelha's process *)

(* ArgoCD applies a directory it finds in git: a new Deployment gets the    *)
(* rendered replica count, a changed size rolls an existing one.  It leaves *)
(* the replicas of an existing Deployment alone, or no start would last.    *)
ArgoSync(n) ==
  /\ Host = "cluster"
  /\ dir[n].world # 0
  /\ srv[n].mem # dir[n].mem
  /\ srv' = [srv EXCEPT ![n] = [phase |-> CASE @.phase \in Up -> UpPhase
                                             [] @.phase = "absent" /\ dir[n].run -> UpPhase
                                             [] OTHER -> "stopped",
                                mem   |-> dir[n].mem]]
  /\ UNCHANGED <<row, dir, role, keepers, lock, op, minted, reconciled, gone>>

(* ArgoCD prunes the objects of a directory that left git. *)
ArgoPrune(n) ==
  /\ Host = "cluster"
  /\ dir[n].world = 0
  /\ srv[n].phase # "absent"
  /\ srv' = [srv EXCEPT ![n] = NoServer]
  /\ UNCHANGED <<row, dir, role, keepers, lock, op, minted, reconciled, gone>>

(* A booting server becomes available. *)
ServerReady(n) ==
  /\ srv[n].phase = "booting"
  /\ srv' = [srv EXCEPT ![n].phase = "ready"]
  /\ UNCHANGED <<row, dir, role, keepers, lock, op, minted, reconciled, gone>>

(* A server starts crash-looping, or comes out of it. *)
ServerCrash(n) ==
  /\ "server" \in Faults
  /\ srv[n].phase \in {"booting", "ready", "looping"}
  /\ srv' = [srv EXCEPT ![n].phase = IF @ = "looping" THEN "ready" ELSE "looping"]
  /\ UNCHANGED <<row, dir, role, keepers, lock, op, minted, reconciled, gone>>

(* agrelha dies and boots again: every request in flight is lost. *)
AgrelhaRestart ==
  /\ "process" \in Faults
  /\ op' = [p \in Procs |-> Idle]
  /\ lock' = NoProc
  /\ reconciled' = FALSE
  /\ UNCHANGED <<row, dir, srv, role, keepers, minted, gone>>

-----------------------------------------------------------------------------

(* Worlds that already exist are numbered like their slot. *)
Init ==
  \E size \in [Numbers -> Sizes] :
    /\ row = [n \in Numbers |-> IF n \in Existing
                THEN [world |-> n, state |-> "stopped", mem |-> size[n], addr |-> "planned"]
                ELSE NoRow]
    /\ dir = [n \in Numbers |-> IF n \in Existing THEN [world |-> n, mem |-> size[n], run |-> FALSE] ELSE NoDir]
    /\ srv = [n \in Numbers |-> IF n \in Existing THEN [phase |-> "stopped", mem |-> size[n]]
                                                  ELSE NoServer]
    /\ role \in [Numbers -> BOOLEAN]
    /\ \A n \in Numbers : role[n] <=> n \in Existing
    /\ keepers = [n \in Numbers |-> {}]
    /\ lock = NoProc
    /\ op = [p \in Procs |-> Idle]
    /\ minted = IF Existing = {} THEN 0 ELSE MaxInstances
    /\ reconciled = FALSE
    /\ gone = {}

Step(p) ==
  \/ AcquireBudget(p) \/ GetInstance(p) \/ ListInstances(p) \/ ReadStatus(p)
  \/ PersistStatus(p) \/ ViewInstances(p) \/ PickNumber(p)
  \/ CheckInstanceDirFree(p) \/ ReserveRole(p) \/ UndoRole(p)
  \/ ApplyTier(p) \/ EditInstance(p) \/ SaveTier(p)
  \/ WriteManifests(p) \/ Converge(p) \/ SaveRow(p) \/ StartCheck(p) \/ StartGate(p)
  \/ ScaleUp(p) \/ MarkState(p) \/ StopInstance(p) \/ RestartInstance(p)
  \/ DeleteInstance(p) \/ DestroyServer(p) \/ DeleteDir(p) \/ DeleteRow(p)
  \/ RetireRole(p) \/ ReconcileInstanceRoles(p) \/ EnsureInstanceRole(p)

Environment(n) == ArgoSync(n) \/ ArgoPrune(n) \/ ServerReady(n) \/ ServerCrash(n)

Request(p) ==
  \E kind \in Kinds, n \in Numbers \cup {0}, size \in Sizes \cup {0} : Begin(p, kind, n, size)

Next ==
  \/ \E p \in Procs : Request(p) \/ Step(p)
  \/ \E n \in Numbers : Grant(n) \/ Environment(n)
  \/ AgrelhaRestart

Spec == Init /\ [][Next]_vars

(* Go schedules every runnable goroutine, and sync.Mutex hands itself to    *)
(* the longest waiter once one has starved for a millisecond.               *)
Fairness == \A p \in Procs : WF_vars(Step(p)) /\ SF_vars(AcquireBudget(p))
FairSpec == Spec /\ Fairness

-----------------------------------------------------------------------------
(* Properties *)

(* Every variable holds what its declaration says. *)
TypeOK ==
  /\ row \in [Numbers -> Rows]
  /\ dir \in [Numbers -> Dirs]
  /\ srv \in [Numbers -> Servers]
  /\ role \in [Numbers -> BOOLEAN]
  /\ keepers \in [Numbers -> SUBSET (1 .. MaxWorlds)]
  /\ lock \in Procs \cup {NoProc}
  /\ op \in [Procs -> Ops]
  /\ minted \in WorldIDs
  /\ reconciled \in BOOLEAN
  /\ gone \subseteq 1 .. MaxWorlds

(* The Role as a slot reservation (CreateInstance, DeleteInstance): an      *)
(* Account granted access while one world held a Number never finds itself  *)
(* authorised on a later world at the same Number, whatever deletes,        *)
(* creates, crashes and identity-provider failures interleave.              *)
NoInheritedAccess ==
  \A n \in Numbers : row[n].world # 0 => keepers[n] \subseteq {row[n].world}

(* The manifests under a Number are those of the world in its row           *)
(* (checkInstanceDirFree, writeManifests): no interleaving leaves the state *)
(* store describing another world than the database does.                   *)
ManifestsMatchRow ==
  \A n \in Numbers : row[n].world # 0 /\ dir[n].world # 0 => dir[n].world = row[n].world

(* CreateInstance never renders over a directory some world already has,    *)
(* though it checks that several calls before it writes.                    *)
CreateNeverOverwrites ==
  [][\A p \in Procs : op[p].kind = "create" /\ WriteManifests(p) /\ dir' # dir
                        => dir[op[p].n].world = 0]_vars

(* A row keeps the world it was inserted with for as long as it is there:   *)
(* whatever stale record a settings save, a resize, a Tier or a status      *)
(* refresh writes back, a Number changes hands only through a delete        *)
(* (the world_id column of upsertSQL).                                      *)
WorldIDIsStable ==
  [][\A n \in Numbers : row[n].world # 0 /\ row'[n].world # 0
                          => row'[n].world = row[n].world]_vars

(***************************************************************************)
(* The inductive invariant behind the three properties above.              *)
(***************************************************************************)

(* Which operation is at which call, and that it is about a Number by then. *)
CallOK(o) ==
  /\ o.pc = "lock" => o.kind \in {"create", "start"}
  /\ o.pc \in {"pick", "dirfree", "role", "undo"} => o.kind = "create"
  /\ o.pc \in {"write", "converge"} => o.kind \in {"create", "start", "resize", "tier", "settings"}
  /\ o.pc = "row" => o.kind \in {"create", "resize", "tier", "settings"}
  /\ o.pc = "tierrow" => o.kind = "tier"
  /\ o.pc = "scale" => o.kind = "start"
  /\ o.pc = "mark" => o.kind \in {"start", "stop"}
  /\ o.pc \in {"destroy", "undir", "unrow", "unrole"} => o.kind = "delete"
  /\ o.pc = "get" => o.kind \notin {"create", "view", "reconcile", "none"}
  /\ o.pc \in {"list", "status", "persist"} => o.kind \notin {"create", "none"}
  /\ o.pc \in {"persist", "ensure"} => o.todo # {}
  /\ o.kind \notin {"create", "view", "reconcile", "none"} => o.n \in Numbers
  /\ o.pc \in {"dirfree", "role", "write", "converge", "row", "undo"} => o.n \in Numbers

PcOK == \A p \in Procs : CallOK(op[p])

(* budgetMu: whoever is past the Lock of CreateInstance or StartInstance     *)
(* holds the mutex, so no two such requests are ever there together.        *)
BudgetMutex ==
  \A p \in Procs : op[p].kind \in {"create", "start"} /\ op[p].pc # "lock" => lock = p

(* No edit is requested and no refresh finds anything of the record to      *)
(* correct (the address; in the code also the source and the installed      *)
(* build): then no operation but CreateInstance inserts a row.              *)
NoStaleUpserts ==
  /\ Kinds \cap {"resize", "tier", "settings"} = {}
  /\ RuntimeAddress = "planned"

Planned(o) ==
  /\ o.kind \notin {"resize", "tier", "settings"}
  /\ o.inst.addr = "planned"
  /\ \A n \in Numbers : o.copy[n].addr = "planned"

PlannedAddresses ==
  /\ \A n \in Numbers : row[n].addr = "planned"
  /\ \A p \in Procs : Planned(op[p])

(* An Account holds a Role only while the Role exists. *)
GrantsNeedRole == \A n \in Numbers : keepers[n] # {} => role[n]

(* From the moment CreateInstance picked its Number no row appears there;   *)
(* once it found the directory free no other world's manifests do; once it  *)
(* minted the Role no Account holds it.                                     *)
CreateOwns(o) ==
  o.kind = "create" =>
    /\ o.pc \in {"dirfree", "role", "write", "converge", "row"} => row[o.n].world = 0
    /\ o.pc \in {"role", "write"} => dir[o.n].world = 0 \/ "read" \in Faults
    /\ o.pc \in {"converge", "row"} => dir[o.n].world \in {0, o.copy[o.n].world}
    /\ o.pc \in {"write", "converge", "row"} => keepers[o.n] = {}

CreateOwnsNumber == \A p \in Procs : CreateOwns(op[p])

(* The world StartInstance read may be deleted under it, never replaced. *)
StartKeeps(o) ==
  o.kind = "start" =>
    /\ o.pc \in {"status", "persist"} /\ ~o.second => row[o.n].world \in {0, o.copy[o.n].world}
    /\ o.second \/ o.pc \in {"list", "write", "converge", "scale"}
         => row[o.n].world \in {0, o.inst.world}
    /\ o.pc \in {"write", "converge"} => o.second
    /\ o.pc \in {"lock", "get"} => ~o.second

StartKeepsWorld == \A p \in Procs : StartKeeps(op[p])

(* The inductive invariant of the Number reservation: whoever holds         *)
(* budgetMu is alone in deciding what a free Number becomes.                *)
SlotInv ==
  /\ TypeOK /\ PcOK /\ BudgetMutex /\ PlannedAddresses /\ GrantsNeedRole
  /\ CreateOwnsNumber /\ StartKeepsWorld
  /\ NoInheritedAccess /\ ManifestsMatchRow

(* The start gate: the servers the operators started never exceed the       *)
(* concurrency cap or the memory budget (StartInstance, Budget.CanStart).   *)
UpServers == {n \in Numbers : srv[n].phase \in Up}
StartsFitBudget ==
  /\ Cardinality(UpServers) <= MaxRunning
  /\ MapThenSumSet(LAMBDA n : srv[n].mem, UpServers) <= TotalBudgetGiB

(* No request hangs: each one returns to its caller, with budgetMu          *)
(* released on every path of CreateInstance and StartInstance, whichever    *)
(* calls to the runtime, the state store, the database and the identity     *)
(* provider fail.                                                           *)
RequestsReturn == \A p \in Procs : ~At(p, "idle") ~> At(p, "idle")

(* DeleteInstance: a world whose row was deleted never has a row again. *)
DeletionIsIrreversible == \A n \in Numbers : row[n].world \notin gone

(* DeleteInstance tears the runtime down before the records: a server is    *)
(* never left on a Docker host with no row, no manifests and no request     *)
(* about it.                                                                *)
NoSilentOrphan ==
  Host = "docker" =>
    \A n \in Numbers : srv[n].phase # "absent" =>
      row[n].world # 0 \/ \E p \in Procs : op[p].n = n

(* A settings save or a resize of a stopped world does not start it         *)
(* (SetResources, UpdateSettings).                                          *)
EditsDoNotStart ==
  [][\A p \in Procs : op[p].kind \in {"resize", "tier", "settings"} /\ Step(p)
       => \A n \in Numbers : srv[n].phase = "stopped" => srv'[n].phase \notin Up]_vars

(* A delete requested for a world the runtime keeps restarting is not       *)
(* refused (DeleteInstance).                                                *)
CrashLoopIsDeletable ==
  [][\A p \in Procs : DeleteInstance(p) /\ srv[op[p].n].phase = "looping"
       => op'[p].pc # "idle"]_vars

=============================================================================
