# agrelha in TLA+

agrelha is a control plane for game servers: it keeps numbered Instances of
Valheim, Minecraft and Garry's Mod worlds on a Kubernetes cluster (through git
and ArgoCD) or on a Docker host (through compose files), within a memory budget,
and decides through an identity provider who may operate which of them.

This directory holds TLA+ modules that model its state, its requests and its
background loops, the TLC configurations that check them on small instances, and
proofs that TLAPS checks for every instance. `PROJECT.json` maps every definition
to the lines it models, and lists the runs, the mutants that show each property
can fail, the disagreement with the documentation that a run demonstrates, and
the hazards the properties are aimed at.

| Module | Models | Checked with |
|---|---|---|
| `Instances` | `InstanceManager` and everything it calls: rows, state store, runtime, Roles | `MCInstances`, `MCEdits` |
| `InstancesProofs` | the theorems about `Instances` | TLAPS |
| `Access` | Grants, sessions and the reuse of Numbers | `MCAccess` |
| `Requests` | allowances, creation Requests and decisions | `MCRequests` |
| `RestartQueue` | pending restarts and the occupancy they wait for | `MCRestartQueue` |
| `StateStore` | what `ports.StateStore` promises: the abstract specification | - |
| `GitStore`, `LocalStore` | the git committer and the local files, which implement it | `MCStores` |
| `WorldFiles`, `ModUpdates` | a world's lists, configs and manifests on both hosts; the update checker on top | `MCWorlds` |
| `BepInEx` | one config file: parse, merge, edit, import | `MCWorlds` |
| `Dependencies` | how the three providers resolve what a mod needs | `MCWorlds` |
| `Packs` | exports, imports and uploads of packs and profiles | `MCWorlds` |
| `Versions` | the two orders on versions | `MCWorlds` |
| `Backups` | archives, restores, the daily pass and pruning | `MCBackground` |
| `Health` | crashes and the Incidents made of them | `MCBackground` |
| `Presence` | followed logs, presence and roster | `MCBackground` |
| `PlayerLists` | op list, white list, enforcement, Valheim's admins | `MCBackground` |
| `ModIndex` | the package index in memory and in the database | `MCBackground` |
| `Capacity` | limits, tiers, sizes, seeding and backfills | `MCBackground` |
| `Rcon` | rcon clients and the addresses a command is tried at | `MCBackground` |
| `AccessProofs`, `RequestsProofs`, `RestartQueueProofs` | the theorems about the module each is named after | TLAPS |
| `StoresProofs` | the theorems about `GitStore` and `LocalStore` | TLAPS |
| `WorldsProofs` | the theorems about `WorldFiles` and `ModUpdates` | TLAPS |
| `ContentProofs` | the theorems about `BepInEx`, `Versions`, `Packs`, `Dependencies` | TLAPS |
| `BackgroundProofs` | the theorems about the seven modules of `MCBackground` | TLAPS |

Twelve runs are listed in `PROJECT.json`: eleven that pass, and `stored_limits`,
in which TLC refutes what the documentation says. Beside them the project knows
79 *scenarios*: what must not happen, or be switched on, for a property to hold,
each of them a counterexample that TLC finds. They are described with each module.
Ten have a `.cfg` file of their own name; the others are a passing run's
`.cfg` with a constant or two changed, as listed under "Scenarios" at the end.

A property of a run is often a conjunction of named parts (`DailyPassIsRight` is
`OncePerCalendarDay`, `DailyReachesAll` and `PruneSparesNewest`). The text below
speaks of the parts; each part has a mutant of its own.

The parts of `MCWorlds`, and those of `MCBackground`, share no state. One run
checks them all by choosing at the start which one a behaviour is about (`topic`,
`subject`); the variables of the others keep their initial values.

To check one: `tlc -config Slots.cfg MCInstances`, `tlapm InstancesProofs.tla`.
`ContentProofs` takes tlapm up to a quarter of an hour, the others a few
minutes each.

How to read a theorem: `C => (Spec => []P)` says that every behaviour of the
module has P, for every value of its constants that satisfies the module's
ASSUME and the named condition C. C is never about the size of an instance. It
names what the environment, or the users, must not do for the code to have the
property; the scenario in which TLC breaks the property without it is named
beside it. A theorem without a condition holds of whatever the model
can do. The passing runs check each proved invariant on a small instance too.

## Inventory

| Component | State | Operations | Talks to |
|---|---|---|---|
| Instance life cycle (`app/instances`) | nothing but `budgetMu`; everything else lives in the stores below | create, start, stop, restart, delete, resize, Tier, settings, mod lists, configs, backups, adoption | rows, state store, runtime, Roles |
| Instance tables (`infra/store`) | one SQLite row per Number and game | upsert, get, list, update state, delete | - |
| Access Roles (`app/authz`, `infra/roles`) | Roles and Grants in Zitadel, Roles copied into sessions | ensure, retire, grant, revoke, reconcile at boot | identity provider, sessions |
| Sessions and sign-in (`infra/store`, `infra/auth`, `web/guard`) | session rows with Roles and expiry | sign in, load and renew, sign out (everywhere), purge | identity provider |
| Creation requests (`app/requests`, wizards) | request rows | submit, approve, deny | life cycle, Roles |
| Pending restarts (`app/restarts`) | a map in memory | request, cancel, settle, force, tick | runtime, occupancy |
| Occupancy (`app/occupancy`) | players per world, from a log stream | open, read, settle, drop | Kubernetes logs |
| State store (`infra/gitops`, `infra/state`) | a git clone or a directory tree | get, put, patch, delete, put tree | git remote, ArgoCD |
| Docker host, cluster host, host router | containers, Deployments | start, stop, restart, status, converge, destroy | Docker API, Kubernetes API |
| Mod updates (`app/modupdates`) | report, pending mark, restore point | check, apply, undo | mod lists, catalogues, store |
| Mod lists, configs and manifests (`app/instances`, `infra/manifests`) | files of the state store | install, remove, save, render | state store, ArgoCD or compose |
| BepInEx overrides (`app/bepinex`, `cmd/agrelha`) | an Override set per config file | edit, type raw, import, reset, merge at start | state store, the copy a sidecar publishes |
| Ingest and presence (`app/ingest`) | presence and roster rows | follow, record, reopen | runtime logs, store |
| Health (`app/health`) | incidents | read, compare, record | runtime, store |
| Backups (`app/backups`, `infra/backups`) | archives, schedule | back up, restore, delete, prune | Jobs, RCON, file system |
| Minecraft access, Valheim admins (`app/access`, `app/admins`) | lists in the state store and in the server | add, remove, enforce, grant | state store, RCON, restarts |
| Capacity (`app/capacity`, `infra/store/backfill.go`) | settings, tiers, sizes on rows | seed, backfill, save, resize | environment, store, life cycle |
| Content catalogues (`infra/content`) | package index, response caches | resolve, look up, refresh | HTTP, store |
| Packs (`app/modpack`) | - | export, import | catalogues, mod lists |
| RCON (`infra/rcon`, `wiring.go`) | a connection per address | execute | Minecraft servers |
| Pages, logs | - | render, stream | HTTP |

What is hard in this code:

- **Concurrency without transactions.** Every HTTP request is a goroutine. Only
  `CreateInstance` and `StartInstance` take `budgetMu`; no operation uses a
  database transaction across a read and the write that depends on it. Records
  read at the start of an operation are written back whole at its end.
- **Five stores, no commit protocol.** A create writes an identity-provider
  Role, a git commit, a runtime and a row, in that order, and any of them can
  fail or the process can die in between. A delete removes them in another order.
- **Copies.** A session carries the Roles of its sign-in; a row carries the
  state of the last refresh; the restart queue carries the time of a first
  request; the tracker carries a player count from a stream that may be gone.
- **Asynchronous hosts.** ArgoCD applies a commit later; a server boots, crashes
  and is restarted by its runtime at any time.
- **Two halves.** A white list is changed in the store and in the running
  server, a resize in the manifests and on the row, a backup switches saving off
  and on around a Job: one half can fail, or two requests can cross.
- **Catalogues that move.** A resolution or an export is a series of HTTP
  requests, any of which can fail, while the provider publishes.
- **Reuse.** Numbers 1..N are recycled, and access Roles are named after them.

What makes each part correct: a Number belongs to one world at a time in all
five stores, and nobody's access survives the world it was granted for; starts
stay within the budget; deletes are final; every request returns; a revoked
Account loses access when the documentation says so; an Account creates what it
is allowed and a Request is decided once and completely; a saved change is
loaded eventually and nobody is disconnected on a guess; a store call happens
at once or not at all; no edit of a world's files is lost, and what is reported
done runs; an update and its undo change nothing else; what a resolution lists is
complete; pruning leaves a number of later archives of a world; each crash is
recorded once; who is shown online is online; boots change nothing an operator
chose. Several of these the code keeps only under conditions, which the section of
each part names.

## Instances

State: `row` (table), `dir` (Instance directories of the state store), `srv`
(what the runtime hosts), `role` and `keepers` (Roles, and for which worlds
Accounts were granted them), `lock` (`budgetMu`), and `op`: for every goroutine
the request it serves, the call it makes next and the records it holds in
memory. `minted`, `reconciled` and `gone` count WorldIDs, remember the
boot-time reconciliation and deleted worlds.

One action is one call that reads or writes shared state, so everything read
before it may be stale afterwards. `CreateInstance` is
`AcquireBudget · PickNumber · CheckInstanceDirFree · ReserveRole · WriteManifests
· Converge · SaveRow`, with `UndoRole` on its error paths. `StartInstance` is
`AcquireBudget · GetInstance · StartCheck · ListInstances · ReadStatus/PersistStatus
per row · StartGate · WriteManifests · Converge · ScaleUp · MarkState`.
`DeleteInstance` is `GetInstance · DeleteInstance (the state check) ·
DestroyServer · DeleteDir · DeleteRow · RetireRole`. Resize, Tier and settings
are `GetInstance · EditInstance/ApplyTier · WriteManifests · Converge ·
SaveRow/SaveTier`. Every list or get refreshes the records from the runtime
(`ReadStatus`, `PersistStatus`), which may write them back. `Faults` says which
calls may fail; `AgrelhaRestart` ends every goroutine; `Environment` is ArgoCD
and the servers.

Abstractions: a record is its world, state, memory and address; the rendered
manifests are world, memory and whether they ask for a replica. ArgoCD ignores
`replicas` of an existing Deployment and applies them to a new one. The writes
of one refreshed record (`UpdateState`, then `Upsert` when its address changed)
are one action. `checkLBIPFree`, audit and event hooks and mod lists do not
appear. A Grant is one action here; its read and write are in `Access`.

| Run | Shows |
|---|---|
| `slots` | creates, starts, stops, deletes and Grants, on one Number of a cluster host whose servers boot and crash, with failures and restarts of agrelha: access is never inherited (`NoInheritedAccess`), manifests and row describe one world (`ManifestsMatchRow`), a create never renders over another world (`CreateNeverOverwrites`); `TypeOK` and the inductive invariant `SlotInv` |
| `docker_host` | a Docker host with two operators, three worlds of two sizes, cap 2, budget 3, a failing runtime and database, and restarts of agrelha, used in one of two ways, which the size of the last world tells apart: worlds start and stop, where a started server is Available at once (`StartsFitBudget`); or one of them is edited, deleted and created again, which writes stale records back (`WorldIDIsStable`) |
| `returns` | `RequestsReturn` on a Docker host of one Number, which holds a world at first and may hold another later: creates, starts, restarts, deletes, page views and the role reconciliation, two at a time, while any call to the runtime, the state store (a read or a write), the database or the identity provider may fail; every request returns and releases `budgetMu`, on every path, under `FairSpec` |

| Scenario | Property it refutes |
|---|---|
| `GateBooting` | `StartsFitBudget`: the budget is exceeded by a start while another server boots |
| `Resurrection` | `DeletionIsIrreversible`: an edit in flight re-inserts a deleted row |
| `GateRestart`, `GateCreate` | `StartsFitBudget`: restarting a stopped container, or creating a running world, passes no gate |
| `Orphan` | `NoSilentOrphan`: a start in flight converges the container a delete tore down; the delete then removes the row (the comment at `manager.go:933` promises otherwise) |
| `ResizeStarts` | `EditsDoNotStart`: resizing a stopped world on a Docker host starts it (`manager.go:678`, `:1007`) |
| `CrashLoop` | `CrashLoopIsDeletable`: a world the runtime keeps restarting cannot be deleted (`CONTEXT.md:341`) |
| `Unreadable` | `CreateNeverOverwrites`: a failed look at a directory counts as a free directory (`manager.go:1957`) |

Bounds: one Number is where creates and deletes collide (two requests must be
about the same Number to disturb each other, and the lowest free one is always
taken); three worlds let a Number be given away, freed and given away again;
two goroutines race (the proofs cover any number). The gate needs
three worlds of two sizes for cap and budget to bind separately. In `returns` the
one Number holds a world, to be started, restarted and deleted, and is then free
for a second world to be created, while the other request waits for the lock or
holds it.

Fairness (`FairSpec`): weak fairness of every goroutine's next step, because Go
schedules runnable goroutines and every call has a timeout or a context; strong
fairness of taking `budgetMu`, because `sync.Mutex` hands itself to a waiter
that has starved for a millisecond. Nothing is assumed of users or hosts.

### Proofs

`InstancesProofs` proves, for every value of the constants allowed by
`ConstantsAssumption`:

- `TypeCorrect`: `Spec => []TypeOK`, and with it `PcOK` (which operation can be
  at which call, and that it names a Number by then), the only strengthening it
  needs.
- `WorldIDStable`: `Spec => WorldIDIsStable`, from `TypeOK`: every write of a row
  is an `Upsert`, an `UpdateState` or a delete, and the first two keep the world.
- `NumberReservation`: `NoStaleUpserts => (Spec => []SlotInv)`.
- `AccessIsNotInherited`, `ManifestsDescribeRow`: its corollaries for
  `NoInheritedAccess` and `ManifestsMatchRow`.
- `CreateIsFresh`: with `"read" \notin Faults` also `CreateNeverOverwrites`.
- `StartsStayInBudget`: `OnlyStartsAndStops => (Spec => []StartsFitBudget)`, for any
  number of worlds, requests, sizes, caps and budgets, on both kinds of host.

`NoInheritedAccess` is not inductive: nothing in it says that a create in the
middle of its calls still has its Number to itself. `SlotInv` adds what the code
relies on without saying so: whoever is past the lock is alone there
(`BudgetMutex`); a create's Number has no row from `PickNumber` on, no
directory from `CheckInstanceDirFree` on, and no Grant from `ReserveRole` on
(`CreateOwnsNumber`); a Role that does not exist has no holders
(`GrantsNeedRole`); the world a start read may vanish but is not replaced
(`StartKeepsWorld`), since a replacement takes the lock the start holds. The
step lemma has two halves: the effect of a goroutine on its own record
(`OwnStep`) and on the others' claims (`OthersKeep`), joined through what any
step may do to rows, directories and Roles (`RowEffect`, `DirEffect`,
`RoleEffect`).

The assumption `NoStaleUpserts` (no edits, and a runtime that reports the
planned address) excludes exactly the writes by which a deleted row comes
back; `Resurrection` shows what happens without it. Likewise `Unreadable`
shows why `CreateIsFresh` needs a readable state store.

`StartsFitBudget` is about every moment, the gate only about the one at which it
counts. `OnlyStartsAndStops` names what the count relies on: a server counts as
running as soon as it is up (`InstantBoot`; see `GateBooting`), the runtime can
be asked (`"status"` and `"server"` faults leave stale states or bring a server up
by themselves), and nothing but a start raises a server or changes a size (see
`GateRestart` and `GateCreate`). Under it `GateInv` is inductive. Its
heart is what a start in progress knows: of the worlds it has listed, every one
that is up has the state "running" in its list as soon as its record is refreshed
(`ListOK`), because meanwhile it holds `budgetMu` and nobody else starts
(`BudgetMutex`), while others may only stop; so from the gate to `ScaleUp` the
*other* servers leave room for this one (`RoomOK`). That the sum the gate
computes over its list is at least the memory of the servers that are up is a
fact about sums over sets (`SumStep`, `SumOfFewer`, `SumAgrees`), proved by
induction on the set (`SetInduction`, from the well-foundedness of `<`).

Liveness (`RequestsReturn`) is model-checked only: fairness is out of the
prover's reach.

## Access

State: the worlds and creators of the Numbers, the Role keys and authorizations
of the identity provider, the accounts and sessions tables, and per goroutine
the Roles it read and the session updates it has still to run. `entitled`,
`ended` and `removed` are history. Grant and Revoke read an authorization and
write it back (`AuthorizationFor`, `UpdateAuthorization`), then list the
sessions and update them one by one (`ReadSessionRoles`, `WriteSessionRoles`).
A sign-in exchanges its code (`Exchange`), records the Account and only then
inserts the session. A page loads and renews a session. Create and delete are
reduced to the calls that touch Roles, sessions and the row.

| Run | Shows |
|---|---|
| `slot_reuse` | requests one after the other, with failures of Zitadel and the database: `AccessWasGranted`, whoever may operate a world created it or was granted that very world |
| `sign_out` | two concurrent requests: `AccessEndsAtSignOut`, revoke then sign-out everywhere ends access unless a sign-in or Grant was under way |

| Scenario | Property it refutes |
|---|---|
| `SlotReuseRace` | `AccessWasGranted` with two requests at once: a Grant writes back session Roles it read before a delete |
| `RevokeRace` | `RevokeIsImmediate`: a Grant writes back session Roles it read before a revoke |
| `SignOutRace` | `SignOutIsImmediate` (`CONTEXT.md:312`): a sign-in with a token from before the revoke opens its session after the sign-out |
| `StaleRole` | `GoneWithinTTL` (`docs/adr/0006-accounts-and-grants.md:67`): a session in use outlives the two hours a removed Role is said to last |

`slot_reuse` serves requests one at a time (`Concurrent = FALSE`) because
`SlotReuseRace` shows the property false otherwise, and leaves out failing
session updates (`"sessions"`) because the code logs and ignores them. Zitadel
refuses to grant a Role key that does not exist.

### Proofs

`AccessProofs`, for any number of Accounts, Numbers, sessions and goroutines:

- `AccessTypeCorrect`: `Spec => []AccessTypeOK`. `SessOK` in its invariant says
  that sessions which were issued and deleted never get a row back, which is what
  the updates and renewals in flight could do.
- `SignOutEndsAccess`: `Spec => []AccessEndsAtSignOut`, with no condition, so for
  concurrent requests and every fault. `EndInv` is the strengthening: once an
  Account has been signed out with nothing under way (`"settled"`), the Role is
  in no authorization of it, in none of its sessions, and in no request that
  could write it back (`GoneFrom`, `CarriesNot`).
- `NumbersChangeHands`: `OneByOne => (Spec => []AccessWasGranted)`. `OneByOne` is
  the condition of the `slot_reuse` run; `SlotReuseRace` shows it is needed.
  `GrantInv` adds that whoever has a Role of a Number in Zitadel, in a session or
  in the hands of the one request under way was granted the world that is there
  (`TablesGranted`, `RequestGranted`), and that a create has taken the Role out of
  every session before it adds it anew (`Retired`).

## Requests

State: the request rows, the worlds with their creators and games, and per
goroutine what it read. The wizard counts (`MayCreateDirectly`), then creates or
files (`Submit`, `FileRequest`); a decision reads the Request (`GetRequest`),
creates, grants (`GrantCreator`) and saves (`PutDecision`). `DeleteInstance`
frees an allowance.

`approvals` checks that, with one submission per Account and one decision at a
time, an Account stays within its allowance (`AllowanceKept`), has one pending
Request (`OnePendingRequest`), a Request creates at most one world
(`OneWorldPerRequest`), an approved one has its world and Grant
(`ApprovalIsWhole`) and a decision is never changed (`DecisionIsFinal`), with
creates and reads failing. Dropping one condition each, `ApproveTwice` and
`ApproveRetry` (a Grant that failed, although
`docs/adr/0006-accounts-and-grants.md:58` has creation and Grant performed
together) refute `OneWorldPerRequest`, `Allowance` refutes `AllowanceKept`
and `DoubleSubmit` refutes `OnePendingRequest`; `AllowanceGMod` refutes
`AllowanceKept` because `WithList` (`wiring.go:924`) leaves out Garry's Mod
worlds. Two Accounts,
two Requests and four worlds let each of them be refused, decided and retried.

### Proofs

`RequestsProofs`, for any number of Accounts, goroutines, Requests and games:

- `RequestsTypeCorrect`: `Spec => []RequestsTypeOK`.
- `LimitsHold`: `OnePerAccount /\ Games \subseteq Counted => (Spec => []LimitsKept)`,
  where `LimitsKept` is `AllowanceKept` and `OnePendingRequest`. The invariant
  relates a wizard call that has counted to the worlds there are now
  (`CountedBefore`): as the only call of its Account, deletes can only have made
  room since. `DoubleSubmit` and `Allowance` lift the first condition,
  `AllowanceGMod` the second, which the code violates for Garry's Mod worlds.
- `DecisionsAreFinal`: `OneDecider /\ Faults \cap {"grant", "put"} = {} =>
  (Spec => DecidedOnceAndWhole)`, so with decisions one at a time and the calls
  after a create succeeding: a Request makes one world at most, an
  approved one has its world and Grant, and no decision is overturned. The
  invariant says which world a decision under way has made (`BeingApproved`) and
  that its Request is still pending (`StillPending`). `ApproveTwice` and
  `ApproveRetry` lift the conditions.

## RestartQueue

State: `pending` (the queue), `tracker` (what `occupancy.Tracker` believes, and
the position of its goroutine in the log), `pod` (Deployment and log), `config`
(how far a world's changes are committed, synced, loaded, requested) and `op`.
Time is a counter of requests and pod starts: the code only compares the two.
Pod start times have whole seconds; a start in the second of a request counts as
earlier, which costs a restart and loses nothing.

The ticker is `ListAll`, then per entry, oldest first, `Resolve · AppliedByRestart ·
AskPlayers · Roll · Cancel`; `Settle` of a page is the first three without a
restart, `ForceRestart` is followed by `Roll · Cancel`. A save is `Commit`, then
`RequestRestart`. The tracker's goroutine is `Begin · Scan* · Drop`, with
`SettleTimePasses` in between. The pod of a rollout stops (strategy Recreate) before
its successor starts. Worlds created after agrelha booted have no tracker goroutine
and only the status endpoint; the model's worlds are those of boot.

`Races` names what the environment may do at a bad moment. The passing runs
leave out only what is shown below to break their property.

| Run | Shows |
|---|---|
| `pending_restarts` | two request goroutines and the ticker, lookups and restarts failing: `NoChangeIsForgotten`, a requested change is loaded, pending, or about to be loaded |
| `restart_happens` | players, lost streams, pods and agrelha restarting: `DisconnectsOnlyNewcomers`, the ticker restarts a world only over players its count could not have included; `PendingRestartHappens`, an entry does not wait for ever on a world that stays empty and up |

| Scenario | Property it refutes |
|---|---|
| `MergedRequest` | `NoChangeIsForgotten`: a second change joins an entry that a restart in between already applied, and is dropped with it |
| `RequestDuringRoll` | `NoChangeIsForgotten`: a change requested between the decision on a copy of the entry and `Cancel` is cancelled too |
| `RestartBeforeSync` | `NoChangeIsForgotten`: the restart comes before ArgoCD applied the commit |
| `QueueLost` | `NoChangeIsForgotten`: the queue is in memory, and agrelha restarts |
| `SettleIsTime` | `DisconnectsOnlyNewcomers`: the log takes longer than ten seconds to read back (`tracker_test.go:123`) |
| `WrongPod` | `DisconnectsOnlyNewcomers`: `podName` (`kube/logs.go:26`) falls back to another world's pod, and an empty neighbour reads as an empty world (`CONTEXT.md:379`) |

Fairness (`LiveSpec`): the ticker ticks every 30 s, goroutines run, the tracker
reopens its stream after 5 s, reads what is there and settles after 10 s, and the
cluster converges. The status endpoint may fail for ever.

Bounds: one world, except in `WrongPod`, which needs a neighbour, since entries
of different worlds meet only in the order of a tick; two changes make a request
merge with an earlier one; two log lines per pod are a join and a leave, or two
joins across a restart, and one lost stream makes the tracker read them again.

### Proofs

`RestartQueueProofs`, for any number of worlds, goroutines, players, log lines
and lost streams:

- `RestartQueueTypeCorrect`: `Spec => []RestartQueueTypeOK`. The invariant also
  says that no entry, call or pod is newer than the clock and that a followed log
  is one of a pod.
- `NothingIsForgotten`: `NothingAtABadMoment => (Spec => []NoChangeIsForgotten)`.
  The condition excludes the four races of `MergedRequest`, `RequestDuringRoll`,
  `RestartBeforeSync` and `QueueLost`, nothing else. `ForgetInv` says what a pod
  that started after an entry's time has loaded (`EntriesCount`), and the same of
  the copy of the entry that a goroutine holds while it decides, restarts and
  cancels (`CallsCount`); without the second half a `Cancel` could drop a change.
- `OnlyNewcomers`: `LogsAreFollowedInTime => (Spec => DisconnectsOnlyNewcomers)`,
  an action property. `NewcomerInv` says that a stream is of the world's own pod
  (`WrongPod`) and that a settled count covers every line up to the position it
  was taken at (`SettleIsTime`), through lost streams that are read again.

`PendingRestartHappens` is liveness under `LiveSpec` and stays with TLC.

## StateStore, GitStore, LocalStore

`StateStore` is the abstract specification: a tree of documents, and operations
that each read and write it in one step. A call that fails, or whose process
dies, did nothing or everything; or, if it is of a kind in `Cuttable`, stopped
halfway: each file it is about is as it was, as it should be, or holds a part of
what it should (`Halves`), no other file has changed, and it is never answered as a
success. A document is the set of its entries, which is what a Patch adds to or
removes from. `Instances`, `WorldFiles` and `PlayerLists` take their store calls to
fail whole; where a local store stops halfway, what they show does not apply.

`GitStore` is `gitops.Committer`: per process one clone and one mutex, and one
branch that several processes share. A write fetches and resets, edits, commits
and pushes; the push is refused when the branch has moved, and the clone is
reset. A read uses the clone while it is younger than the TTL. It cuts nothing
short: a commit arrives or does not. `LocalStore` is the directory tree of a Docker
deployment. Put, PutTree and Delete write or remove file by file, and return at
the first error; they may stop, or the process die, after any file or in the
middle of one, which `os.WriteFile` empties first (`StopsAnywhere`, `LocalCrash`), and
leave half a directory behind. PutTree ignores the files it cannot remove
(`RemovalsFail`, FALSE in the run). A Patch is a Get and a Put with the mutex
released in between.

`stores` checks `GitImplementsStateStore` and `LocalImplementsStateStore`, the
refinements (the abstract tree is the head of the branch, or the files; a call
takes effect with its push, or its write), `ReadsAreCurrent` (a Get shows a
commit of the branch, at least as new as what the process wrote or showed
before, and as what the branch held one TTL ago) and `GitTypeOK` (both in
`GitInv`). Three
goroutines in two processes let a push be refused by a goroutine that the mutex
cannot stop. `SharedEdits` refutes the local refinement when two goroutines
patch one document; `RawPut` refutes the git one for a raw Put, whose
"unchanged" answer is not about the branch. The memory store is `Effect` under a
mutex. `History`, `Rollback` and `committer.Patch` have no callers.

### Proofs

`StoresProofs`, for any number of processes, goroutines, documents and commits:

- `ClonesAreSound`: `GitSpec => []GitInv`, and from it `ReadsAreOfTheBranch`:
  `GitSpec => []ReadsAreCurrent`. `GitInv` adds to the type that a process's mutex
  is held exactly by the goroutine between commit and push, that a commit is made
  on top of what the clone was fetched at, and that a clone which counts as fresh
  is no older than the process's last write, last answer and the TTL.
- `GitIsAStateStore`: `RawAlone => (GitSpec => GitImplementsStateStore)`, the
  refinement. The initial states map to initial ones; a push that is accepted
  maps to the abstract write, an answer to the abstract return, and every other
  step (fetch, edit, commit, refused push, TTL, death of a process) to a stutter.
  The refinement needs `GitInv`: the tree that is pushed is the effect of the
  operation on the head of the branch only because the push is refused otherwise
  and the commit was made on what was fetched. `RawAlone` (a raw document shares
  its directory with nothing) is what `RawPut` violates; no caller of the
  adapter Puts a raw document.

- `LocalIsAStateStore`: `LocalCallsAreOps /\ PatchesAreAlone /\ NothingFallsBack /\
  ~RemovalsFail => (LocalSpec => LocalImplementsStateStore)`, where every kind of
  call can be cut short. The abstract document is what a Get finds (the file, or the
  older copy of the fallback directory). A write maps to the abstract write, a write
  that an error ended to `AbsTear`, one the process's death ended to `AbsTornCrash`:
  what is left is among the `Halves` of the operation. The invariant, `LocalInv`,
  says that a Patch between its Get and its Put still holds what its operation makes
  of the document as a Get finds it now, so that its Put is the whole operation.
  `PatchesAreAlone` is what `SharedEdits` violates: the mutex is released in
  between. `NothingFallsBack` says that a directory that is deleted or written as a
  whole has no older copy, which a Get would find where the store holds nothing.
  `~RemovalsFail` excludes the one failure that is answered as a success. The run
  satisfies all four.

## WorldFiles, ModUpdates

State: the world's directory in the state store (`desired`), what the host has of
it (`live`), what the server was booted with (`server`), the row, the catalogue,
and per request the values it read. `Resize`, settings and start render the whole
directory from what they read (`GetInstalledMods` from the live ConfigMap on the
cluster, from the store on Docker); installs, removals and config saves patch one
file. A converge on Docker materialises the project, merges overrides and runs
it. The checker adds its report, the pending mark and the restore point; `Apply`
resolves, patches, saves the point and marks pending; `Undo` compares the list
with the point and patches back. The list that `Apply` makes is given in closed
form (`Pinned`, `Raisers`, `Updated`): its loop takes the targets in the order of
their Keys, so a target that needs m raises it only if m is no target or comes
before it.

The `worlds` run checks, with one request at a time, edits made after ArgoCD has
synchronised, updates made from a current report, store calls that fail whole and
reads that succeed: `EditsAreKept` (no request but an edit changes a list),
`ConvergedIsDesired` (what is reported done on Docker runs), `UndoStaysAvailable`,
`UndoDiscardsNothing` and `UpdatesOnlyRaise`. What the run leaves out is a fault of
its own (`Faults`): "read" is a document that cannot be read, "cut" a local store
that stops in the middle of a directory.

| Scenario | Property it refutes |
|---|---|
| `LaggingList` | `EditsAreKept`: a resize on the cluster renders the list of the ConfigMap, before ArgoCD has synchronised the last edit |
| `UnreadFile` | `EditsAreKept`: a resize keeps the empty mods and configs files that it rendered when the stored ones cannot be read; the error is ignored (`manager.go:720`), although the comments at `:685` and `:695` say that the files are never wiped |
| `EditDuringRender` | `EditsAreKept`: an edit between the read of a file and the write of the directory |
| `LaggingUndo` | `UndoDiscardsNothing`: the list that Undo compares lags behind the one it overwrites |
| `StaleReport` | `UpdatesOnlyRaise`: the targets come from the last check, up to 15 minutes old |
| `UndoGone` | `UndoIsOffered`: on the cluster the panel that answers Apply compares the point with the live list, and clears it |
| `RefusedDelete` | `UndoSurvivesRefusal`: the delete hook clears the point before the running check (`manager.go:923`) |
| `CurseForgeUnread` | `CurseForgeIsRead`: an install does not render the environment that makes the server read the file |

Two mods with a dependency and two versions let an update bring a mod in and a
repin get in its way. Valheim's overrides and Minecraft's CurseForge half are in
one world, although no game has both. Left out: configs shared by all worlds of
a game (`manager.go:1686`), directories without `mods.yaml`, replicas.

### Proofs

`WorldsProofs`, for any number of mods, versions, dependencies, files, settings
and requests, on either host, and whichever store writes, Docker or SQLite calls
fail:

- `FilesTypeCorrect`: `Spec => []WorldTypeOK`, with no condition, so for any number
  of operators at once and every fault. What a request holds at each stage is part
  of the invariant (`Renderings`, `Replacements`).
- `EditsSurvive`: `OneOperator /\ HostIsCurrent /\ FilesAreWhole => (Spec =>
  []EditsAreKept)`, and `DoneIsRunning`: the same for `ConvergedIsDesired`.
  `OneOperator` says that requests come one at a time (`EditDuringRender` overlaps
  two), `HostIsCurrent` that on the cluster they wait for ArgoCD (`LaggingList` does
  not), `FilesAreWhole` that a document that exists can be read (`UnreadFile` has
  one that cannot) and no directory is left half written. `FileInv` is the
  strengthening: `Agrees` says of the request under way, stage by stage, how the
  lists it holds, the directory, the project on the host and the server relate.
- `UndoLosesNothing`: under the same conditions `UndoIsSafe`, which is the invariant
  `UndoStaysAvailable` and the action property `UndoDiscardsNothing`.
- `UpdatesNeverLower`: if moreover reports are current (`FreshReports`; see
  `StaleReport`), the action property `UpdatesOnlyRaise`. `WayInv` serves both: an
  update or undo about to patch is made of the list in force, and from then until it
  has saved its restore point the old way back does not count (`Way`).

## BepInEx

A text is a sequence of lines; sections and keys are numbers. `ParseConfigFile`,
`MergeText` and the override sets are operators, checked over every file of up to
four lines (`topic` "merge"): `MergeIsExact` (after a merge the server reads every
chosen value and, for every other setting, what it read before) and `MergeSettles`
(the settings of the file keep their order and their descriptions, and a second
merge changes nothing). The state machine has two operators who open the panel,
save, reset, import and type, a mod that rewrites its file and a sidecar that
publishes it: `EditsAreStored`, and `EditHitsItsSetting` (the form's positions are
resolved in the file the operator saw). `OverlappingSaves`,
`LaggingOverrides`, `FileComesBack`, `PaddedHeader` and
`ImportDefault` show what breaks them, or `ImportTakesEffect`. The restart a
save asks for is in `RestartQueue`; search and rendering of the panel and the
matching of GUIDs are left out. Of a key that is pasted twice an import takes the
last line that differs from the default (`PlanImport`).

### Proofs

`ContentProofs`, for files and texts of any length, any number of sections, keys,
values and edits, with a state machine that starts in any file (of `Texts`) and any
Override set:

- `ConfigsTypeCorrect`: `ConfigsSpec(files, sets) => []ConfigsTypeOK`, with no
  condition. What is typed or imported is any text, so the theorem says that
  whatever can be stored reads as an Override set over the declared settings.
- `EditsLand`: `OneEditAtATime => (ConfigsSpec(files, sets) /\ FileNeverReturns =>
  []ConfigEditsLand)`. `OneEditAtATime` is one editor under way at a time and a
  ConfigMap that is current (`OverlappingSaves`, `LaggingOverrides`).
  `FileNeverReturns` is the assumption that a change of the file is to contents it
  has not had, by the mod, which the constant `FileReturns` governs
  (`FileComesBack`), or by a merge. Its two halves have an invariant each. `StoredInv`: an
  edit under way was computed from the set that is stored, and the text it is about
  to write reads as that set with its change. `HitsInv`: the file on the volume, its
  copy and the version in the index are versions the file has had, and the digest a
  form was made for is the one in the index or has been left behind by all three
  (`OldDigest`), in which case it never becomes current again.

- `MergesAreSound`: `files \cup Generated \subseteq PlainTexts =>
  (ConfigsSpec(files, sets) => []MergeIsSound)`. `PlainTexts` are the texts with no
  header that has spaces inside its brackets; with one, the property fails
  (`PaddedHeader`). The invariant, `MergeInv`, is that the file is plain; the rest is
  about `MergeText`, for every plain file and every Override set. What a text sets
  and what another sets for the same keys are compared as the lines are read
  (`Carries`, `Edits`: the one reading has the settings of the other, with the values
  of some keys replaced), and the three steps of a merge are followed: `ReplaceLines`
  changes values and neither a name nor a section, an insertion into a known
  section and an appended section add the chosen settings that the file lacks and
  nothing else, and in what results nothing is left to replace or to append.

These rest on lemmas about the operators: `RoundTrip` (`ParseOverrideSet` of
`EncodeOverrides(o)` is `o`, for every Override set `o`), and the lemmas that end
in `ParsedIsOverrides` and `MergedIsText` (any text reads as an Override set; a
merged text is a text). Texts are read and written by recursive functions.
`Loops` shows that such a function exists and satisfies its equation, `UpTo` is
induction up to a bound, and both come from the library's facts about
well-founded relations applied to sets, as no theorem with an operator parameter
can be instantiated.

## Dependencies, Packs, Versions

`Dependencies` has one action per HTTP request of `thunderstore.ResolveTree`,
`curseforge.Resolve` (breadth first, though its comment says depth first) and
Modrinth's `ResolveRequiredDependencies`, over every graph of three projects and two
builds. `ResolvedIsClosed`, `ListedOnceAndNeeded` and `CurseForgeFilesCanRun` hold
when Modrinth's faults are fewer than its retries and its catalogue stands still,
unless the request's context ends meanwhile: the Modrinth client passes over every
lookup that then fails, so what it answers is a list without the rest of the
dependencies and no error, but for a context that ended while it asked for versions
(`Cancel`, `MREnded`); `ResolvedIsClosed` says nothing of such a list, and
`EndedRequest` refutes `EndedIsClosed`. `SkippedDependency` (a request that
failed is passed over) and `MovedCatalogue` show why. `EarlierPin` refutes
`PinsAreMet`: the first version a Thunderstore package is met at stays.

`Packs`: `EveryModIsAccountedFor`, `PinIsExported`, `ImportReadsTheExport` (of a
Valheim profile: the packages of the list and, before them, BepInEx when the list
omits it, see `WithBepInEx`) and `ExtensionDoesNotMatter`. `MissingCurseForge`
refutes `CurseForgeIsEmbedded`: files are appended to the index after it was written
into the archive, which `mrpack.go` and `wiring.go:705` call embedded.
`UnlistedPin`, `EmptyExport` (a list that cannot be read is logged and
exported as an empty pack or an empty profile), `HyphenatedName` and
`OverridesDropped` refute the properties named in them. Bytes, hashes and the
instructions' text are left out.

`Versions`: `NewerIsTheOrder` (against numbers in base 100),
`NoWayStraightBack`, `BatchOrderIsIrrelevant`, `HighestIsHighest`, over versions
of one to three segments with pre-releases, builds and letters.
`LetteredVersions` refutes `NeverComesBack`: segments with letters are only
compared when both have them, so 1.1, 1a.2, 1b.0, 1.1 are each newer than the one
before. `TenthCandidate` refutes `PrereleasesAreNumbers`: c10 comes before
c9, as text.

### Proofs

`ContentProofs` has `VersionsInOrder`: `ThreeNumbers => (VersionsSpec =>
[]VersionsAreOrdered)`, for any published versions and game versions. `ThreeNumbers`
says what the reference can rank: plain versions have at most three numbers, as
Thunderstore demands, and `Base` exceeds them all. Only `NewerIsTheOrder` and
`BatchOrderIsIrrelevant` need it. Along the way: `Rank` is the lexicographic order
(`RankIsLater`) and `VersionNewer` is that order on plain versions
(`NewerIsLater`); of any two versions at most one is newer (`NewerIsStrict`);
`CompareMCVersions` is total and transitive (`ComparedOrders`), so the loop of
`HighestMCVersion` finds a greatest version of a list of any length (`HighestIs`,
by induction over the list). The invariant `VersionsInv` is what the state machine
adds: the version that is pinned is newer than the one it replaced.

`PacksSayWhatWorldsSay`: `PacksSpec => [](PacksTypeOK /\ PacksAreFaithful)`, for
any mods, worlds, profiles and uploads, whatever requests fail and in whatever
order the goroutines end. Its conditions give the constants their types, and one
says what a catalogue is: a build listed for a Minecraft version is listed without
one too (`WorldsToExport`). The invariant has a part for each of the three.
`ExportInv`: every mod that was read from the list is in exactly one place, to be
classified, waiting for its files, waiting for the fallback, in the index or in one
section of the report (`OnePlace`), and a file of a mod whose pin is listed is
the pinned one (`PinsKept`). `ProfileInv`: the profile is what was built from the
list, and a switched-off mod is only switched off. That the import reads the
enabled mods in the order of the profile is a fact about the loops that append
(`OnlyIs`, by induction over the list). Of a list that could not be read nothing
is said. A dashed name with a hyphen in it is
excluded (`PlainPack`; `HyphenatedName`).

Two theorems about `Dependencies`, for any graph of projects, with any number of
builds, cycles and diamonds included:

- `ResolutionsListWhatIsNeeded`, whatever fails and whatever is published meanwhile:
  `ListedOnceAndNeeded`, `CurseForgeFilesCanRun`, and `ResolvedIsClosed` for
  Thunderstore and CurseForge.
- `ResolutionsAreRight`: under `Answered`, `ResolutionIsRight`, which is these three
  for all providers, of Modrinth for a resolution that its context outlived.
  `Answered` says of Modrinth only that no request fails for good, that faults are
  fewer than `maxRetries`, and that nothing is published while it is read
  (`SkippedDependency`, `MovedCatalogue`).

For the providers that keep a queue, the invariant is `Queued`: everything that a
listed entry needs is listed or still in the queue, everything in the queue is the
root or needed by a listed entry, and a visited name is listed or at the head of the
queue. For Modrinth's recursion, `TreeInv` holds whatever fails: what has
been found is what has been visited, each but the root needed by the build read of
an earlier one or of the root, and everything on the stack is needed by something
found. `ReadInv` is what `Answered` adds: the queries before the present one had no
answer, the build read of a project is that of the first query with one, and
what this build needs is visited or on the stack. The list is made by a second
reading; it is closed because, with nothing published meanwhile, the second
reading finds the same builds.

## Backups

Agrelha only launches Jobs, which copy or replace a world's data while the server
saves. Three worlds, one of them created by a restore; an operator, the daily
pass, a clock that skips. An archive has its name from the first write of the copy
and its ModTime, by which pruning sorts, from the last (`made`, `mod`).
`SavesReturn` (a server without saves has a backup that will switch them on),
`PruneSparesNewest`, `OncePerCalendarDay` and `DailyReachesAll` hold with failing
launches and listings. `PruneSparesNewest` is about every removal that a pruning
makes: `Keep` archives of the world with a later ModTime are in the directory and
stay. They are files; whether they are whole is not said (`TornBackup`).

| Scenario | Property it refutes |
|---|---|
| `SavesLost` | `SavesReturn`: agrelha dies between `/save-off` and `/save-on` |
| `SharedGlob` | `PruneSparesNewest`: the pattern of world "foo" matches the archives of "foo-01" |
| `DeletedMeanwhile` | `PruneSparesNewest`: an operator deletes a newer archive between the listing and the removals |
| `OverlappingCopies` | `PruneSparesNewest`: two Jobs copy one world at a time, and what was the older archive when it was listed is the newer one when it is removed |
| `DailyTwice` | `OncePerCalendarDay`: a restart between four and five |
| `SafetySnapshot` | `SafetySnapshotSaved`: the restore Job does not wait for the snapshot Job |
| `TornBackup` | `BackupIsOneVersion`: saving is back on before the Job's tar has read everything |
| `FailedRestore` | `RestoreLeavesAWorld`: the data is removed before the archive is opened |

`BackgroundProofs` proves, for any number of worlds, pages, Jobs and days:
`BackupsTypeCorrect`; `BackupsLetServersSave`
(`CommandsArrive => (BackupsSpec => []SavesReturn)`: commands reach the servers
and agrelha is not killed in a backup; `SavesLost` lifts the second, and the
first fails a server by itself: a `/save-on` that does not arrive); and
`PassesAreRight` (`StaysUp /\ PruneHyp => (BackupsSpec => DailyPassIsRight)`;
`DailyTwice` lifts the first). `PruneHyp` is what pruning needs: patterns that match
one world (`OwnPatterns`, `SharedGlob`), copies of a world one at a time
(`CopiesApart`, `OverlappingCopies`), and no deletion by hand between a listing and its
removals (`DeletesApart`, `DeletedMeanwhile`). The invariant says of every archive that a
goroutine has listed for removal that `Keep` others of its world, listed by nobody,
were written to later (`PruneInv`), and that an archive a copy is being written to is
the latest of its world (`CopyInv`), which stays true whatever is made or removed
before the removal. For the day, that the pass in progress is noted and every world
it listed is tried, in hand or in the queue (`DayInv`).

The daily pruning matches both games' names. A partial archive counts when pruning.

## Health, Presence, PlayerLists

`Health`: `DeathsRecordedOnce` and `NoDeathMissed` against the counters and times
of both runtimes. `IncidentFlood` refutes `SameFailureIsNotRecordedTwice`
(`watcher_test.go`): the stored Incident lacks the setup step that is compared,
so a failed setup is recorded at every check. `StopRecorded` (an operator's
stop counts as a crash) and `SlowCheck` (a pod replaced during a check) are
the others.

`Presence` has three writers of the two tables: a worker per running world, which
follows its server's log; the worker of another world, as the roster is shared; and
the hook of a delete, of any game, which clears the number before it is known
whether the world may be deleted (`HookRows`, `HookRoster`). Streams break and repeat
their tail, servers go with players on them (`ServerGoes`), and each statement may
fail, which the code ignores. `PresenceIsCurrent` and `RosterAgrees` hold but for the
players in `astray` and `unsure`: those whose row a delete took, a dead server
left or a failed statement missed, until the next statement about them. How long that
is depends on what the players do: `GhostPlayers` refutes `ShownIsConnected` (who
was on a server that died stays online until the world is stopped), and
`DeletedMidLine` refutes `RosterIsWorlds` (a delete clears the row of a player
between the two statements of a connection, and the roster has them online, on no
world). `ShortTail` and `OverlapPresence` refute `PresenceIsCurrent`. Repeated
lines also give repeated join and leave events, which only the event list shows.

`PlayerLists`: `HalvesAgree` (an edit that reached both copies repairs what an
earlier one left), `EnforcementIsChosen`, `AdminsAreApplied`. A command fails before
the server has it ("rcon"), or after it ran ("lost": a timeout, or an answer that
cannot be read); agrelha may die. Nobody can then know the enforcement: a probe
whose answer is lost has switched it on, and a revert that fails leaves it so, until
a toggle succeeds. `doubtful` records exactly this, and `EnforcementIsChosen` speaks of
the rest; `ProbeStuck` refutes `EnforcementIsKept`, that reading the enforcement
does not change it. A Valheim change waits for ArgoCD in a goroutine, for five
minutes, and where there is a cluster; otherwise its id is `excused`.
`CrossedEdits`, `ProbeRace`, `EarlyLanding` and `Unaudited` show what
breaks the others. The page reports success in both copies also when one half failed.

`BackgroundProofs` proves of these three:

- `HealthTypeCorrect`, and `EveryDeathIsRecorded`:
  `ChecksAreQuick => (HealthSpec => []DeathsRecorded)` (see `SlowCheck`). The
  invariant says which death each row is of, that a row with the counts of the
  current pod is of its last death (`SameDeath`), and what a check that has read
  and not yet recorded may still add (`WatchInv`, `RowsInv`, `MissInv`).
- `RosterIsRight`: `WorkersTakeTurns => (PresenceSpec => [](PresenceTypeOK /\
  RosterAgrees))`, and `OnlineShownIsOnline`: if moreover a stream repeats the whole
  log (`StreamsRepeatAll`), `OnlineIsShown` (`OverlapPresence`, `ShortTail`). Deletes,
  dying servers and failed statements need no condition. A roster row may disagree
  only while a worker or a delete owes the statement that puts it right
  (`RosterOwed`), or for a player in `unsure`; a worker that is past a line has shown
  what the line says (`ShownInv`).
- `ListsAgreeAtLast`: `OneRequestAtATime => (ListsSpec => [](ListsTypeOK /\
  ListsAgree))` (`CrossedEdits`, `ProbeRace`, `EarlyLanding`), whichever commands fail
  or lose their answers and whenever agrelha dies. The invariant has three parts that
  share no state: the request about an entry and the halves it has written (`McInv`),
  the probe that switches enforcement on and back (`LookInv`), and, for Valheim, which
  commits of an admin are synchronised and loaded or waited for (`AdminInv`).

## ModIndex, Capacity, Rcon

`ModIndex`: the loop and an update check both build the package index, with
nothing between them. `AgeIsHonest` and `CheckedAgainstFresh` hold;
`StaleIndex` (the warning at `thunderstore/client.go:167` announces lookups,
the old index answers), `BrokenOffIndex` (a body that breaks off between two
packages is installed) and `CrossedBuilds` (the slower build installs the
older list) refute the rest. A restart finds the stored index, or none when it
cannot be read. The client's timeout of 15 s makes its 3 minutes for
the index ineffective.

`Capacity`: boots that may stop anywhere, an operator who saves limits, tiers and
sizes. `SeedKeepsEdits`, `OnlyAskedResizes`, `CountedIsRendered` and
`SizesAreValid` hold.
`stored_limits` is the listed violation: `docs/configuration.md:171` says stored
limits win over the environment, and no gate reads them. `HalfSeeded` and
`HalfCredited` (a boot that was cut off is never finished, though a comment
in `wiring.go` says so), `CeilingUnbound` (the ceiling is looked at only for
administrators, whom it does not bind), `DriftOfBuiltin` (drift is measured
against the built-in sizes) and `CrossedResizes` are the others. CPU and heap
are left out, the three limits are one number, each game has one world.

`BackgroundProofs` proves, without conditions, `IndexKeepsItsAge`:
`IndexSpec => [](IndexTypeOK /\ IndexIsHonest)` (a list in memory, in the table or
in the hands of a goroutine is at most one request older than it says), and
`SavedChoicesStay`: `SizesAreValid`, and the action properties that a boot
overwrites nothing saved and that only edits resize; with one editor at a time
(`CrossedResizes`) also `ChosenAndCounted`: `CapacitySpec => ChoicesStay`. Its
invariant says what a form in progress holds of the row it will write back.

`Rcon`: three commands, two addresses with a client each; the server is external
and may be slow, restart, refuse the password and answer at length.
`AnswerIsMine` (although packet ids are not compared), `KeptConnectionIsClean`
and `OncePerAttempt` hold. `RetriedCommand` refutes `RunAtMostOnce`: any
error, also an answer that is too long, sends the command again by the next
address. `FailedButRun` refutes `FailedIsNotRun`.

`BackgroundProofs` proves `RconTypeCorrect` and `AnswersAreOnesOwn`:
`RconSpec => []ConnectionsAreClean`, without conditions, for any commands, routes
and addresses. `AnswerIsMine` is not inductive: that the answer on a connection
is the holder's own follows from `KeptConnectionIsClean` and from what each
stage of the handshake has on the wire (`HolderOK`). That a command runs at most
once per attempt counts the attempts whose packet is still with a server that
may run it late (`late`, a set of pairs of a command and an attempt).

## Bounds and fairness of the later modules

Every bound is a constant of its module, named there and set in the `.cfg`
files. They are the smallest at which the scenarios find their
counterexamples: two of whatever can cross, two versions for one to be stale,
one fault more than is tolerated. These modules state safety only; nothing in
them assumes fairness. A violation that needs a condition the passing run
excludes (an overlap, a lag, a fault) is kept as a scenario that lifts just
that condition.

## Scenarios

To replay one, take the `.cfg`, replace its properties by the one named and set
the constants given. *action* marks those to list as a PROPERTY. `Slots` belongs
to `MCInstances`, `SignOut` and `SlotReuse` to `MCAccess`, `Approvals` to
`MCRequests`, `PendingRestarts` to `MCRestartQueue`, `Stores` to `MCStores`,
`Worlds` to `MCWorlds`, `Background` to `MCBackground`.

| Scenario | From | With | Refutes |
|---|---|---|---|
| `Allowance` | `Approvals` | `Accounts = {a1}`, `Admins = {}`, `Procs = {p1, p2}`, `OnePerAccount = FALSE`, `Faults = {}`, `MaxRequests = 1`, `MaxWorlds = 3` | `AllowanceKept` |
| `AllowanceGMod` | `Approvals` | `Accounts = {a1}`, `Admins = {}`, `Procs = {p1, p2}`, `Games = {"gmod"}`, `Faults = {}`, `MaxRequests = 1`, `MaxWorlds = 3` | `AllowanceKept` |
| `ApproveRetry` | `Approvals` | `Accounts = {a1}`, `Admins = {}`, `Procs = {p1, p2}`, `CreationLimit = 0`, `Faults = {"grant"}`, `MaxRequests = 1`, `MaxWorlds = 3` | `OneWorldPerRequest` |
| `BrokenOffIndex` | `Background` | `Subjects = {"index"}` | `InstalledIsWhole` |
| `CeilingUnbound` | `Background` | `Subjects = {"capacity"}` | `CeilingBinds` |
| `CrashLoop` | `Slots` | `Kinds = {"start", "stop", "delete"}`, `Faults = {"server"}` | `CrashLoopIsDeletable` (action) |
| `CrossedBuilds` | `Background` | `Subjects = {"index"}` | `NeverOlder` (action) |
| `CrossedEdits` | `Background` | `Subjects = {"minecraft"}`, `Overlapping = {"list"}`, `ListFaults = {}` | `HalvesAgree` |
| `CrossedResizes` | `Background` | `Subjects = {"capacity"}`, `Editors = {e1, e2}` | `CountedIsRendered` |
| `CurseForgeUnread` | `Worlds` | `Faults = {}`, `Topics = {"files"}` | `CurseForgeIsRead` |
| `DailyTwice` | `Background` | `Subjects = {"backups"}`, `BackupFaults = {"process"}` | `OncePerCalendarDay` |
| `DeletedMeanwhile` | `Background` | `Subjects = {"backups"}`, `BackupFaults = {"delete"}`, `MaxAsked = 3` | `PruneSparesNewest` (action) |
| `DeletedMidLine` | `Background` | `Subjects = {"presence"}`, `MaxBreaks = 0` | `RosterIsWorlds` |
| `DoubleSubmit` | `Approvals` | `Accounts = {a1}`, `Admins = {}`, `Procs = {p1, p2}`, `CreationLimit = 0`, `OnePerAccount = FALSE`, `Faults = {}`, `MaxWorlds = 3` | `OnePendingRequest` |
| `DriftOfBuiltin` | `Background` | `Subjects = {"capacity"}` | `DriftIsFromTier` |
| `EarlierPin` | `Worlds` | `Topics = {"tree"}` | `PinsAreMet` |
| `EarlyLanding` | `Background` | `Subjects = {"valheim"}`, `Overlapping = {"admin"}`, `ListFaults = {}` | `AdminsAreApplied` |
| `EditDuringRender` | `Worlds` | `Operators = {o1, o2}`, `Topics = {"files"}` | `EditsAreKept` |
| `EmptyExport` | `Worlds` | `Topics = {"export"}`, `ListFails = TRUE` | `ListIsExported` |
| `EndedRequest` | `Worlds` | `Topics = {"tree"}` | `EndedIsClosed` |
| `FailedButRun` | `Background` | `Subjects = {"rcon"}` | `FailedIsNotRun` |
| `FailedRestore` | `Background` | `Subjects = {"backups"}`, `Fresh = {}`, `BackupFaults = {}` | `RestoreLeavesAWorld` |
| `FileComesBack` | `Worlds` | `Topics = {"configs"}`, `FileReturns = TRUE`, `MaxEdits = 1`, `MaxRewrites = 4` | `EditHitsItsSetting` |
| `GateBooting` | `Slots` | `MaxInstances = 2`, `Kinds = {"start"}`, `Faults = {}`, `Existing = {1, 2}` | `StartsFitBudget` |
| `GateCreate` | `Slots` | `MaxInstances = 2`, `Host = "docker"`, `InstantBoot = TRUE`, `Kinds = {"create", "start"}`, `Faults = {}` | `StartsFitBudget` |
| `GateRestart` | `Slots` | `MaxInstances = 2`, `Host = "docker"`, `InstantBoot = TRUE`, `Kinds = {"start", "restart"}`, `Faults = {}`, `Existing = {1, 2}` | `StartsFitBudget` |
| `GhostPlayers` | `Background` | `Subjects = {"presence"}`, `MaxBreaks = 0` | `ShownIsConnected` |
| `HalfCredited` | `Background` | `Subjects = {"capacity"}` | `CreditFinishes` |
| `HalfSeeded` | `Background` | `Subjects = {"capacity"}` | `SeedFinishes` |
| `HyphenatedName` | `Worlds` | `Topics = {"profile"}` | `ImportedSlugsAreNames` |
| `ImportDefault` | `Worlds` | `Topics = {"configs"}` | `ImportTakesEffect` |
| `LaggingList` | `Worlds` | `Faults = {}`, `SyncFirst = FALSE`, `Topics = {"files"}` | `EditsAreKept` |
| `LaggingOverrides` | `Worlds` | `Topics = {"configs"}`, `OverridesLag = TRUE` | `EditsAreStored` |
| `LaggingUndo` | `Worlds` | `Faults = {}`, `SyncFirst = FALSE`, `Topics = {"files"}` | `UndoDiscardsNothing` (action) |
| `LetteredVersions` | `Worlds` | `Topics = {"versions"}`, `Published <- MCLettered`, `MaxUpdates = 3` | `NeverComesBack` |
| `MissingCurseForge` | `Worlds` | `Topics = {"export"}` | `CurseForgeIsEmbedded` |
| `MovedCatalogue` | `Worlds` | `Topics = {"tree"}`, `Moving = {"modrinth"}` | `ResolvedIsClosed` |
| `OverlapPresence` | `Background` | `Subjects = {"presence"}`, `Overlap = TRUE` | `PresenceIsCurrent` |
| `OverlappingCopies` | `Background` | `Subjects = {"backups"}`, `BackupFaults = {"overlap"}`, `MaxAsked = 3` | `PruneSparesNewest` (action) |
| `OverlappingSaves` | `Worlds` | `Topics = {"configs"}`, `EditsOverlap = TRUE` | `EditsAreStored` |
| `OverridesDropped` | `Worlds` | `Topics = {"upload"}` | `UploadIsReadWhole` |
| `PaddedHeader` | `Worlds` | `Topics = {"padded"}` | `MergeIsExact` |
| `ProbeRace` | `Background` | `Subjects = {"minecraft"}`, `Overlapping = {"toggle"}`, `ListFaults = {}` | `EnforcementIsChosen` |
| `ProbeStuck` | `Background` | `Subjects = {"minecraft"}`, `ListFaults = {"rcon"}` | `EnforcementIsKept` |
| `QueueLost` | `PendingRestarts` | `Handlers = {h1}`, `Races = {"crash"}`, `Faults = {}`, `MaxChanges = 1` | `NoChangeIsForgotten` |
| `RawPut` | `Stores` | `Backends = {"git"}`, `RawPuts = TRUE` | `GitImplementsStateStore` (action) |
| `RefusedDelete` | `Worlds` | `Faults = {}`, `Topics = {"files"}` | `UndoSurvivesRefusal` |
| `RequestDuringRoll` | `PendingRestarts` | `Handlers = {h1}`, `Races = {"overlap"}`, `Faults = {}` | `NoChangeIsForgotten` |
| `ResizeStarts` | `Slots` | `Sizes = {1, 2}`, `Host = "docker"`, `Kinds = {"resize"}`, `Faults = {}` | `EditsDoNotStart` (action) |
| `RestartBeforeSync` | `PendingRestarts` | `Handlers = {h1}`, `Races = {"lag"}`, `Faults = {}`, `MaxChanges = 1` | `NoChangeIsForgotten` |
| `RevokeRace` | `SignOut` | `Kinds = {"grant", "revoke"}`, `Faults = {}`, `SessionTTL = 4`, `MaxSessions = 1` | `RevokeIsImmediate` |
| `SafetySnapshot` | `Background` | `Subjects = {"backups"}`, `BackupFaults = {}` | `SafetySnapshotSaved` (action) |
| `SettleIsTime` | `PendingRestarts` | `Handlers = {h1}`, `Races = {"replay"}`, `Faults = {}`, `MaxChanges = 1`, `MaxLines = 1` | `DisconnectsOnlyNewcomers` (action) |
| `SharedEdits` | `Stores` | `Backends = {"local"}`, `SharedEdits = TRUE` | `LocalImplementsStateStore` (action) |
| `SharedGlob` | `Background` | `Subjects = {"backups"}`, `Fresh = {}`, `Globs <- Shared` | `PruneSparesNewest` (action) |
| `ShortTail` | `Background` | `Subjects = {"presence"}`, `TailLines = 1` | `PresenceIsCurrent` |
| `SkippedDependency` | `Worlds` | `Topics = {"tree"}`, `Breaking = {"modrinth"}` | `ResolvedIsClosed` |
| `SlowCheck` | `Background` | `Subjects = {"health"}`, `SlowChecks = TRUE`, `StoreFails = FALSE` | `NoDeathMissed` |
| `StaleIndex` | `Background` | `Subjects = {"index"}` | `FallsBackToLookups` |
| `StaleReport` | `Worlds` | `Faults = {}`, `FreshReports = FALSE`, `Topics = {"files"}` | `UpdatesOnlyRaise` (action) |
| `StaleRole` | `SlotReuse` | `Accounts = {a1}`, `Concurrent = TRUE`, `Kinds = {"page", "zitadel"}`, `Faults = {}`, `SessionTTL = 4`, `MaxSessions = 1`, `MaxWorlds = 1`, `MaxTime = 6` | `GoneWithinTTL` |
| `StopRecorded` | `Background` | `Subjects = {"health"}`, `Hosts = {"docker"}`, `StoreFails = FALSE` | `StopsAreNotCrashes` |
| `TenthCandidate` | `Worlds` | `Topics = {"versions"}` | `PrereleasesAreNumbers` |
| `TornBackup` | `Background` | `Subjects = {"backups"}`, `BackupFaults = {}` | `BackupIsOneVersion` |
| `Unaudited` | `Background` | `Subjects = {"minecraft"}`, `ListFaults = {"game"}` | `ChangesAreAudited` |
| `UndoGone` | `Worlds` | `Hosts = {"cluster"}`, `Faults = {}`, `Topics = {"files"}` | `UndoIsOffered` |
| `UnlistedPin` | `Worlds` | `Topics = {"export"}` | `PinIsKept` |
| `UnreadFile` | `Worlds` | `Faults = {"store", "read"}`, `Topics = {"files"}` | `EditsAreKept` |
| `WrongPod` | `RestartHappens` | `Worlds = {w1, w2}`, `Races = {"otherPod"}`, `Faults = {}`, `MaxLines = 1`, `MaxTime = 3`, `MaxLost = 0` | `DisconnectsOnlyNewcomers` (action) |

With a file of their own: `ApproveTwice`, `IncidentFlood`, `MergedRequest`, `Orphan`, `Resurrection`, `RetriedCommand`, `SavesLost`, `SignOutRace`, `SlotReuseRace`, `Unreadable`.

## Not modelled, and why

- Pages, forms and the streams that feed them: rendering, and reads of state that
  other modules own. Handlers with a state change of their own are mapped where
  their component is.
- Searches and single lookups in catalogues, the Steam, Minecraft-version and
  modpack-index clients: requests and caches whose staleness nothing depends on.
- The text of manifests, compose files and reports: data. What reaches which file
  is in `WorldFiles`.
- Token verification, password hashing: cryptography.
- `app/mods/mods.go` and `app/access/mods.go`: constructed, never called.
- The adoption of a Valheim server from before Instances, the configs shared by
  all worlds of a game: not yet.

What is model-checked but not proved:

- Liveness (`RequestsReturn`, `PendingRestartHappens`): fairness and ENABLED are
  out of the prover's reach.
- `WorldsTypeOK` and `BackgroundTypeOK` say for the part a behaviour is
  about what is proved of that part in its own specification; only the composition
  by `topic` and `subject` is left to TLC.

The library's induction theorems take an operator, which the installed provers
cannot instantiate, and `SelectSeq` and folds are opaque to them. `ContentProofs`
does without: recursion over lines, lists and queues is by recursive functions, and
`UpTo` and `Loops` are its induction.

## Plan

1. Done: `Instances` and its proofs, `Access`, `Requests`, `RestartQueue`, the
   state stores with their refinement, the files and updates of a world, configs,
   dependencies, packs and versions, and the background loops.
2. Done: the type and the safety properties of all of these, and the refinement
   of both stores.
3. Adoption and shared configs in `Instances` and `WorldFiles`.
