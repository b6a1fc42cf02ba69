----------------------------- MODULE WorldFiles -----------------------------
(***************************************************************************)
(* The files of one world: the Desired state that InstanceManager keeps in *)
(* the state store (mods.yaml with its Modrinth or Thunderstore half and   *)
(* its CurseForge half, configs.yaml, and the rendered manifests), what    *)
(* the Host has of it, and what the server was last booted with.           *)
(*                                                                         *)
(* On the cluster, ArgoCD brings the Desired state to the live objects     *)
(* some time later, and agrelha reads mod lists from the live ConfigMap.   *)
(* On a Docker Host agrelha reads them from the state store and itself     *)
(* materialises a compose project and runs it.                             *)
(*                                                                         *)
(* A store call runs alone (StateStore), though on a Docker Host one that  *)
(* fails can have written some files of the directory and not others       *)
(* (LocalStore); between two calls of one request, other requests run.     *)
(* A mod is a number, in the order of the    *)
(* Keys, and a version too: 0 says that a list does not have the mod.      *)
(***************************************************************************)
EXTENDS Integers

CONSTANTS
  Mods, CFMods,    \* the mods of the first catalogue and of CurseForge
  MaxVersion,      \* bound on the versions a catalogue publishes
  Deps,            \* Deps[m], the other mods in m's dependency tree
  Pins,            \* the versions an operator types, 0 for none
  Files,           \* config files
  Settings,        \* settings and sizes a world can have
  Hosts,           \* where the world may be: "cluster", "docker"
  Operators,       \* the operators' requests that can run at a time
  Faults,          \* what can fail: "store", "docker" and "db" calls; "read", the
                   \* reading of a file that is to be preserved; "cut", a write
                   \* that stops in the middle of mods.yaml
  SyncFirst,       \* TRUE: operators wait until ArgoCD has synchronised
  MaxRequests      \* bound on the requests

ASSUME WorldFilesAssumption ==
  /\ Mods \subseteq Nat /\ MaxVersion \in Nat \ {0}
  /\ Deps \in [Mods -> SUBSET Mods]
  /\ Pins \subseteq 0 .. MaxVersion
  /\ SyncFirst \in BOOLEAN /\ MaxRequests \in Nat

VARIABLES
  host,        \* EffectiveHost of the world
  desired,     \* its directory in the state store
  live,        \* the cluster's objects, or the compose project's files
  overlay,     \* Docker: the config files that hold an Override's values
  server,      \* whether the server is up and what it was booted with
  row,         \* the settings in the instance table
  published,   \* published[m], the newest version in the catalogue
  op,          \* op[c], the request c is serving
  hooks,       \* the lists that afterSyncHook goroutines wait for
  result,      \* how the last multi-step request ended
  requests,    \* how many requests were made
  authored     \* history: what the edits made of the lists and configs

worldVars == <<host, desired, live, overlay, server, row, published, op, hooks,
               result, requests, authored>>

-----------------------------------------------------------------------------
(* Data *)

Lists   == [Mods -> 0 .. MaxVersion]
CFLists == [CFMods -> 0 .. 1]
NoMods  == [m \in Mods |-> 0]
NoCF    == [m \in CFMods |-> 0]

\* RenderStateFiles renders an empty configs file beside the list's file.
NoConfigs == {}

\* EnvWith: the server is pointed at a CurseForge file only when the list that
\* is rendered has CurseForge mods.
ReadsCF(cf) == cf # NoCF

\* What the renderers make of an Instance's settings and a mod list.
Render(settings, mods, cf) ==
  [mods |-> mods, cf |-> cf, configs |-> NoConfigs, settings |-> settings, readsCF |-> ReadsCF(cf)]

Trees == [mods : Lists, cf : CFLists, configs : SUBSET Files, settings : Settings, readsCF : BOOLEAN]

\* A server that boots from a tree; it does not read a CurseForge list that
\* its environment does not name.
Boot(tree, configs) ==
  [up |-> TRUE, mods |-> tree.mods, cf |-> IF tree.readsCF THEN tree.cf ELSE NoCF,
   settings |-> tree.settings, configs |-> configs]

Idle == [pc |-> "idle"]
NoResult == [kind |-> "none"]
AllIdle == \A c \in Operators : op[c] = Idle

\* readsFromCluster: GetInstalledMods, GetCurseForgeMods and GetModList.
Installed == IF host = "cluster" THEN live.mods ELSE desired.mods
InstalledCF == IF host = "cluster" THEN live.cf ELSE desired.cf

\* An operator makes a request.
Request(c) ==
  /\ op[c] = Idle
  /\ requests < MaxRequests
  /\ SyncFirst /\ host = "cluster" => live = desired
  /\ requests' = requests + 1

-----------------------------------------------------------------------------
(* Edits: each is one StateStore.Patch. *)

\* The lists and configs of a tree are what an edit makes of them.
Patched(tree) ==
  /\ desired' = tree
  /\ authored' = [mods |-> tree.mods, cf |-> tree.cf, configs |-> tree.configs]
  /\ result' = NoResult
  /\ UNCHANGED <<host, live, overlay, server, row, published, op, hooks>>

\* The list with m and what m needs: a version typed for m pins m, even when
\* m is already there; what is missing gets the newest version.
InstalledTree(m, v) ==
  LET newest == [desired.mods EXCEPT ![m] = IF v # 0 THEN v ELSE IF @ = 0 THEN published[m] ELSE @]
  IN [d \in Mods |-> IF d \in Deps[m] /\ newest[d] = 0 THEN published[d] ELSE newest[d]]

\* InstallMod.  When the dependencies cannot be resolved, m goes in alone; when
\* the version cannot be resolved the installation is refused.
InstallMod(c) == \E m \in Mods, v \in Pins, resolved \in BOOLEAN :
  /\ Request(c)
  /\ IF resolved THEN Patched([desired EXCEPT !.mods = InstalledTree(m, v)])
                 ELSE Patched([desired EXCEPT !.mods[m] = InstalledTree(m, v)[m]])

\* RemoveMod: its dependencies stay.
RemoveMod(c) == \E m \in Mods :
  Request(c) /\ Patched([desired EXCEPT !.mods[m] = 0])

\* InstallCurseForgeMod and RemoveCurseForgeMod edit the other half, and the
\* environment is not rendered again.
InstallCurseForgeMod(c) == \E m \in CFMods :
  Request(c) /\ Patched([desired EXCEPT !.cf[m] = 1])

RemoveCurseForgeMod(c) == \E m \in CFMods :
  Request(c) /\ Patched([desired EXCEPT !.cf[m] = 0])

SaveConfig(c) == \E f \in Files :
  Request(c) /\ Patched([desired EXCEPT !.configs = @ \cup {f}])

DeleteConfig(c) == \E f \in Files :
  Request(c) /\ Patched([desired EXCEPT !.configs = @ \ {f}])

-----------------------------------------------------------------------------
(* writeRendered, the calls of it that change something, one at a time.  A  *)
(* request that renders holds what it read: the settings (its Instance),    *)
(* the lists, whether mods.yaml is preserved and whether it converges.      *)

Rendering(c, kind, settings, mods, cf, keepMods, converge) ==
  op' = [op EXCEPT ![c] = [pc |-> "keep", kind |-> kind, settings |-> settings, mods |-> mods, cf |-> cf,
                           keepMods |-> keepMods, converge |-> converge, docs |-> Render(settings, mods, cf)]]

Finish(c, ok) ==
  /\ op' = [op EXCEPT ![c] = Idle]
  /\ result' = [kind |-> op[c].kind, ok |-> ok]

\* SetResources: GetInstance and GetModList, and later the whole directory.
SetResources(c) == \E s \in Settings :
  /\ Request(c)
  /\ Rendering(c, "resize", s, Installed, InstalledCF, FALSE, TRUE)
  /\ result' = NoResult
  /\ UNCHANGED <<host, desired, live, overlay, server, row, published, hooks, authored>>

(* Mutant: a settings save renders the mod list that it has not read. *)
SettingsOverMods(c) == \E s \in Settings :
  /\ Request(c)
  /\ Rendering(c, "settings", s, NoMods, NoCF, FALSE, FALSE)
  /\ result' = NoResult
  /\ UNCHANGED <<host, desired, live, overlay, server, row, published, hooks, authored>>

\* UpdateSettings: no list is read, mods.yaml is preserved, nothing converges.
UpdateSettings(c) == \E s \in Settings :
  /\ Request(c)
  /\ Rendering(c, "settings", s, NoMods, NoCF, TRUE, FALSE)
  /\ result' = NoResult
  /\ UNCHANGED <<host, desired, live, overlay, server, row, published, hooks, authored>>

\* StartInstance on a Docker Host renders what the store has; on the cluster it
\* scales the Deployment up, which boots from the live objects.
StartInstance(c) ==
  /\ Request(c)
  /\ ~server.up
  /\ result' = NoResult
  /\ IF host = "docker"
     THEN /\ Rendering(c, "start", row, desired.mods, desired.cf, FALSE, TRUE)
          /\ UNCHANGED server
     ELSE /\ server' = Boot(live, live.configs)
          /\ UNCHANGED op
  /\ UNCHANGED <<host, desired, live, overlay, row, published, hooks, authored>>

StopInstance(c) ==
  /\ Request(c)
  /\ server' = [server EXCEPT !.up = FALSE]
  /\ result' = NoResult
  /\ UNCHANGED <<host, desired, live, overlay, row, published, op, hooks, authored>>

\* Restart: a container comes back as it is, with the config files that are
\* there; a pod is made anew from the live objects.
Restarted == IF ~server.up THEN server
             ELSE IF host = "docker" THEN [server EXCEPT !.configs = overlay]
             ELSE Boot(live, live.configs)

RestartInstance(c) ==
  /\ Request(c)
  /\ server' = Restarted
  /\ result' = NoResult
  /\ UNCHANGED <<host, desired, live, overlay, row, published, op, hooks, authored>>

\* What is put of a rendering: a preserved file is what the store has of it, or
\* what was rendered when it could not be read.  (A configs file that has no
\* entry is rendered again, which makes no difference.)
Kept(o, unread) ==
  [o.docs EXCEPT !.configs = IF "configs.yaml" \in unread THEN @ ELSE desired.configs,
                 !.mods = IF o.keepMods /\ "mods.yaml" \notin unread THEN desired.mods ELSE @,
                 !.cf = IF o.keepMods /\ "mods.yaml" \notin unread THEN desired.cf ELSE @]

\* The files that the reading of a directory misses.
Unread == IF "read" \in Faults THEN SUBSET {"configs.yaml", "mods.yaml"} ELSE {{}}

\* The preserved files are read; one that cannot be read is passed over.
Preserve(c) == \E unread \in Unread :
  /\ op[c].pc = "keep"
  /\ op' = [op EXCEPT ![c] = [@ EXCEPT !.pc = "put", !.docs = Kept(op[c], unread)]]
  /\ UNCHANGED <<host, desired, live, overlay, server, row, published, hooks, result, requests, authored>>

\* Where a request goes after its files are in the store and on the Host.
After(c) == [op EXCEPT ![c].pc = IF @ = "put" /\ host = "docker" THEN "materialize"
                                 ELSE IF op[c].converge /\ host = "docker" /\ @ # "converge" THEN "converge"
                                 ELSE "save"]

\* What a PutTree that fails leaves of the directory: on the cluster all of it,
\* on a Docker Host each of mods.yaml, configs.yaml and compose.yaml as it was
\* or as it should be, or mods.yaml with nothing in it.
Halfway(docs) ==
  IF host = "cluster" THEN {desired}
  ELSE {[mods |-> m.mods, cf |-> m.cf, configs |-> f.configs, settings |-> s.settings, readsCF |-> s.readsCF] :
          f, s \in {desired, docs},
          m \in {desired, docs} \cup IF "cut" \in Faults THEN {[docs EXCEPT !.mods = NoMods, !.cf = NoCF]} ELSE {}}

\* PutTree: the directory becomes what was rendered and preserved.
PutTree(c) ==
  /\ op[c].pc = "put"
  /\ \/ /\ desired' = op[c].docs
        /\ op' = After(c)
        /\ UNCHANGED result
     \/ "store" \in Faults /\ Finish(c, FALSE) /\ desired' \in Halfway(op[c].docs)
  /\ UNCHANGED <<host, live, overlay, server, row, published, hooks, requests, authored>>

\* Materialize writes what was rendered, also where the store kept its own.
Materialize(c) ==
  /\ op[c].pc = "materialize"
  /\ \/ /\ live' = Render(op[c].settings, op[c].mods, op[c].cf)
        /\ op' = After(c)
        /\ UNCHANGED result
     \/ "docker" \in Faults /\ Finish(c, FALSE) /\ UNCHANGED live
  /\ UNCHANGED <<host, desired, overlay, server, row, published, hooks, requests, authored>>

(* Mutant: compose up leaves a running container alone. *)
OnlyWhenDown == ~server.up

\* compose up: a container that is not running is started, and one whose
\* service definition changed (the environment, or the digest of the mod list
\* in its labels) is made anew.
Recreates == \/ ~server.up
             \/ server.mods # live.mods
             \/ server.cf # Boot(live, {}).cf
             \/ server.settings # live.settings

\* ListConfigDataFor, for a world on a Docker Host.
Overrides == desired.configs

\* MergeDir: every Override is merged into its config file.  The values of one
\* that was deleted stay.
Merged == overlay \cup Overrides

\* preConverge merges the Overrides, then Converge is compose up.
Converge(c) ==
  /\ op[c].pc = "converge"
  /\ \/ /\ overlay' = Merged
        /\ server' = IF Recreates THEN Boot(live, overlay') ELSE server
        /\ op' = After(c)
        /\ UNCHANGED result
     \/ "docker" \in Faults /\ Finish(c, FALSE) /\ UNCHANGED <<overlay, server>>
  /\ UNCHANGED <<host, desired, live, row, published, hooks, requests, authored>>

\* The row is saved last.  StartInstance changes only its state.
SaveRow(c) ==
  /\ op[c].pc = "save"
  /\ op[c].kind \in {"resize", "settings", "start"}
  /\ \/ row' = op[c].settings /\ Finish(c, TRUE)
     \/ "db" \in Faults /\ Finish(c, FALSE) /\ UNCHANGED row
  /\ UNCHANGED <<host, desired, live, overlay, server, published, hooks, requests, authored>>

-----------------------------------------------------------------------------
(* ReplaceMods, for the update checker: a Patch of the whole list, then the *)
(* Host.                                                                    *)
ReplaceMods(c) ==
  LET o == op[c]
      changed == o.mods # desired.mods
  IN /\ o.pc = "patch"
     /\ \/ /\ desired' = [desired EXCEPT !.mods = o.mods]
           /\ authored' = [authored EXCEPT !.mods = o.mods]
           /\ op' = [op EXCEPT ![c] = [o EXCEPT !.changed = changed, !.cf = desired.cf, !.converge = server.up,
                                                !.docs = Render(o.settings, o.mods, desired.cf),
                                                !.pc = IF host = "docker" THEN "keep" ELSE "save"]]
           /\ hooks' = IF host = "cluster" /\ changed THEN hooks \cup {o.mods} ELSE hooks
           /\ UNCHANGED result
        \/ "store" \in Faults /\ Finish(c, FALSE) /\ UNCHANGED <<desired, authored, hooks>>
     /\ UNCHANGED <<host, live, overlay, server, row, published, requests>>

\* The afterSyncHook goroutine: once the live list has every entry it waits
\* for, it restarts the server; after syncTimeout it gives up.
AfterSync(w) ==
  /\ hooks' = hooks \ {w}
  /\ \/ /\ \A m \in Mods : w[m] # 0 => live.mods[m] = w[m]
        /\ server' = Restarted
     \/ UNCHANGED server
  /\ result' = NoResult
  /\ UNCHANGED <<host, desired, live, overlay, row, published, op, requests, authored>>

-----------------------------------------------------------------------------
(* The world outside. *)

\* ArgoCD applies the Desired state; a Deployment whose template changed rolls.
Sync ==
  /\ host = "cluster"
  /\ live # desired
  /\ live' = desired
  /\ \/ UNCHANGED server
     \/ server.up /\ server' = Boot(desired, desired.configs)
  /\ result' = NoResult
  /\ UNCHANGED <<host, desired, overlay, row, published, op, hooks, requests, authored>>

Publish == \E m \in Mods :
  /\ published[m] < MaxVersion
  /\ published' = [published EXCEPT ![m] = @ + 1]
  /\ result' = NoResult
  /\ UNCHANGED <<host, desired, live, overlay, server, row, op, hooks, requests, authored>>

WorldInit ==
  /\ host \in Hosts
  /\ \E s \in Settings :
       /\ desired = Render(s, NoMods, NoCF)
       /\ row = s
  /\ live = desired
  /\ overlay = {}
  /\ server = [Boot(live, {}) EXCEPT !.up = FALSE]
  /\ published = [m \in Mods |-> 1]
  /\ op = [c \in Operators |-> Idle]
  /\ hooks = {} /\ result = NoResult /\ requests = 0
  /\ authored = [mods |-> NoMods, cf |-> NoCF, configs |-> {}]

WorldNext ==
  \/ \E c \in Operators :
       \/ InstallMod(c) \/ RemoveMod(c) \/ InstallCurseForgeMod(c) \/ RemoveCurseForgeMod(c)
       \/ SaveConfig(c) \/ DeleteConfig(c) \/ SetResources(c) \/ UpdateSettings(c)
       \/ StartInstance(c) \/ StopInstance(c) \/ RestartInstance(c)
       \/ Preserve(c) \/ PutTree(c) \/ Materialize(c) \/ Converge(c) \/ SaveRow(c)
       \/ ReplaceMods(c)
  \/ \E w \in hooks : AfterSync(w)
  \/ Sync \/ Publish

-----------------------------------------------------------------------------
(* Properties *)

WorldTypeOK ==
  /\ host \in Hosts
  /\ desired \in Trees /\ live \in Trees
  /\ overlay \subseteq Files
  /\ server \in [up : BOOLEAN, mods : Lists, cf : CFLists, settings : Settings, configs : SUBSET Files]
  /\ row \in Settings
  /\ published \in [Mods -> 1 .. MaxVersion]
  /\ hooks \subseteq Lists
  /\ requests \in 0 .. MaxRequests

\* No request but an edit changes a list or a config: a resize, a settings
\* save or a start that writes the whole directory again, or fails with some of
\* its files written, leaves every mod, CurseForge mod and config file that was
\* installed or saved before it, and none that was removed - as long as the
\* files it preserves can be read ("read") and no write of mods.yaml ends in
\* the middle of it ("cut"), of neither of which writeRendered takes notice.
EditsAreKept ==
  AllIdle => authored = [mods |-> desired.mods, cf |-> desired.cf, configs |-> desired.configs]

\* When a start, a resize or a replaced mod list is reported done on a Docker
\* Host, the server that is up runs the mods of both catalogues and the
\* settings that the store declares, and has been given every Override.
ConvergedIsDesired ==
  (host = "docker" /\ result # NoResult /\ result.kind \in {"start", "resize", "apply", "undo"} /\ result.ok /\ server.up)
     => /\ server.mods = desired.mods
        /\ server.cf = desired.cf
        /\ server.settings = desired.settings
        /\ desired.configs \subseteq overlay

\* A world with CurseForge mods is told to read them, and one without is not
\* (domain.Instance.EnvWith).
CurseForgeIsRead == AllIdle => desired.readsCF = (desired.cf # NoCF)
=============================================================================
