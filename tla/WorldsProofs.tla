---------------------------- MODULE WorldsProofs ----------------------------
(***************************************************************************)
(* Theorems about the files of a world and the updates of its mods, for    *)
(* any number of mods, files, settings, versions and requests: edits are   *)
(* kept, what is reported done runs, and an update and its undo change     *)
(* only what they are meant to.                                            *)
(***************************************************************************)
EXTENDS ModUpdates, TLAPS

(* The records of the requests that render, of the two that replace the     *)
(* list, and of those that have only the panel left to show.                *)
Stages == {"keep", "put", "materialize", "converge", "save"}
Renderings ==
  [pc : Stages, kind : {"resize", "settings", "start"}, settings : Settings, mods : Lists, cf : CFLists,
   keepMods : BOOLEAN, converge : BOOLEAN, docs : Trees]
Replacements ==
  [pc : Stages \cup {"patch"}, kind : {"apply", "undo"}, settings : Settings, mods : Lists, cf : CFLists,
   keepMods : BOOLEAN, converge : BOOLEAN, docs : Trees, changed : BOOLEAN, previous : Lists, targets : SUBSET Mods]
Panels == [pc : {"panel"}, kind : {"apply", "undo", "view"}]
Ops == {Idle} \cup Panels \cup Renderings \cup Replacements

Servers == [up : BOOLEAN, mods : Lists, cf : CFLists, settings : Settings, configs : SUBSET Files]
Authored == [mods : Lists, cf : CFLists, configs : SUBSET Files]

(* The type invariant, with the requests in progress.                       *)
FilesInv ==
  /\ host \in Hosts /\ desired \in Trees /\ live \in Trees /\ overlay \in SUBSET Files
  /\ server \in Servers /\ row \in Settings /\ published \in [Mods -> 1 .. MaxVersion]
  /\ hooks \in SUBSET Lists /\ requests \in 0 .. MaxRequests
  /\ op \in [Operators -> Ops] /\ authored \in Authored

UpdateInv ==
  /\ report \in Lists /\ pend \in Lists \cup {NotPending} /\ point \in Points \cup {NoPoint}
  /\ undoable \in BOOLEAN /\ refused \in BOOLEAN

LEMMA FilesInvImplies == FilesInv => WorldTypeOK
  BY DEF FilesInv, WorldTypeOK, Servers

-----------------------------------------------------------------------------
(* What the operators of the model make is well typed.                      *)

LEMMA VersionsTyped == 0 \in 0 .. MaxVersion /\ 1 \in 0 .. MaxVersion /\ 1 .. MaxVersion \subseteq 0 .. MaxVersion
  BY WorldFilesAssumption DEF WorldFilesAssumption

LEMMA ListsTyped == NoMods \in Lists /\ NoCF \in CFLists
  BY VersionsTyped DEF NoMods, NoCF, Lists, CFLists

LEMMA RenderTyped ==
  ASSUME NEW s \in Settings, NEW m \in Lists, NEW cf \in CFLists
  PROVE  Render(s, m, cf) \in Trees
  BY DEF Render, Trees, NoConfigs, ReadsCF

LEMMA BootTyped ==
  ASSUME NEW tree \in Trees, NEW configs \in SUBSET Files
  PROVE  /\ Boot(tree, configs) \in Servers /\ Boot(tree, configs).up
         /\ Boot(tree, configs).mods = tree.mods /\ Boot(tree, configs).settings = tree.settings
         /\ Boot(tree, configs).cf = IF tree.readsCF THEN tree.cf ELSE NoCF
  BY ListsTyped DEF Boot, Servers, Trees

LEMMA RestartedTyped ==
  ASSUME FilesInv
  PROVE  /\ Restarted \in Servers /\ Restarted.up = server.up
         /\ host = "docker" =>
              Restarted.mods = server.mods /\ Restarted.cf = server.cf /\ Restarted.settings = server.settings
<1>1. live \in Trees /\ live.configs \in SUBSET Files /\ server \in Servers /\ overlay \in SUBSET Files
  BY DEF FilesInv, Trees
<1>2. CASE ~server.up
  BY <1>1, <1>2 DEF Restarted
<1>3. CASE server.up /\ host = "docker"
  BY <1>1, <1>3 DEF Restarted, Servers
<1>4. CASE server.up /\ host # "docker"
  <2>1. Restarted = Boot(live, live.configs)
    BY <1>4 DEF Restarted
  <2>2. Boot(live, live.configs) \in Servers /\ Boot(live, live.configs).up
    BY <1>1, BootTyped
  <2> QED BY <2>1, <2>2, <1>4
<1> QED BY <1>2, <1>3, <1>4

LEMMA InstalledTyped ==
  ASSUME FilesInv
  PROVE  Installed \in Lists /\ InstalledCF \in CFLists
  BY DEF FilesInv, Trees, Installed, InstalledCF

LEMMA InstalledTreeTyped ==
  ASSUME FilesInv, NEW m \in Mods, NEW v \in Pins
  PROVE  InstalledTree(m, v) \in Lists
<1>1. desired.mods \in [Mods -> 0 .. MaxVersion] /\ v \in 0 .. MaxVersion
      /\ \A d \in Mods : published[d] \in 0 .. MaxVersion
  BY WorldFilesAssumption, VersionsTyped DEF WorldFilesAssumption, FilesInv, Trees, Lists
<1> DEFINE newest == [desired.mods EXCEPT ![m] = IF v # 0 THEN v ELSE IF @ = 0 THEN published[m] ELSE @]
<1>2. newest \in [Mods -> 0 .. MaxVersion]
  BY <1>1
<1> HIDE DEF newest
<1>3. [d \in Mods |-> IF d \in Deps[m] /\ newest[d] = 0 THEN published[d] ELSE newest[d]] \in Lists
  BY <1>1, <1>2 DEF Lists
<1> QED BY <1>3 DEF InstalledTree, newest

(* The pieces of a tree, put together again.                                *)
LEMMA TreeEdited ==
  ASSUME NEW t \in Trees
  PROVE  /\ \A m \in Lists : [t EXCEPT !.mods = m] \in Trees
         /\ \A cf \in CFLists : [t EXCEPT !.cf = cf] \in Trees
         /\ \A f \in SUBSET Files : [t EXCEPT !.configs = f] \in Trees
         /\ \A f \in SUBSET Files, m \in Lists, cf \in CFLists :
              [t EXCEPT !.configs = f, !.mods = m, !.cf = cf] \in Trees
         /\ t.mods \in Lists /\ t.cf \in CFLists /\ t.configs \in SUBSET Files /\ t.settings \in Settings
  BY DEF Trees

-----------------------------------------------------------------------------
(* Type correctness of the files: one lemma per action that makes anything. *)

LEMMA OpReplaced ==
  ASSUME FilesInv, NEW c \in Operators, NEW k \in Ops, op' = [op EXCEPT ![c] = k]
  PROVE  op' \in [Operators -> Ops] /\ op'[c] = k /\ \A d \in Operators \ {c} : op'[d] = op[d]
  BY DEF FilesInv

LEMMA StepKinds ==
  ASSUME NEW o \in Ops, o.pc \notin {"idle", "panel"}
  PROVE  o \in Renderings \cup Replacements
  BY DEF Ops, Idle, Panels

LEMMA PatchedTyped ==
  ASSUME FilesInv, NEW c \in Operators, Request(c), NEW tree \in Trees, Patched(tree)
  PROVE  FilesInv'
<1>1. desired' \in Trees /\ authored' \in Authored
  BY DEF Patched, Trees, Authored
<1>2. requests' \in 0 .. MaxRequests
  BY WorldFilesAssumption DEF WorldFilesAssumption, FilesInv, Request
<1>3. UNCHANGED <<host, live, overlay, server, row, published, op, hooks>>
  BY DEF Patched
<1> QED BY <1>1, <1>2, <1>3 DEF FilesInv

(* What a page asks the store to edit.                                      *)
Edit(c) == \/ InstallMod(c) \/ RemoveMod(c) \/ InstallCurseForgeMod(c) \/ RemoveCurseForgeMod(c)
           \/ SaveConfig(c) \/ DeleteConfig(c)

LEMMA EditIsPatch ==
  ASSUME FilesInv, NEW c \in Operators, Edit(c)
  PROVE  Request(c) /\ \E tree \in Trees : Patched(tree)
<1>1. desired \in Trees
  BY DEF FilesInv
<1>2. CASE InstallMod(c)
  <2>1. PICK m \in Mods, v \in Pins, resolved \in BOOLEAN :
          /\ Request(c)
          /\ IF resolved THEN Patched([desired EXCEPT !.mods = InstalledTree(m, v)])
                         ELSE Patched([desired EXCEPT !.mods[m] = InstalledTree(m, v)[m]])
    BY <1>2 DEF InstallMod
  <2>2. PICK list : list = InstalledTree(m, v)
    OBVIOUS
  <2>3. list \in Lists /\ list[m] \in 0 .. MaxVersion
    BY <2>2, InstalledTreeTyped DEF Lists
  <2>4. [desired EXCEPT !.mods = list] \in Trees
    BY <1>1, <2>3, TreeEdited
  <2>5. [desired EXCEPT !.mods[m] = list[m]] \in Trees
    BY <1>1, <2>3 DEF Trees, Lists
  <2> QED BY <2>1, <2>2, <2>4, <2>5
<1>3. CASE RemoveMod(c)
  <2>1. PICK m \in Mods : Request(c) /\ Patched([desired EXCEPT !.mods[m] = 0])
    BY <1>3 DEF RemoveMod
  <2>2. [desired EXCEPT !.mods[m] = 0] \in Trees
    BY <1>1, VersionsTyped DEF Trees, Lists
  <2> QED BY <2>1, <2>2
<1>4. CASE InstallCurseForgeMod(c) \/ RemoveCurseForgeMod(c)
  <2>1. PICK m \in CFMods, n \in {0, 1} : Request(c) /\ Patched([desired EXCEPT !.cf[m] = n])
    BY <1>4 DEF InstallCurseForgeMod, RemoveCurseForgeMod
  <2>2. [desired EXCEPT !.cf[m] = n] \in Trees
    BY <1>1 DEF Trees, CFLists
  <2> QED BY <2>1, <2>2
<1>5. CASE SaveConfig(c) \/ DeleteConfig(c)
  <2>1. PICK configs \in SUBSET Files : Request(c) /\ Patched([desired EXCEPT !.configs = configs])
    <3>1. desired.configs \in SUBSET Files
      BY <1>1, TreeEdited
    <3>2. CASE SaveConfig(c)
      <4>1. PICK f \in Files : Request(c) /\ Patched([desired EXCEPT !.configs = @ \cup {f}])
        BY <3>2 DEF SaveConfig
      <4>2. [desired EXCEPT !.configs = @ \cup {f}] = [desired EXCEPT !.configs = desired.configs \cup {f}]
        BY <1>1 DEF Trees
      <4> QED BY <3>1, <4>1, <4>2
    <3>3. CASE DeleteConfig(c)
      <4>1. PICK f \in Files : Request(c) /\ Patched([desired EXCEPT !.configs = @ \ {f}])
        BY <3>3 DEF DeleteConfig
      <4>2. [desired EXCEPT !.configs = @ \ {f}] = [desired EXCEPT !.configs = desired.configs \ {f}]
        BY <1>1 DEF Trees
      <4> QED BY <3>1, <4>1, <4>2
    <3> QED BY <1>5, <3>2, <3>3
  <2>2. [desired EXCEPT !.configs = configs] \in Trees
    BY <1>1, TreeEdited
  <2> QED BY <2>1, <2>2
<1> QED BY <1>2, <1>3, <1>4, <1>5 DEF Edit

(* The three requests that render begin with what they read.                *)
Begins(c, k) ==
  /\ Request(c) /\ op' = [op EXCEPT ![c] = k] /\ result' = NoResult
  /\ UNCHANGED <<host, desired, live, overlay, server, row, published, hooks, authored>>

Fresh(kind, settings, mods, cf, keepMods, converge) ==
  [pc |-> "keep", kind |-> kind, settings |-> settings, mods |-> mods, cf |-> cf,
   keepMods |-> keepMods, converge |-> converge, docs |-> Render(settings, mods, cf)]

LEMMA FreshTyped ==
  ASSUME NEW kind \in {"resize", "settings", "start"}, NEW s \in Settings, NEW m \in Lists, NEW cf \in CFLists,
         NEW keepMods \in BOOLEAN, NEW converge \in BOOLEAN
  PROVE  Fresh(kind, s, m, cf, keepMods, converge) \in Renderings
  BY RenderTyped DEF Fresh, Renderings, Stages

(* What is begun: a resize and a start on Docker with the lists in force, a  *)
(* settings save with none.                                                  *)
Begun(k) ==
  \/ \E s \in Settings : k = Fresh("resize", s, Installed, InstalledCF, FALSE, TRUE)
  \/ \E s \in Settings : k = Fresh("settings", s, NoMods, NoCF, TRUE, FALSE)
  \/ host = "docker" /\ k = Fresh("start", row, desired.mods, desired.cf, FALSE, TRUE)

LEMMA BegunTyped ==
  ASSUME FilesInv, NEW k, Begun(k)
  PROVE  k \in Renderings /\ k \in Ops
<1>1. Installed \in Lists /\ InstalledCF \in CFLists /\ NoMods \in Lists /\ NoCF \in CFLists
      /\ row \in Settings /\ desired.mods \in Lists /\ desired.cf \in CFLists
  BY InstalledTyped, ListsTyped, TreeEdited DEF FilesInv
<1>2. CASE \E s \in Settings : k = Fresh("resize", s, Installed, InstalledCF, FALSE, TRUE)
  BY <1>1, <1>2, FreshTyped DEF Ops
<1>3. CASE \E s \in Settings : k = Fresh("settings", s, NoMods, NoCF, TRUE, FALSE)
  BY <1>1, <1>3, FreshTyped DEF Ops
<1>4. CASE k = Fresh("start", row, desired.mods, desired.cf, FALSE, TRUE)
  BY <1>1, <1>4, FreshTyped DEF Ops
<1> QED BY <1>2, <1>3, <1>4 DEF Begun

LEMMA BeginsTyped ==
  ASSUME FilesInv, NEW c \in Operators, NEW k \in Ops, Begins(c, k)
  PROVE  FilesInv'
<1>1. op' \in [Operators -> Ops]
  BY OpReplaced DEF Begins
<1>2. requests' \in 0 .. MaxRequests
  BY WorldFilesAssumption DEF WorldFilesAssumption, FilesInv, Request, Begins
<1> QED BY <1>1, <1>2 DEF FilesInv, Begins

(* The actions that begin a rendering, and those that act on the server.    *)
LEMMA Beginning ==
  ASSUME NEW c \in Operators, SetResources(c) \/ UpdateSettings(c) \/ (StartInstance(c) /\ host = "docker")
  PROVE  \E k : Begun(k) /\ Begins(c, k)
<1>1. CASE SetResources(c)
  <2>1. PICK s \in Settings : Begins(c, Fresh("resize", s, Installed, InstalledCF, FALSE, TRUE))
    BY <1>1 DEF SetResources, Rendering, Begins, Fresh
  <2> QED BY <2>1 DEF Begun
<1>2. CASE UpdateSettings(c)
  <2>1. PICK s \in Settings : Begins(c, Fresh("settings", s, NoMods, NoCF, TRUE, FALSE))
    BY <1>2 DEF UpdateSettings, Rendering, Begins, Fresh
  <2> QED BY <2>1 DEF Begun
<1>3. CASE StartInstance(c) /\ host = "docker"
  <2>1. Begins(c, Fresh("start", row, desired.mods, desired.cf, FALSE, TRUE))
    BY <1>3 DEF StartInstance, Rendering, Begins, Fresh
  <2> QED BY <1>3, <2>1 DEF Begun
<1> QED BY <1>1, <1>2, <1>3

(* The server is started, stopped or restarted by a request, and nothing    *)
(* else changes.                                                            *)
Turns(c) ==
  /\ Request(c) /\ result' = NoResult
  /\ UNCHANGED <<host, desired, live, overlay, row, published, op, hooks, authored>>
  /\ \/ host # "docker" /\ server' = Boot(live, live.configs)
     \/ server' = [server EXCEPT !.up = FALSE]
     \/ server' = Restarted

LEMMA Turning ==
  ASSUME NEW c \in Operators, StopInstance(c) \/ RestartInstance(c) \/ (StartInstance(c) /\ host # "docker")
  PROVE  Turns(c)
  BY DEF StopInstance, RestartInstance, StartInstance, Turns

LEMMA TurnsTyped ==
  ASSUME FilesInv, NEW c \in Operators, Turns(c)
  PROVE  FilesInv'
<1>1. server' \in Servers
  <2>1. live \in Trees /\ live.configs \in SUBSET Files
    BY TreeEdited DEF FilesInv
  <2>2. Boot(live, live.configs) \in Servers
    BY <2>1, BootTyped
  <2>3. [server EXCEPT !.up = FALSE] \in Servers
    BY DEF FilesInv, Servers
  <2> QED BY <2>2, <2>3, RestartedTyped DEF Turns
<1>2. requests' \in 0 .. MaxRequests
  BY WorldFilesAssumption DEF WorldFilesAssumption, FilesInv, Request, Turns
<1> QED BY <1>1, <1>2 DEF FilesInv, Turns

(* The stages of a request. *)

LEMMA Restaged ==
  ASSUME NEW o \in Renderings \cup Replacements, NEW p \in Stages
  PROVE  /\ [o EXCEPT !.pc = p] \in Renderings \cup Replacements
         /\ [o EXCEPT !.pc = p].pc = p /\ [o EXCEPT !.pc = p].kind = o.kind
         /\ [o EXCEPT !.pc = p].settings = o.settings /\ [o EXCEPT !.pc = p].mods = o.mods
         /\ [o EXCEPT !.pc = p].cf = o.cf /\ [o EXCEPT !.pc = p].keepMods = o.keepMods
         /\ [o EXCEPT !.pc = p].converge = o.converge /\ [o EXCEPT !.pc = p].docs = o.docs
         /\ o \in Replacements => /\ [o EXCEPT !.pc = p].changed = o.changed
                                  /\ [o EXCEPT !.pc = p].previous = o.previous
<1>1. CASE o \in Renderings
  <2>1. o \notin Replacements
    BY <1>1 DEF Renderings, Replacements
  <2> QED BY <1>1, <2>1 DEF Renderings
<1>2. CASE o \in Replacements
  BY <1>2 DEF Replacements
<1> QED BY <1>1, <1>2

LEMMA OpFields ==
  ASSUME NEW o \in Renderings \cup Replacements
  PROVE  /\ o.pc \in Stages \cup {"patch"} /\ o.settings \in Settings /\ o.mods \in Lists /\ o.cf \in CFLists
         /\ o.docs \in Trees /\ o.kind \in {"resize", "settings", "start", "apply", "undo"} /\ o \in Ops
         /\ o.keepMods \in BOOLEAN /\ o.converge \in BOOLEAN /\ o # Idle
         /\ o.kind \in {"resize", "settings", "start"} <=> o \in Renderings
         /\ o.kind \in {"apply", "undo"} <=> o \in Replacements
  BY DEF Renderings, Replacements, Ops, Idle, Stages

(* The stage that comes after the one of o.                                 *)
NextStage(o) == IF o.pc = "put" /\ host = "docker" THEN "materialize"
                ELSE IF o.converge /\ host = "docker" /\ o.pc # "converge" THEN "converge"
                ELSE "save"

LEMMA AfterMoves ==
  ASSUME FilesInv, NEW c \in Operators
  PROVE  After(c) = [op EXCEPT ![c] = [op[c] EXCEPT !.pc = NextStage(op[c])]] /\ NextStage(op[c]) \in Stages
<1>1. NextStage(op[c]) \in Stages
  BY DEF NextStage, Stages
<1>2. NextStage(op[c]) = IF op[c].pc = "put" /\ host = "docker" THEN "materialize"
                         ELSE IF op[c].converge /\ host = "docker" /\ op[c].pc # "converge" THEN "converge"
                         ELSE "save"
  BY DEF NextStage
<1>3. PICK p : p = NextStage(op[c])
  OBVIOUS
<1>4. After(c) = [op EXCEPT ![c] = [op[c] EXCEPT !.pc = p]]
  BY <1>2, <1>3 DEF After
<1> QED BY <1>1, <1>3, <1>4

LEMMA FinishMoves ==
  ASSUME FilesInv, NEW c \in Operators, NEW ok \in BOOLEAN, Finish(c, ok)
  PROVE  op' = [op EXCEPT ![c] = Idle] /\ Idle \in Ops /\ op' \in [Operators -> Ops]
         /\ result' = [kind |-> op[c].kind, ok |-> ok]
  BY DEF FilesInv, Finish, Ops

LEMMA KeptTyped ==
  ASSUME FilesInv, NEW o \in Renderings \cup Replacements, NEW unread
  PROVE  /\ Kept(o, unread) \in Trees /\ Kept(o, unread).settings = o.docs.settings
         /\ unread = {} => /\ Kept(o, unread).configs = desired.configs
                           /\ Kept(o, unread).mods = IF o.keepMods THEN desired.mods ELSE o.docs.mods
                           /\ Kept(o, unread).cf = IF o.keepMods THEN desired.cf ELSE o.docs.cf
<1>1. o.docs \in Trees /\ desired \in Trees
  BY OpFields DEF FilesInv
<1> PICK docs \in Trees : docs = o.docs
  BY <1>1
<1> PICK configs : configs = IF "configs.yaml" \in unread THEN docs.configs ELSE desired.configs
  OBVIOUS
<1> PICK mods : mods = IF o.keepMods /\ "mods.yaml" \notin unread THEN desired.mods ELSE docs.mods
  OBVIOUS
<1> PICK cf : cf = IF o.keepMods /\ "mods.yaml" \notin unread THEN desired.cf ELSE docs.cf
  OBVIOUS
<1>2. Kept(o, unread) = [docs EXCEPT !.configs = configs, !.mods = mods, !.cf = cf]
  BY <1>1 DEF Kept, Trees
<1>3. configs \in SUBSET Files /\ mods \in Lists /\ cf \in CFLists
  BY <1>1 DEF Trees
<1>4. /\ Kept(o, unread) \in Trees /\ Kept(o, unread).settings = docs.settings
      /\ Kept(o, unread).configs = configs /\ Kept(o, unread).mods = mods /\ Kept(o, unread).cf = cf
  BY <1>2, <1>3 DEF Trees
<1> QED BY <1>4

(* What a write that failed leaves. *)
LEMMA HalfwayTyped ==
  ASSUME FilesInv, NEW docs \in Trees, NEW t \in Halfway(docs)
  PROVE  /\ t \in Trees
         /\ "cut" \notin Faults => /\ t.mods \in {desired.mods, docs.mods} /\ t.cf \in {desired.cf, docs.cf}
                                   /\ t.configs \in {desired.configs, docs.configs}
<1>1. desired \in Trees
  BY DEF FilesInv
<1>2. CASE host = "cluster"
  BY <1>1, <1>2 DEF Halfway
<1>3. CASE host # "cluster"
  <2>1. PICK f, s \in {desired, docs},
             m \in {desired, docs} \cup IF "cut" \in Faults THEN {[docs EXCEPT !.mods = NoMods, !.cf = NoCF]} ELSE {} :
          t = [mods |-> m.mods, cf |-> m.cf, configs |-> f.configs, settings |-> s.settings, readsCF |-> s.readsCF]
    BY <1>3 DEF Halfway
  <2>2. [docs EXCEPT !.mods = NoMods, !.cf = NoCF] \in Trees
    BY ListsTyped DEF Trees
  <2>3. f \in Trees /\ s \in Trees /\ m \in Trees /\ ("cut" \notin Faults => m \in {desired, docs})
    BY <1>1, <2>1, <2>2
  <2>4. /\ m.mods \in Lists /\ m.cf \in CFLists /\ f.configs \in SUBSET Files
        /\ s.settings \in Settings /\ s.readsCF \in BOOLEAN
    BY <2>3 DEF Trees
  <2>5. t \in Trees /\ t.mods = m.mods /\ t.cf = m.cf /\ t.configs = f.configs
    BY <2>1, <2>4 DEF Trees
  <2> QED BY <2>1, <2>3, <2>5
<1> QED BY <1>2, <1>3

LEMMA Redocumented ==
  ASSUME NEW o \in Renderings \cup Replacements, NEW t \in Trees, NEW k, k = [o EXCEPT !.pc = "put", !.docs = t]
  PROVE  /\ k \in Renderings \cup Replacements /\ k.pc = "put" /\ k.docs = t /\ k.kind = o.kind
         /\ k.settings = o.settings /\ k.mods = o.mods /\ k.cf = o.cf /\ k.keepMods = o.keepMods
         /\ k.converge = o.converge
         /\ o \in Replacements => k.changed = o.changed /\ k.previous = o.previous
<1>1. CASE o \in Renderings
  <2>1. o \notin Replacements
    BY <1>1 DEF Renderings, Replacements
  <2> QED BY <1>1, <2>1 DEF Renderings, Stages
<1>2. CASE o \in Replacements
  BY <1>2 DEF Replacements, Stages
<1> QED BY <1>1, <1>2

LEMMA PreserveMoves ==
  ASSUME FilesInv, NEW c \in Operators, Preserve(c)
  PROVE  /\ op[c] \in Renderings \cup Replacements /\ op[c].pc = "keep"
         /\ UNCHANGED <<host, desired, live, overlay, server, row, published, hooks, result, requests, authored>>
         /\ \E unread \in Unread :
              op' = [op EXCEPT ![c] = [op[c] EXCEPT !.pc = "put", !.docs = Kept(op[c], unread)]]
<1>1. op[c].pc = "keep" /\ op[c] \in Ops
  BY DEF Preserve, FilesInv
<1>2. op[c] \in Renderings \cup Replacements
  BY <1>1, StepKinds
<1> QED BY <1>1, <1>2 DEF Preserve

(* What ReplaceMods leaves of the request.                                  *)
Patching(o) ==
  [o EXCEPT !.changed = (o.mods # desired.mods), !.cf = desired.cf, !.converge = server.up,
            !.docs = Render(o.settings, o.mods, desired.cf), !.pc = IF host = "docker" THEN "keep" ELSE "save"]

LEMMA PatchingTyped ==
  ASSUME FilesInv, NEW o \in Replacements
  PROVE  /\ Patching(o) \in Replacements /\ Patching(o).changed = (o.mods # desired.mods) /\ Patching(o).cf = desired.cf
         /\ Patching(o).converge = server.up /\ Patching(o).docs = Render(o.settings, o.mods, desired.cf)
         /\ Patching(o).pc = IF host = "docker" THEN "keep" ELSE "save"
         /\ Patching(o).mods = o.mods /\ Patching(o).settings = o.settings /\ Patching(o).kind = o.kind
         /\ Patching(o).keepMods = o.keepMods /\ Patching(o).previous = o.previous
<1>1. o.settings \in Settings /\ o.mods \in Lists
  BY DEF Replacements
<1>2. desired.cf \in CFLists /\ server.up \in BOOLEAN
  BY DEF FilesInv, Trees, Servers
<1>3. Render(o.settings, o.mods, desired.cf) \in Trees
  BY <1>1, <1>2, RenderTyped
<1>4. (IF host = "docker" THEN "keep" ELSE "save") \in Stages
  BY DEF Stages
<1> QED BY <1>2, <1>3, <1>4 DEF Patching, Replacements

(* "patch" is the stage of a replacement, made by Apply and Undo alone.     *)
LEMMA ReplaceModsMoves ==
  ASSUME FilesInv, NEW c \in Operators, ReplaceMods(c)
  PROVE  /\ op[c] \in Replacements /\ op[c].pc = "patch"
         /\ UNCHANGED <<host, live, overlay, server, row, published, requests>>
         /\ \/ /\ desired' = [desired EXCEPT !.mods = op[c].mods] /\ authored' = [authored EXCEPT !.mods = op[c].mods]
               /\ op' = [op EXCEPT ![c] = Patching(op[c])] /\ UNCHANGED result
               /\ hooks' \in {hooks, hooks \cup {op[c].mods}}
            \/ Finish(c, FALSE) /\ UNCHANGED <<desired, authored, hooks>>
<1>1. op[c].pc = "patch" /\ op[c] \in Ops
  BY DEF ReplaceMods, FilesInv
<1>2. op[c] \in Replacements
  BY <1>1 DEF Ops, Idle, Panels, Renderings, Stages
<1> QED BY <1>1, <1>2 DEF ReplaceMods, Patching

LEMMA MovesOn ==
  ASSUME FilesInv, NEW c \in Operators, op[c].pc \in Stages
  PROVE  op[c] \in Renderings \cup Replacements /\ (op' = After(c) => op' \in [Operators -> Ops])
<1>1. op[c] \in Renderings \cup Replacements
  <2>1. op[c] \in Ops /\ op[c].pc \notin {"idle", "panel"}
    BY DEF FilesInv, Stages
  <2> QED BY <2>1, StepKinds
<1>2. [op[c] EXCEPT !.pc = NextStage(op[c])] \in Ops
  BY <1>1, AfterMoves, Restaged, OpFields
<1>3. After(c) = [op EXCEPT ![c] = [op[c] EXCEPT !.pc = NextStage(op[c])]]
  BY AfterMoves
<1> QED BY <1>1, <1>2, <1>3, OpReplaced

(* What is merged and booted at a converge.                                 *)
Converged == IF Recreates THEN Boot(live, overlay \cup desired.configs) ELSE server

LEMMA ConvergeMoves ==
  ASSUME FilesInv, NEW c \in Operators, Converge(c)
  PROVE  /\ op[c].pc = "converge"
         /\ UNCHANGED <<host, desired, live, row, published, hooks, requests, authored>>
         /\ overlay \cup desired.configs \in SUBSET Files /\ Converged \in Servers
         /\ \/ /\ overlay' = overlay \cup desired.configs /\ server' = Converged
               /\ op' = After(c) /\ UNCHANGED result
            \/ Finish(c, FALSE) /\ UNCHANGED <<overlay, server>>
<1>1. overlay \cup desired.configs \in SUBSET Files /\ live \in Trees /\ server \in Servers
  BY TreeEdited DEF FilesInv
<1>2. Converged \in Servers
  BY <1>1, BootTyped DEF Converged
<1>3. CASE Finish(c, FALSE) /\ UNCHANGED <<overlay, server>>
  BY <1>1, <1>2, <1>3 DEF Converge
<1>4. CASE overlay' = Merged /\ server' = (IF Recreates THEN Boot(live, overlay') ELSE server) /\ op' = After(c) /\ UNCHANGED result
  <2>1. overlay' = overlay \cup desired.configs
    BY <1>4 DEF Merged, Overrides
  <2>2. server' = Converged
    BY <1>4, <2>1 DEF Converged
  <2> QED BY <1>1, <1>2, <1>4, <2>1, <2>2 DEF Converge
<1> QED BY <1>3, <1>4 DEF Converge

LEMMA StagesTyped ==
  ASSUME FilesInv, NEW c \in Operators,
         Preserve(c) \/ PutTree(c) \/ Materialize(c) \/ Converge(c) \/ SaveRow(c) \/ ReplaceMods(c)
  PROVE  FilesInv'
<1>1. CASE Preserve(c)
  <2>0. PICK unread : op' = [op EXCEPT ![c] = [op[c] EXCEPT !.pc = "put", !.docs = Kept(op[c], unread)]]
    BY <1>1, PreserveMoves
  <2>1. Kept(op[c], unread) \in Trees /\ op[c] \in Renderings \cup Replacements
    BY <1>1, PreserveMoves, KeptTyped
  <2>2. PICK k : k = [op[c] EXCEPT !.pc = "put", !.docs = Kept(op[c], unread)]
    OBVIOUS
  <2>3. k \in Ops
    BY <2>1, <2>2, Redocumented, OpFields
  <2>4. op' \in [Operators -> Ops]
    BY <1>1, <2>0, <2>2, <2>3, OpReplaced
  <2> QED BY <1>1, <2>4, PreserveMoves DEF FilesInv
<1>2. CASE PutTree(c)
  <2>1. op[c].pc \in Stages
    BY <1>2 DEF PutTree, Stages
  <2>2. op[c].docs \in Trees /\ op[c] \in Renderings \cup Replacements
    BY <2>1, MovesOn, OpFields
  <2>3. desired' \in Trees /\ op' \in [Operators -> Ops]
    BY <1>2, <2>1, <2>2, MovesOn, FinishMoves, HalfwayTyped DEF PutTree
  <2> QED BY <1>2, <2>3 DEF PutTree, FilesInv
<1>3. CASE Materialize(c)
  <2>1. op[c].pc \in Stages
    BY <1>3 DEF Materialize, Stages
  <2>2. Render(op[c].settings, op[c].mods, op[c].cf) \in Trees
    BY <2>1, MovesOn, OpFields, RenderTyped
  <2>3. live' \in Trees /\ op' \in [Operators -> Ops]
    BY <1>3, <2>1, <2>2, MovesOn, FinishMoves DEF Materialize, FilesInv
  <2> QED BY <1>3, <2>3 DEF Materialize, FilesInv
<1>4. CASE Converge(c)
  <2>1. op[c].pc \in Stages
    BY <1>4, ConvergeMoves DEF Stages
  <2>2. overlay' \in SUBSET Files /\ server' \in Servers /\ op' \in [Operators -> Ops]
    BY <1>4, <2>1, ConvergeMoves, MovesOn, FinishMoves DEF FilesInv
  <2> QED BY <1>4, <2>2, ConvergeMoves DEF FilesInv
<1>5. CASE SaveRow(c)
  <2>1. op[c].pc \in Stages
    BY <1>5 DEF SaveRow, Stages
  <2>2. op[c].settings \in Settings
    BY <2>1, MovesOn, OpFields
  <2>3. row' \in Settings /\ op' \in [Operators -> Ops]
    BY <1>5, <2>2, FinishMoves DEF SaveRow, FilesInv
  <2> QED BY <1>5, <2>3 DEF SaveRow, FilesInv
<1>6. CASE ReplaceMods(c)
  <2>1. op[c] \in Replacements /\ op[c].mods \in Lists /\ Patching(op[c]) \in Replacements
    BY <1>6, ReplaceModsMoves, PatchingTyped, OpFields
  <2>2. PICK k : k = Patching(op[c])
    OBVIOUS
  <2>3. op' \in [Operators -> Ops]
    BY <1>6, <2>1, <2>2, ReplaceModsMoves, FinishMoves, OpReplaced DEF Ops
  <2>7. /\ UNCHANGED <<host, live, overlay, server, row, published, requests>>
        /\ \/ /\ desired' = [desired EXCEPT !.mods = op[c].mods] /\ authored' = [authored EXCEPT !.mods = op[c].mods]
              /\ hooks' \in {hooks, hooks \cup {op[c].mods}}
           \/ UNCHANGED <<desired, authored, hooks>>
    BY <1>6, ReplaceModsMoves
  <2>8. PICK list \in Lists : list = op[c].mods
    BY <2>1
  <2>4. desired' \in Trees
    <3>1. desired \in Trees /\ [desired EXCEPT !.mods = list] \in Trees
      BY TreeEdited DEF FilesInv
    <3> QED BY <2>7, <2>8, <3>1
  <2>5. authored' \in Authored
    BY <2>7, <2>8 DEF FilesInv, Authored
  <2>6. hooks' \in SUBSET Lists
    BY <2>7, <2>8 DEF FilesInv
  <2> QED BY <2>3, <2>4, <2>5, <2>6, <2>7 DEF FilesInv
<1> QED BY <1>1, <1>2, <1>3, <1>4, <1>5, <1>6

(* What happens outside. *)
LEMMA OutsideTyped ==
  ASSUME FilesInv, (\E w \in hooks : AfterSync(w)) \/ Sync \/ Publish
  PROVE  FilesInv'
<1>1. ASSUME NEW w \in hooks, AfterSync(w) PROVE FilesInv'
  <2>1. server' \in Servers /\ hooks' \in SUBSET Lists
    BY <1>1, RestartedTyped DEF AfterSync, FilesInv
  <2> QED BY <1>1, <2>1 DEF AfterSync, FilesInv
<1>2. CASE Sync
  <2>1. desired \in Trees /\ desired.configs \in SUBSET Files
    BY TreeEdited DEF FilesInv
  <2>2. Boot(desired, desired.configs) \in Servers
    BY <2>1, BootTyped
  <2>3. live' \in Trees /\ server' \in Servers
    BY <1>2, <2>1, <2>2 DEF Sync, FilesInv
  <2> QED BY <1>2, <2>3 DEF Sync, FilesInv
<1>3. CASE Publish
  <2>1. PICK m \in Mods : published[m] < MaxVersion /\ published' = [published EXCEPT ![m] = @ + 1]
    BY <1>3 DEF Publish
  <2>2. published' \in [Mods -> 1 .. MaxVersion]
    BY <2>1, WorldFilesAssumption DEF FilesInv, WorldFilesAssumption
  <2> QED BY <1>3, <2>2 DEF Publish, FilesInv
<1> QED BY <1>1, <1>2, <1>3

(* The disjuncts of WorldNext, as the lemmas above take them.               *)
LEMMA WorldNextCases ==
  ASSUME FilesInv, WorldNext
  PROVE  \/ \E c \in Operators : Edit(c)
         \/ \E c \in Operators : \E k : Begun(k) /\ Begins(c, k)
         \/ \E c \in Operators : Turns(c)
         \/ \E c \in Operators : Preserve(c) \/ PutTree(c) \/ Materialize(c) \/ Converge(c) \/ SaveRow(c) \/ ReplaceMods(c)
         \/ (\E w \in hooks : AfterSync(w)) \/ Sync \/ Publish
<1>1. ASSUME NEW c \in Operators, SetResources(c) \/ UpdateSettings(c) \/ (StartInstance(c) /\ host = "docker")
      PROVE  \E k : Begun(k) /\ Begins(c, k)
  BY <1>1, Beginning
<1>2. ASSUME NEW c \in Operators, StopInstance(c) \/ RestartInstance(c) \/ (StartInstance(c) /\ host # "docker")
      PROVE  Turns(c)
  BY <1>2, Turning
<1> QED BY <1>1, <1>2 DEF WorldNext, Edit

LEMMA WorldTyped ==
  ASSUME FilesInv, WorldNext
  PROVE  FilesInv'
<1>1. ASSUME NEW c \in Operators, Edit(c) PROVE FilesInv'
  BY <1>1, EditIsPatch, PatchedTyped
<1>2. ASSUME NEW c \in Operators, NEW k, Begun(k), Begins(c, k) PROVE FilesInv'
  BY <1>2, BegunTyped, BeginsTyped
<1>3. ASSUME NEW c \in Operators, Turns(c) PROVE FilesInv'
  BY <1>3, TurnsTyped
<1>4. ASSUME NEW c \in Operators,
             Preserve(c) \/ PutTree(c) \/ Materialize(c) \/ Converge(c) \/ SaveRow(c) \/ ReplaceMods(c)
      PROVE  FilesInv'
  BY <1>4, StagesTyped
<1> QED BY <1>1, <1>2, <1>3, <1>4, OutsideTyped, WorldNextCases

-----------------------------------------------------------------------------
(* Type correctness of the updates. *)

LEMMA OutdatedTyped ==
  ASSUME FilesInv, NEW list \in Lists, NEW U \in SUBSET Mods
  PROVE  Outdated(list, U) \in Lists
<1>1. \A m \in Mods : published[m] \in 0 .. MaxVersion
  BY VersionsTyped DEF FilesInv
<1> QED BY <1>1, VersionsTyped DEF Outdated, Lists

LEMMA UpdatedTyped ==
  ASSUME FilesInv, UpdateInv, NEW list \in Lists, NEW targets \in SUBSET Mods
  PROVE  Updated(list, targets) \in Lists
<1>1. \A m \in Mods : published[m] \in 0 .. MaxVersion /\ Pinned(list, targets, m) \in 0 .. MaxVersion
  BY VersionsTyped DEF FilesInv, UpdateInv, Pinned, Lists
<1> QED BY <1>1 DEF Updated, Lists

(* What a request to update, or to go back, begins with.                    *)
Applying(targets) ==
  [pc |-> "patch", kind |-> "apply", mods |-> Updated(Installed, targets), cf |-> NoCF, settings |-> row,
   keepMods |-> FALSE, converge |-> FALSE, docs |-> desired,
   changed |-> FALSE, previous |-> Installed, targets |-> targets]
Undoing ==
  [pc |-> "patch", kind |-> "undo", mods |-> point.previous, cf |-> NoCF, settings |-> row,
   keepMods |-> FALSE, converge |-> FALSE, docs |-> desired,
   changed |-> FALSE, previous |-> NoMods, targets |-> {}]

LEMMA ApplyMoves ==
  ASSUME FilesInv, UpdateInv, NEW c \in Operators, Apply(c)
  PROVE  \E targets \in SUBSET {m \in Mods : report[m] # 0} :
           /\ Applying(targets) \in Replacements /\ Applying(targets) \in Ops
           /\ op' = [op EXCEPT ![c] = Applying(targets)]
           /\ FreshReports => Current
<1>1. PICK targets \in (SUBSET {m \in Mods : report[m] # 0}) \ {{}} :
        op' = [op EXCEPT ![c] = Applying(targets)] /\ (FreshReports => Current)
  BY DEF Apply, Applying
<1>2. PICK list \in Lists : list = Updated(Installed, targets)
  BY InstalledTyped, UpdatedTyped
<1>3. Installed \in Lists /\ NoCF \in CFLists /\ row \in Settings /\ desired \in Trees
  BY InstalledTyped, ListsTyped DEF FilesInv
<1>4. Applying(targets) \in Replacements
  BY <1>2, <1>3 DEF Applying, Replacements
<1> QED BY <1>1, <1>4 DEF Ops

LEMMA UndoMoves ==
  ASSUME FilesInv, UpdateInv, NEW c \in Operators, Undo(c)
  PROVE  /\ point \in Points
         /\ \/ /\ Installed = point.applied /\ op' = [op EXCEPT ![c] = Undoing] /\ UNCHANGED point
               /\ Undoing \in Replacements /\ Undoing \in Ops
            \/ Installed # point.applied /\ point' = NoPoint /\ UNCHANGED op
<1>1. point \in Points
  BY DEF Undo, UpdateInv
<1>2. point.previous \in Lists /\ NoMods \in Lists /\ NoCF \in CFLists /\ row \in Settings /\ desired \in Trees
  BY <1>1, ListsTyped DEF FilesInv, Points
<1>3. Undoing \in Replacements
  BY <1>2 DEF Undoing, Replacements
<1> QED BY <1>1, <1>3 DEF Undo, Matches, Undoing, Ops

(* What the panel and the records of an update leave of the files.          *)
OnlyRequests ==
  /\ UNCHANGED <<host, desired, live, overlay, server, row, published, hooks, authored>>
  /\ op' \in [Operators -> Ops] /\ requests' \in 0 .. MaxRequests

LEMMA OnlyRequestsTyped == FilesInv /\ OnlyRequests => FilesInv'
  BY DEF FilesInv, OnlyRequests

LEMMA RecordMoves ==
  ASSUME FilesInv, UpdateInv, NEW c \in Operators, Record(c)
  PROVE  /\ op[c] \in Replacements /\ op[c].pc = "save"
         /\ op' = [op EXCEPT ![c] = [pc |-> "panel", kind |-> op[c].kind]]
         /\ [pc |-> "panel", kind |-> op[c].kind] \in Panels
         /\ UNCHANGED <<host, desired, live, overlay, server, row, published, hooks, result, requests, authored>>
<1>1. op[c].pc = "save" /\ op[c].kind \in {"apply", "undo"} /\ op[c] \in Ops
  BY DEF Record, FilesInv
<1>2. op[c] \in Replacements
  BY <1>1, StepKinds, OpFields
<1> QED BY <1>1, <1>2 DEF Record, ShowPanel, Panels

LEMMA UpdatesTyped ==
  ASSUME FilesInv, UpdateInv, NEW c \in Operators,
         Apply(c) \/ Undo(c) \/ Record(c) \/ View(c) \/ Panel(c) \/ RefuseDelete(c)
  PROVE  OnlyRequests /\ UpdateInv'
<1>0. ASSUME Request(c) PROVE requests' \in 0 .. MaxRequests
  BY <1>0, WorldFilesAssumption DEF WorldFilesAssumption, FilesInv, Request
<1>1. CASE Apply(c)
  <2>1. PICK k \in Ops : op' = [op EXCEPT ![c] = k]
    BY <1>1, ApplyMoves
  <2>2. op' \in [Operators -> Ops]
    BY <2>1, OpReplaced
  <2> QED BY <1>0, <1>1, <2>2 DEF Apply, OnlyRequests, UpdateInv
<1>2. CASE Undo(c)
  <2>1. UNCHANGED op \/ \E k \in Ops : op' = [op EXCEPT ![c] = k]
    BY <1>2, UndoMoves
  <2>2. op' \in [Operators -> Ops]
    BY <2>1, OpReplaced DEF FilesInv
  <2>3. point' \in Points \cup {NoPoint}
    BY <1>2, UndoMoves DEF UpdateInv
  <2> QED BY <1>0, <1>2, <2>2, <2>3 DEF Undo, OnlyRequests, UpdateInv
<1>3. CASE Record(c)
  <2>1. op' \in [Operators -> Ops]
    BY <1>3, RecordMoves, OpReplaced DEF Ops
  <2>2. op[c].mods \in Lists /\ op[c].previous \in Lists /\ op[c].changed \in BOOLEAN
    BY <1>3, RecordMoves DEF Replacements
  <2>3. [previous |-> op[c].previous, applied |-> op[c].mods] \in Points
    BY <2>2 DEF Points
  <2>4. Outdated(Installed, {}) \in Lists
    BY InstalledTyped, OutdatedTyped
  <2>5. pend' \in Lists \cup {NotPending}
    BY <1>3, <2>2 DEF Record, UpdateInv
  <2>6. CASE op[c].kind = "undo"
    <3>1. report' \in Lists /\ point' \in Points \cup {NoPoint} /\ UNCHANGED <<undoable, refused>>
      BY <1>3, <2>4, <2>6 DEF Record, UpdateInv
    <3> QED BY <1>3, <2>1, <2>5, <3>1, RecordMoves DEF OnlyRequests, UpdateInv, FilesInv
  <2>7. CASE op[c].kind = "apply"
    <3>1. report' = [m \in Mods |-> IF m \in op[c].targets THEN 0 ELSE report[m]]
      BY <1>3, <2>7 DEF Record
    <3>2. report' \in Lists
      BY <3>1, VersionsTyped DEF UpdateInv, Lists
    <3>3. point' \in Points \cup {NoPoint} /\ undoable' \in BOOLEAN /\ refused' \in BOOLEAN
      BY <1>3, <2>2, <2>3, <2>7 DEF Record, UpdateInv
    <3> QED BY <1>3, <2>1, <2>5, <3>2, <3>3, RecordMoves DEF OnlyRequests, UpdateInv, FilesInv
  <2> QED BY <1>3, <2>6, <2>7 DEF Record
<1>4. CASE View(c)
  <2>1. [pc |-> "panel", kind |-> "view"] \in Ops
    BY DEF Ops, Panels
  <2>2. op' \in [Operators -> Ops]
    BY <1>4, <2>1, OpReplaced DEF View, ShowPanel
  <2> QED BY <1>0, <1>4, <2>2 DEF View, OnlyRequests, UpdateInv, updateVars
<1>5. CASE Panel(c)
  <2>1. op' \in [Operators -> Ops]
    BY <1>5, FinishMoves DEF Panel
  <2>2. pend' \in Lists \cup {NotPending} /\ point' \in Points \cup {NoPoint}
    BY <1>5 DEF Panel, UpdateInv
  <2> QED BY <1>5, <2>1, <2>2 DEF Panel, OnlyRequests, UpdateInv, FilesInv
<1>6. CASE RefuseDelete(c)
  BY <1>0, <1>6 DEF RefuseDelete, OnlyRequests, UpdateInv, FilesInv
<1> QED BY <1>1, <1>2, <1>3, <1>4, <1>5, <1>6

LEMMA CheckTyped ==
  ASSUME FilesInv, UpdateInv, RefreshOne \/ PendingExpires
  PROVE  OnlyRequests /\ UpdateInv'
<1>1. CASE RefreshOne
  <2>1. PICK U \in SUBSET Mods : report' = Outdated(Installed, U)
    BY <1>1 DEF RefreshOne
  <2>2. report' \in Lists
    BY <2>1, InstalledTyped, OutdatedTyped
  <2> QED BY <1>1, <2>2 DEF RefreshOne, OnlyRequests, UpdateInv, FilesInv
<1>2. CASE PendingExpires
  BY <1>2 DEF PendingExpires, OnlyRequests, UpdateInv, FilesInv
<1> QED BY <1>1, <1>2

TypeInv == FilesInv /\ UpdateInv

LEMMA TypesStart == Init => TypeInv
<1> SUFFICES ASSUME Init PROVE TypeInv
  OBVIOUS
<1>1. PICK s \in Settings : desired = Render(s, NoMods, NoCF) /\ row = s
  BY DEF Init, WorldInit
<1>2. desired \in Trees /\ live \in Trees
  BY <1>1, ListsTyped, RenderTyped DEF Init, WorldInit
<1>3. Boot(live, {}) \in Servers
  BY <1>2, BootTyped
<1>4. server \in Servers
  BY <1>3 DEF Init, WorldInit, Servers
<1>5. op \in [Operators -> Ops]
  BY DEF Init, WorldInit, Ops
<1>6. published \in [Mods -> 1 .. MaxVersion] /\ requests \in 0 .. MaxRequests /\ authored \in Authored
  BY WorldFilesAssumption, ListsTyped DEF Init, WorldInit, Authored, WorldFilesAssumption
<1>7. report \in Lists
  BY VersionsTyped DEF Init, Lists
<1> QED BY <1>1, <1>2, <1>4, <1>5, <1>6, <1>7 DEF Init, WorldInit, TypeInv, FilesInv, UpdateInv

LEMMA TypesStep == TypeInv /\ [Next]_vars => TypeInv'
<1> SUFFICES ASSUME TypeInv, [Next]_vars PROVE TypeInv'
  OBVIOUS
<1>1. CASE WorldStep
  <2>1. FilesInv'
    BY <1>1, WorldTyped DEF TypeInv, WorldStep
  <2>2. UpdateInv'
    BY <1>1 DEF TypeInv, WorldStep, UpdateInv
  <2> QED BY <2>1, <2>2 DEF TypeInv
<1>2. CASE RefreshOne \/ PendingExpires
  BY <1>2, CheckTyped, OnlyRequestsTyped DEF TypeInv
<1>3. ASSUME NEW c \in Operators, Apply(c) \/ Undo(c) \/ Record(c) \/ View(c) \/ Panel(c) \/ RefuseDelete(c) PROVE TypeInv'
  BY <1>3, UpdatesTyped, OnlyRequestsTyped DEF TypeInv
<1>4. CASE UNCHANGED vars
  BY <1>4 DEF vars, worldVars, updateVars, TypeInv, FilesInv, UpdateInv
<1> QED BY <1>1, <1>2, <1>3, <1>4 DEF Next

(* Whatever fails and however requests interleave, the files, the server,   *)
(* the row, the report and the restore point stay well typed: no edit,      *)
(* rendering or update makes a list with a version that does not exist      *)
(* (Apply, ReplaceMods, writeRendered).                                     *)
THEOREM FilesTypeCorrect == Spec => []WorldTypeOK
<1>1. Spec => []TypeInv
  BY TypesStart, TypesStep, PTL DEF Spec
<1>2. TypeInv => WorldTypeOK
  BY FilesInvImplies DEF TypeInv
<1> QED BY <1>1, <1>2, PTL

-----------------------------------------------------------------------------
(* Edits are kept, and what is reported done runs *)

(* Operators' requests follow each other, and a request finds the edits     *)
(* before it on the Host: ArgoCD has synchronised, or there is no cluster.  *)
OneOperator == \A c, d \in Operators : c = d
HostIsCurrent == SyncFirst \/ "cluster" \notin Hosts

(* The files to preserve can be read, and no write ends in the middle of    *)
(* mods.yaml.                                                               *)
FilesAreWhole == "read" \notin Faults /\ "cut" \notin Faults

(* The server runs what the store declares.                                 *)
Runs == /\ server.mods = desired.mods /\ server.cf = desired.cf /\ server.settings = desired.settings
        /\ desired.configs \subseteq overlay
Shown == host = "docker" /\ server.up => Runs

(* A request that renders the lists has those of the store, puts no others, *)
(* and on Docker has brought the Host as far as its stage says.             *)
Agrees(o) ==
  /\ o.keepMods <=> o.kind = "settings"
  /\ ~o.keepMods /\ o.pc # "patch" => o.mods = desired.mods /\ o.cf = desired.cf
  /\ o.pc = "keep" => o.docs = Render(o.settings, o.mods, o.cf)
  /\ o.pc = "put" => /\ o.docs.mods = desired.mods /\ o.docs.cf = desired.cf
                     /\ o.docs.configs = desired.configs /\ o.docs.settings = o.settings
  /\ o.pc \in {"materialize", "converge", "save"} /\ host = "docker" => desired.settings = o.settings
  /\ o.pc \in {"materialize", "converge"} => host = "docker"
  /\ o.pc = "converge" => ~o.keepMods /\ o.converge /\ live = Render(o.settings, o.mods, o.cf)
  /\ o.kind = "settings" => ~o.converge
  /\ o.kind \in {"resize", "start"} => o.converge
  /\ o.kind \in {"apply", "undo"} /\ o.pc # "patch" /\ ~o.converge /\ host = "docker" => ~server.up
  /\ o.pc = "save" /\ ~o.keepMods => Shown

Working(o) == o \in Renderings \cup Replacements

FileInv ==
  /\ authored = [mods |-> desired.mods, cf |-> desired.cf, configs |-> desired.configs]
  /\ \A c \in Operators : op[c] # Idle => result = NoResult
  /\ \A c \in Operators : Working(op[c]) => Agrees(op[c])
  /\ \A c \in Operators : op[c] \in Panels /\ op[c].kind # "view" => Shown
  /\ ConvergedIsDesired

LEMMA Alone ==
  ASSUME OneOperator, NEW c \in Operators, op[c] = Idle
  PROVE  \A d \in Operators : op[d] = Idle
  BY DEF OneOperator

LEMMA IdleIsNot == ~Working(Idle) /\ Idle \notin Panels
  BY DEF Working, Idle, Renderings, Replacements, Panels, Stages

LEMMA PanelIsNot == \A k \in Panels : ~Working(k)
  BY DEF Working, Renderings, Replacements, Panels, Stages

LEMMA NothingReported == result = NoResult => ConvergedIsDesired
  BY DEF ConvergedIsDesired

(* A step of the only operator. *)
LEMMA OperatorKeeps ==
  ASSUME TypeInv, OneOperator, NEW c \in Operators, NEW k \in Ops, op' = [op EXCEPT ![c] = k],
         authored' = [mods |-> desired'.mods, cf |-> desired'.cf, configs |-> desired'.configs],
         k # Idle => result' = NoResult, Working(k) => Agrees(k)', k \in Panels /\ k.kind # "view" => Shown',
         ConvergedIsDesired'
  PROVE  FileInv'
<1>1. \A d \in Operators : op'[d] = k
  BY DEF TypeInv, FilesInv, OneOperator
<1> QED BY <1>1 DEF FileInv

(* A step of the operators while none has a request. *)
LEMMA IdleKeeps ==
  ASSUME \A d \in Operators : op[d] = Idle, UNCHANGED op, result' = NoResult,
         authored' = [mods |-> desired'.mods, cf |-> desired'.cf, configs |-> desired'.configs]
  PROVE  FileInv'
  BY IdleIsNot DEF FileInv, ConvergedIsDesired

(* Reading a list on either Host gives the one in force.                    *)
LEMMA ReadsAreCurrent ==
  ASSUME TypeInv, HostIsCurrent, NEW c \in Operators, Request(c)
  PROVE  Installed = desired.mods /\ InstalledCF = desired.cf
  BY DEF TypeInv, FilesInv, HostIsCurrent, Request, Installed, InstalledCF

LEMMA EditKeeps ==
  ASSUME TypeInv, FileInv, OneOperator, NEW c \in Operators, Edit(c)
  PROVE  FileInv'
<1>1. Request(c) /\ \E tree \in Trees : Patched(tree)
  BY EditIsPatch DEF TypeInv
<1>2. \A d \in Operators : op[d] = Idle
  BY <1>1, Alone DEF Request
<1> QED BY <1>1, <1>2, IdleKeeps DEF Patched

LEMMA TurnsKeeps ==
  ASSUME TypeInv, FileInv, OneOperator, NEW c \in Operators, Turns(c)
  PROVE  FileInv'
<1>1. \A d \in Operators : op[d] = Idle
  BY Alone DEF Turns, Request
<1> QED BY <1>1, IdleKeeps DEF Turns, FileInv

LEMMA BeginsKeeps ==
  ASSUME TypeInv, FileInv, OneOperator, HostIsCurrent, NEW c \in Operators, NEW k, Begun(k), Begins(c, k)
  PROVE  FileInv'
<1>1. k \in Ops /\ k \in Renderings
  BY BegunTyped DEF TypeInv
<1>2. Installed = desired.mods /\ InstalledCF = desired.cf
  BY ReadsAreCurrent DEF Begins
<1>3. /\ k.pc = "keep" /\ k.docs = Render(k.settings, k.mods, k.cf)
      /\ \/ k.kind \in {"resize", "start"} /\ k.keepMods = FALSE /\ k.converge = TRUE /\ k.mods = desired.mods /\ k.cf = desired.cf
         \/ k.kind = "settings" /\ k.keepMods = TRUE /\ k.converge = FALSE
  <2>1. ASSUME NEW s \in Settings, k = Fresh("resize", s, Installed, InstalledCF, FALSE, TRUE)
        PROVE  k.pc = "keep" /\ k.docs = Render(k.settings, k.mods, k.cf) /\ k.kind = "resize" /\ k.keepMods = FALSE
               /\ k.converge = TRUE /\ k.mods = Installed /\ k.cf = InstalledCF
    BY <2>1 DEF Fresh
  <2>2. ASSUME NEW s \in Settings, k = Fresh("settings", s, NoMods, NoCF, TRUE, FALSE)
        PROVE  k.pc = "keep" /\ k.docs = Render(k.settings, k.mods, k.cf) /\ k.kind = "settings" /\ k.keepMods = TRUE
               /\ k.converge = FALSE
    BY <2>2 DEF Fresh
  <2>3. ASSUME k = Fresh("start", row, desired.mods, desired.cf, FALSE, TRUE)
        PROVE  k.pc = "keep" /\ k.docs = Render(k.settings, k.mods, k.cf) /\ k.kind = "start" /\ k.keepMods = FALSE
               /\ k.converge = TRUE /\ k.mods = desired.mods /\ k.cf = desired.cf
    BY <2>3 DEF Fresh
  <2> QED BY <1>2, <2>1, <2>2, <2>3 DEF Begun
<1>4. UNCHANGED <<host, desired, live, overlay, server, authored>> /\ result' = NoResult
  BY DEF Begins
<1>5. Agrees(k)'
  BY <1>3, <1>4 DEF Agrees
<1>6. ConvergedIsDesired'
  BY <1>4 DEF ConvergedIsDesired
<1>7. k \notin Panels
  BY <1>1, PanelIsNot DEF Working
<1> QED BY <1>1, <1>4, <1>5, <1>6, <1>7, OperatorKeeps DEF Begins, FileInv

LEMMA PreserveKeeps ==
  ASSUME TypeInv, FileInv, OneOperator, FilesAreWhole, NEW c \in Operators, Preserve(c)
  PROVE  FileInv'
<1> PICK o : o = op[c]
  OBVIOUS
<1>1. /\ o \in Renderings \cup Replacements /\ o.pc = "keep" /\ Agrees(o)
      /\ UNCHANGED <<host, desired, live, overlay, server, authored, result>>
  BY PreserveMoves DEF TypeInv, FileInv, Working
<1>0. op' = [op EXCEPT ![c] = [o EXCEPT !.pc = "put", !.docs = Kept(o, {})]]
  <2>1. Unread = {{}}
    BY DEF Unread, FilesAreWhole
  <2> QED BY <2>1, PreserveMoves DEF TypeInv
<1>2. Kept(o, {}) \in Trees /\ Kept(o, {}).configs = desired.configs /\ Kept(o, {}).settings = o.settings
      /\ Kept(o, {}).mods = desired.mods /\ Kept(o, {}).cf = desired.cf
  <2>1. o.docs.settings = o.settings /\ o.docs.mods = o.mods /\ o.docs.cf = o.cf
    BY <1>1 DEF Agrees, Render
  <2>2. ~o.keepMods => o.mods = desired.mods /\ o.cf = desired.cf
    BY <1>1 DEF Agrees
  <2>3. PICK none : none = {}
    OBVIOUS
  <2>4. /\ Kept(o, none) \in Trees /\ Kept(o, none).settings = o.docs.settings /\ Kept(o, none).configs = desired.configs
        /\ Kept(o, none).mods = IF o.keepMods THEN desired.mods ELSE o.docs.mods
        /\ Kept(o, none).cf = IF o.keepMods THEN desired.cf ELSE o.docs.cf
    BY <1>1, <2>3, KeptTyped DEF TypeInv
  <2> QED BY <2>1, <2>2, <2>3, <2>4
<1> PICK t \in Trees : t = Kept(o, {})
  BY <1>2
<1> PICK k : k = [o EXCEPT !.pc = "put", !.docs = t]
  OBVIOUS
<1>3. /\ Working(k) /\ k.pc = "put" /\ k.docs = t /\ k.kind = o.kind /\ k.settings = o.settings /\ k.mods = o.mods
      /\ k.cf = o.cf /\ k.keepMods = o.keepMods /\ k.converge = o.converge
  <2>1. o \in Renderings \cup Replacements
    BY <1>1
  <2>2. k \in Renderings \cup Replacements
    BY <2>1, Redocumented
  <2>3. CASE o \in Renderings
    BY <2>2, <2>3 DEF Working, Renderings
  <2>4. CASE o \in Replacements
    BY <2>2, <2>4 DEF Working, Replacements
  <2> QED BY <2>1, <2>3, <2>4
<1>4. Agrees(k)'
  BY <1>1, <1>2, <1>3 DEF Agrees
<1>5. result = NoResult /\ op' = [op EXCEPT ![c] = k]
  BY <1>0, <1>1, OpFields DEF FileInv
<1>6. k \in Ops /\ k \notin Panels
  BY <1>3, OpFields, PanelIsNot DEF Working
<1>7. ConvergedIsDesired'
  BY <1>1, <1>5 DEF ConvergedIsDesired
<1> QED BY <1>1, <1>4, <1>5, <1>6, <1>7, OperatorKeeps DEF FileInv

(* The request after one of its stages succeeded.                           *)
LEMMA Onward ==
  ASSUME FilesInv, NEW c \in Operators, op[c].pc \in Stages, op' = After(c)
  PROVE  \E k \in Ops : /\ op' = [op EXCEPT ![c] = k] /\ Working(k) /\ k.pc = NextStage(op[c]) /\ k.kind = op[c].kind
                        /\ k.settings = op[c].settings /\ k.mods = op[c].mods /\ k.cf = op[c].cf
                        /\ k.keepMods = op[c].keepMods /\ k.converge = op[c].converge /\ k.docs = op[c].docs
                        /\ op[c] \in Replacements <=> k \in Replacements
                        /\ op[c] \in Replacements => k.changed = op[c].changed /\ k.previous = op[c].previous
<1> PICK o : o = op[c]
  OBVIOUS
<1> PICK p \in Stages : p = NextStage(o)
  BY AfterMoves
<1> PICK k : k = [o EXCEPT !.pc = p]
  OBVIOUS
<1>1. o \in Renderings \cup Replacements /\ op' = [op EXCEPT ![c] = k]
  BY MovesOn, AfterMoves
<1>2. k \in Renderings \cup Replacements
  BY <1>1, Restaged
<1>3. k \in Ops
  BY <1>2, OpFields
<1>4. CASE o \in Renderings
  <2>1. /\ k.pc = p /\ k.kind = o.kind /\ k.settings = o.settings /\ k.mods = o.mods /\ k.cf = o.cf
        /\ k.keepMods = o.keepMods /\ k.converge = o.converge /\ k.docs = o.docs
    BY <1>4 DEF Renderings
  <2>2. o \notin Replacements /\ k \notin Replacements
    BY <1>1, <1>2, <1>4, <2>1, OpFields
  <2> QED BY <1>1, <1>2, <1>3, <2>1, <2>2 DEF Working
<1>5. CASE o \in Replacements
  <2>1. /\ k.pc = p /\ k.kind = o.kind /\ k.settings = o.settings /\ k.mods = o.mods /\ k.cf = o.cf
        /\ k.keepMods = o.keepMods /\ k.converge = o.converge /\ k.docs = o.docs
        /\ k.changed = o.changed /\ k.previous = o.previous
    BY <1>5 DEF Replacements
  <2>2. k \in Replacements
    BY <1>1, <1>2, <1>5, <2>1, OpFields
  <2> QED BY <1>1, <1>2, <1>3, <1>5, <2>1, <2>2 DEF Working
<1> QED BY <1>1, <1>4, <1>5

(* A request that ends: what it reports is right.                           *)
LEMMA EndKeeps ==
  ASSUME TypeInv, FileInv, OneOperator, NEW c \in Operators, NEW ok \in BOOLEAN, Finish(c, ok),
         UNCHANGED <<host, desired, live, overlay, server, authored>>,
         ok /\ op[c].kind \in {"start", "resize", "apply", "undo"} => Shown
  PROVE  FileInv'
<1>1. op' = [op EXCEPT ![c] = Idle] /\ Idle \in Ops /\ result' = [kind |-> op[c].kind, ok |-> ok]
  BY FinishMoves DEF TypeInv
<1>2. ConvergedIsDesired'
  BY <1>1 DEF ConvergedIsDesired, Shown, Runs
<1> QED BY <1>1, <1>2, IdleIsNot, OperatorKeeps DEF FileInv

LEMMA PutTreeKeeps ==
  ASSUME TypeInv, FileInv, OneOperator, FilesAreWhole, NEW c \in Operators, PutTree(c)
  PROVE  FileInv'
<1> PICK o : o = op[c]
  OBVIOUS
<1>1. o.pc = "put" /\ o.pc \in Stages /\ UNCHANGED <<host, live, overlay, server, authored>>
  BY DEF PutTree, Stages
<1>2. o \in Renderings \cup Replacements /\ Agrees(o) /\ o # Idle /\ result = NoResult
  BY <1>1, MovesOn, OpFields DEF TypeInv, FileInv, Working
<1>3. CASE desired' = o.docs /\ op' = After(c) /\ UNCHANGED result
  <2> PICK k \in Ops : /\ op' = [op EXCEPT ![c] = k] /\ Working(k) /\ k.pc = NextStage(o) /\ k.kind = o.kind
                       /\ k.settings = o.settings /\ k.mods = o.mods /\ k.cf = o.cf
                       /\ k.keepMods = o.keepMods /\ k.converge = o.converge /\ k.docs = o.docs
    BY <1>1, <1>3, Onward DEF TypeInv
  <2>1. /\ desired'.mods = desired.mods /\ desired'.cf = desired.cf /\ desired'.configs = desired.configs
        /\ desired'.settings = o.settings
    BY <1>1, <1>2, <1>3 DEF Agrees
  <2>2. k.pc = IF host = "docker" THEN "materialize" ELSE "save"
    BY <1>1 DEF NextStage
  <2>3. Agrees(k)'
    BY <1>1, <1>2, <2>1, <2>2 DEF Agrees, Shown
  <2>4. ConvergedIsDesired' /\ k \notin Panels
    BY <1>2, <1>3, PanelIsNot DEF ConvergedIsDesired
  <2> QED BY <1>1, <1>2, <1>3, <2>1, <2>3, <2>4, OperatorKeeps DEF FileInv
<1>4. CASE Finish(c, FALSE) /\ desired' \in Halfway(o.docs)
  <2>1. o.docs \in Trees /\ o.docs.mods = desired.mods /\ o.docs.cf = desired.cf /\ o.docs.configs = desired.configs
    BY <1>1, <1>2, OpFields DEF Agrees
  <2>2. desired'.mods = desired.mods /\ desired'.cf = desired.cf /\ desired'.configs = desired.configs
    BY <1>4, <2>1, HalfwayTyped DEF TypeInv, FilesAreWhole
  <2>3. op' = [op EXCEPT ![c] = Idle] /\ Idle \in Ops /\ result' = [kind |-> op[c].kind, ok |-> FALSE]
    BY <1>4, FinishMoves DEF TypeInv
  <2>4. ConvergedIsDesired'
    BY <2>3 DEF ConvergedIsDesired
  <2> QED BY <1>1, <2>2, <2>3, <2>4, IdleIsNot, OperatorKeeps DEF FileInv
<1> QED BY <1>3, <1>4 DEF PutTree

LEMMA MaterializeKeeps ==
  ASSUME TypeInv, FileInv, OneOperator, NEW c \in Operators, Materialize(c)
  PROVE  FileInv'
<1> PICK o : o = op[c]
  OBVIOUS
<1>1. o.pc = "materialize" /\ o.pc \in Stages /\ UNCHANGED <<host, desired, overlay, server, authored>>
  BY DEF Materialize, Stages
<1>2. o \in Renderings \cup Replacements /\ Agrees(o) /\ o # Idle /\ result = NoResult
  BY <1>1, MovesOn, OpFields DEF TypeInv, FileInv, Working
<1>3. CASE live' = Render(o.settings, o.mods, o.cf) /\ op' = After(c) /\ UNCHANGED result
  <2> PICK k \in Ops : /\ op' = [op EXCEPT ![c] = k] /\ Working(k) /\ k.pc = NextStage(o) /\ k.kind = o.kind
                       /\ k.settings = o.settings /\ k.mods = o.mods /\ k.cf = o.cf
                       /\ k.keepMods = o.keepMods /\ k.converge = o.converge /\ k.docs = o.docs
    BY <1>1, <1>3, Onward DEF TypeInv
  <2>1. k.pc = IF o.converge THEN "converge" ELSE "save"
    BY <1>1, <1>2 DEF NextStage, Agrees
  <2>2. o.converge => ~o.keepMods
    BY <1>2 DEF Agrees
  <2>3. ~o.converge /\ ~o.keepMods => ~server.up
    BY <1>1, <1>2, OpFields DEF Agrees
  <2>4. live' = Render(k.settings, k.mods, k.cf)
    BY <1>3
  <2>5. Agrees(k)'
    BY <1>1, <1>2, <2>1, <2>2, <2>3, <2>4 DEF Agrees, Shown
  <2>6. ConvergedIsDesired' /\ k \notin Panels
    BY <1>2, <1>3, PanelIsNot DEF ConvergedIsDesired
  <2> QED BY <1>1, <1>2, <1>3, <2>5, <2>6, OperatorKeeps DEF FileInv
<1>4. CASE Finish(c, FALSE) /\ UNCHANGED live
  BY <1>1, <1>4, EndKeeps
<1> QED BY <1>3, <1>4 DEF Materialize

LEMMA ConvergeKeeps ==
  ASSUME TypeInv, FileInv, OneOperator, NEW c \in Operators, Converge(c)
  PROVE  FileInv'
<1> PICK o : o = op[c]
  OBVIOUS
<1>1. o.pc = "converge" /\ o.pc \in Stages /\ UNCHANGED <<host, desired, live, authored>>
  BY ConvergeMoves DEF TypeInv, Stages
<1>2. o \in Renderings \cup Replacements /\ Agrees(o) /\ o # Idle /\ result = NoResult
  BY <1>1, MovesOn, OpFields DEF TypeInv, FileInv, Working
<1>3. CASE overlay' = overlay \cup desired.configs /\ server' = Converged /\ op' = After(c) /\ UNCHANGED result
  <2> PICK k \in Ops : /\ op' = [op EXCEPT ![c] = k] /\ Working(k) /\ k.pc = NextStage(o) /\ k.kind = o.kind
                       /\ k.settings = o.settings /\ k.mods = o.mods /\ k.cf = o.cf
                       /\ k.keepMods = o.keepMods /\ k.converge = o.converge /\ k.docs = o.docs
    BY <1>1, <1>3, Onward DEF TypeInv
  <2>1. k.pc = "save"
    BY <1>1 DEF NextStage
  <2>2. /\ o.converge /\ live.mods = desired.mods /\ live.cf = desired.cf /\ live.settings = desired.settings
        /\ live.readsCF = (desired.cf # NoCF) /\ live \in Trees
    BY <1>1, <1>2 DEF Agrees, Render, ReadsCF, TypeInv, FilesInv
  <2>3. \A configs \in SUBSET Files :
          /\ Boot(live, configs).mods = desired.mods /\ Boot(live, configs).cf = desired.cf
          /\ Boot(live, configs).settings = desired.settings
    BY <2>2 DEF Boot
  <2>4. overlay \cup desired.configs \in SUBSET Files
    BY ConvergeMoves DEF TypeInv
  <2>5. server'.mods = desired.mods /\ server'.cf = desired.cf /\ server'.settings = desired.settings
    <3>1. CASE Recreates
      BY <1>3, <2>3, <2>4, <3>1 DEF Converged
    <3>2. CASE ~Recreates
      <4>1. server' = server /\ server.mods = live.mods /\ server.cf = Boot(live, {}).cf /\ server.settings = live.settings
        BY <1>3, <3>2 DEF Converged, Recreates
      <4>2. Boot(live, {}).cf = desired.cf
        BY <2>3
      <4> QED BY <2>2, <4>1, <4>2
    <3> QED BY <3>1, <3>2
  <2>6. Shown'
    BY <1>1, <1>3, <2>5 DEF Shown, Runs
  <2>7. Agrees(k)'
    BY <1>1, <1>2, <2>1, <2>2, <2>6 DEF Agrees
  <2>8. ConvergedIsDesired' /\ k \notin Panels
    BY <1>2, <1>3, PanelIsNot DEF ConvergedIsDesired
  <2> QED BY <1>1, <1>2, <1>3, <2>7, <2>8, OperatorKeeps DEF FileInv
<1>4. CASE Finish(c, FALSE) /\ UNCHANGED <<overlay, server>>
  BY <1>1, <1>4, EndKeeps
<1> QED BY <1>3, <1>4, ConvergeMoves DEF TypeInv

LEMMA SaveRowKeeps ==
  ASSUME TypeInv, FileInv, OneOperator, NEW c \in Operators, SaveRow(c)
  PROVE  FileInv'
<1>1. op[c].pc = "save" /\ op[c].pc \in Stages /\ UNCHANGED <<host, desired, live, overlay, server, authored>>
  BY DEF SaveRow, Stages
<1>2. Agrees(op[c])
  BY <1>1, MovesOn DEF TypeInv, FileInv, Working
<1>3. op[c].kind \in {"start", "resize", "apply", "undo"} => Shown
  BY <1>1, <1>2 DEF Agrees
<1>4. PICK ok \in BOOLEAN : Finish(c, ok)
  BY DEF SaveRow
<1> QED BY <1>1, <1>3, <1>4, EndKeeps

LEMMA ReplaceModsKeeps ==
  ASSUME TypeInv, FileInv, OneOperator, NEW c \in Operators, ReplaceMods(c)
  PROVE  FileInv'
<1> PICK o : o = op[c]
  OBVIOUS
<1>1. o \in Replacements /\ o.pc = "patch" /\ UNCHANGED <<host, live, overlay, server>>
  BY ReplaceModsMoves DEF TypeInv
<1>2. Agrees(o) /\ o # Idle /\ result = NoResult /\ o.mods \in Lists
  BY <1>1, OpFields DEF FileInv, Working
<1>3. CASE /\ desired' = [desired EXCEPT !.mods = o.mods] /\ authored' = [authored EXCEPT !.mods = o.mods]
           /\ op' = [op EXCEPT ![c] = Patching(o)] /\ UNCHANGED result
  <2> PICK k : k = Patching(o)
    OBVIOUS
  <2>1. /\ k \in Replacements /\ k.pc = (IF host = "docker" THEN "keep" ELSE "save") /\ k.mods = o.mods /\ k.cf = desired.cf
        /\ k.converge = server.up /\ k.docs = Render(o.settings, o.mods, desired.cf)
        /\ k.settings = o.settings /\ k.kind = o.kind /\ k.keepMods = o.keepMods
    BY <1>1, PatchingTyped DEF TypeInv
  <2>2. k \in Ops /\ Working(k) /\ k.kind \in {"apply", "undo"} /\ k \notin Panels
    BY <2>1, PanelIsNot DEF Ops, Working, Replacements
  <2>3. desired \in Trees /\ desired'.mods = o.mods /\ desired'.cf = desired.cf /\ desired'.configs = desired.configs
    BY <1>3 DEF TypeInv, FilesInv, Trees
  <2>4. authored' = [mods |-> desired'.mods, cf |-> desired'.cf, configs |-> desired'.configs]
    BY <1>3, <2>3 DEF FileInv
  <2>5. Agrees(k)'
    BY <1>1, <1>2, <2>1, <2>2, <2>3 DEF Agrees, Shown
  <2>6. ConvergedIsDesired'
    BY <1>2, <1>3 DEF ConvergedIsDesired
  <2> QED BY <1>2, <1>3, <2>2, <2>4, <2>5, <2>6, OperatorKeeps
<1>4. CASE Finish(c, FALSE) /\ UNCHANGED <<desired, authored>>
  BY <1>1, <1>4, EndKeeps
<1> QED BY <1>3, <1>4, ReplaceModsMoves DEF TypeInv

(* Nothing that the operators' requests rely on changes on a Docker Host.   *)
LEMMA OutsideKeeps ==
  ASSUME TypeInv, FileInv, (\E w \in hooks : AfterSync(w)) \/ Sync \/ Publish
  PROVE  FileInv'
<1>1. UNCHANGED <<host, desired, overlay, op, authored>> /\ result' = NoResult
  BY DEF AfterSync, Sync, Publish
<1>2. host = "docker" => /\ live' = live /\ server'.up = server.up /\ server'.mods = server.mods
                         /\ server'.cf = server.cf /\ server'.settings = server.settings
  BY RestartedTyped DEF TypeInv, AfterSync, Sync, Publish
<1>3. Shown => Shown'
  BY <1>1, <1>2 DEF Shown, Runs
<1>4. ASSUME NEW o, Agrees(o) PROVE Agrees(o)'
  BY <1>1, <1>2, <1>3, <1>4 DEF Agrees
<1>5. ConvergedIsDesired'
  BY <1>1 DEF ConvergedIsDesired
<1> QED BY <1>1, <1>3, <1>4, <1>5 DEF FileInv

(* The pages about updates leave the files as they are.                     *)
LEMMA PagesKeep ==
  ASSUME TypeInv, FileInv, OneOperator, NEW c \in Operators,
         Apply(c) \/ Undo(c) \/ Record(c) \/ View(c) \/ Panel(c) \/ RefuseDelete(c)
  PROVE  FileInv'
<1>1. UNCHANGED <<host, desired, live, overlay, server, authored>>
  BY DEF Apply, Undo, Record, View, Panel, RefuseDelete
<1>2. ASSUME NEW k \in Ops, op' = [op EXCEPT ![c] = k], result' = NoResult, Working(k) => Agrees(k)',
             k \in Panels /\ k.kind # "view" => Shown'
      PROVE  FileInv'
  BY <1>1, <1>2, OperatorKeeps DEF FileInv, ConvergedIsDesired
<1>3. ASSUME NEW k, k \in Replacements, k.pc = "patch", k.keepMods = FALSE PROVE Agrees(k)' /\ k \notin Panels
  BY <1>3, PanelIsNot DEF Agrees, Replacements, Working
<1>4. CASE Apply(c)
  <2>1. PICK targets : /\ Applying(targets) \in Replacements /\ Applying(targets) \in Ops
                       /\ op' = [op EXCEPT ![c] = Applying(targets)]
    BY <1>4, ApplyMoves DEF TypeInv
  <2>2. Applying(targets).pc = "patch" /\ Applying(targets).keepMods = FALSE
    BY DEF Applying
  <2>3. result' = NoResult
    BY <1>4 DEF Apply
  <2> QED BY <1>2, <1>3, <2>1, <2>2, <2>3
<1>5. CASE Undo(c)
  <2>1. result' = NoResult /\ Request(c)
    BY <1>5 DEF Undo
  <2>2. CASE op' = [op EXCEPT ![c] = Undoing] /\ Undoing \in Replacements /\ Undoing \in Ops
    <3>1. Undoing.pc = "patch" /\ Undoing.keepMods = FALSE
      BY DEF Undoing
    <3> QED BY <1>2, <1>3, <2>1, <2>2, <3>1
  <2>3. CASE UNCHANGED op
    <3>1. \A d \in Operators : op[d] = Idle
      BY <2>1, Alone DEF Request
    <3> QED BY <1>1, <2>1, <2>3, <3>1, IdleKeeps DEF FileInv
  <2> QED BY <1>5, <2>2, <2>3, UndoMoves DEF TypeInv
<1>6. CASE Record(c)
  <2> PICK k : k = [pc |-> "panel", kind |-> op[c].kind]
    OBVIOUS
  <2>1. op[c] \in Replacements /\ op[c].pc = "save" /\ op' = [op EXCEPT ![c] = k] /\ k \in Panels /\ UNCHANGED result
    BY <1>6, RecordMoves DEF TypeInv
  <2>2. Agrees(op[c]) /\ result = NoResult /\ ~op[c].keepMods
    BY <2>1, OpFields DEF FileInv, Working, Agrees
  <2>3. Shown'
    BY <1>1, <2>1, <2>2 DEF Agrees, Shown, Runs
  <2> QED BY <1>2, <2>1, <2>2, <2>3, PanelIsNot DEF Ops
<1>7. CASE View(c)
  <2> PICK k : k = [pc |-> "panel", kind |-> "view"]
    OBVIOUS
  <2>1. k \in Panels /\ k \in Ops /\ k.kind = "view" /\ op' = [op EXCEPT ![c] = k] /\ result' = NoResult
    BY <1>7 DEF View, ShowPanel, Panels, Ops
  <2> QED BY <1>2, <2>1, PanelIsNot
<1>8. CASE Panel(c)
  <2>1. op[c] \in Panels /\ Finish(c, TRUE)
    <3>1. op[c] \in Ops /\ op[c].pc = "panel"
      BY <1>8 DEF Panel, TypeInv, FilesInv
    <3> PICK o \in Ops : o = op[c]
      BY <3>1
    <3>2. o \in Panels
      BY <3>1 DEF Ops, Idle, Renderings, Replacements, Stages
    <3> QED BY <1>8, <3>2 DEF Panel
  <2>2. op[c].kind \in {"start", "resize", "apply", "undo"} => Shown
    BY <2>1 DEF FileInv, Panels
  <2> QED BY <1>1, <2>1, <2>2, EndKeeps
<1>9. CASE RefuseDelete(c)
  <2>1. \A d \in Operators : op[d] = Idle
    BY <1>9, Alone DEF RefuseDelete, Request
  <2> QED BY <1>1, <1>9, <2>1, IdleKeeps DEF RefuseDelete, FileInv
<1> QED BY <1>4, <1>5, <1>6, <1>7, <1>8, <1>9

LEMMA FilesStart == Init => FileInv
<1> SUFFICES ASSUME Init PROVE FileInv
  OBVIOUS
<1>1. \A d \in Operators : op[d] = Idle
  BY DEF Init, WorldInit
<1>2. authored = [mods |-> desired.mods, cf |-> desired.cf, configs |-> desired.configs]
  BY DEF Init, WorldInit, Render, NoConfigs
<1>3. ConvergedIsDesired
  BY DEF Init, WorldInit, ConvergedIsDesired
<1> QED BY <1>1, <1>2, <1>3, IdleIsNot DEF FileInv

LEMMA FilesStep ==
  ASSUME TypeInv, FileInv, OneOperator, HostIsCurrent, FilesAreWhole, [Next]_vars
  PROVE  FileInv'
<1>1. CASE WorldStep
  <2>1. WorldNext /\ FilesInv
    BY <1>1 DEF WorldStep, TypeInv
  <2>2. ASSUME NEW c \in Operators, Edit(c) PROVE FileInv'
    BY <2>2, EditKeeps
  <2>3. ASSUME NEW c \in Operators, NEW k, Begun(k), Begins(c, k) PROVE FileInv'
    BY <2>3, BeginsKeeps
  <2>4. ASSUME NEW c \in Operators, Turns(c) PROVE FileInv'
    BY <2>4, TurnsKeeps
  <2>5. ASSUME NEW c \in Operators,
               Preserve(c) \/ PutTree(c) \/ Materialize(c) \/ Converge(c) \/ SaveRow(c) \/ ReplaceMods(c)
        PROVE  FileInv'
    BY <2>5, PreserveKeeps, PutTreeKeeps, MaterializeKeeps, ConvergeKeeps, SaveRowKeeps, ReplaceModsKeeps
  <2> QED BY <2>1, <2>2, <2>3, <2>4, <2>5, OutsideKeeps, WorldNextCases
<1>2. CASE RefreshOne \/ PendingExpires
  <2>1. UNCHANGED <<host, desired, live, overlay, server, op, authored>> /\ result' = NoResult
    BY <1>2 DEF RefreshOne, PendingExpires
  <2>2. ASSUME NEW o, Agrees(o) PROVE Agrees(o)'
    BY <2>1, <2>2 DEF Agrees, Shown, Runs
  <2>3. Shown => Shown'
    BY <2>1 DEF Shown, Runs
  <2>4. ConvergedIsDesired'
    BY <2>1 DEF ConvergedIsDesired
  <2> QED BY <2>1, <2>2, <2>3, <2>4 DEF FileInv
<1>3. ASSUME NEW c \in Operators, Apply(c) \/ Undo(c) \/ Record(c) \/ View(c) \/ Panel(c) \/ RefuseDelete(c) PROVE FileInv'
  BY <1>3, PagesKeep
<1>4. CASE UNCHANGED vars
  <2>1. UNCHANGED <<host, desired, live, overlay, server, op, authored, result>>
    BY <1>4 DEF vars, worldVars
  <2>2. ASSUME NEW o, Agrees(o) PROVE Agrees(o)'
    BY <2>1, <2>2 DEF Agrees, Shown, Runs
  <2>3. Shown => Shown'
    BY <2>1 DEF Shown, Runs
  <2>4. ConvergedIsDesired'
    BY <2>1 DEF ConvergedIsDesired, FileInv
  <2> QED BY <2>1, <2>2, <2>3, <2>4 DEF FileInv
<1> QED BY <1>1, <1>2, <1>3, <1>4 DEF Next

(* One request at a time that finds the Host up to date, can read the files *)
(* it preserves and writes mods.yaml whole or not at all: whatever other    *)
(* calls fail, and whichever files of the directory are written before one  *)
(* does, no rendering loses an edit or brings back what one removed         *)
(* (writeRendered, Preserve).  The scenarios EditDuringRender, LaggingList  *)
(* and UnreadFile show why the hypotheses are needed.                       *)
THEOREM EditsSurvive == OneOperator /\ HostIsCurrent /\ FilesAreWhole => (Spec => []EditsAreKept)
<1> SUFFICES ASSUME OneOperator, HostIsCurrent, FilesAreWhole PROVE Spec => []EditsAreKept
  OBVIOUS
<1>1. Init => TypeInv /\ FileInv
  BY TypesStart, FilesStart
<1>2. TypeInv /\ FileInv /\ [Next]_vars => TypeInv' /\ FileInv'
  BY TypesStep, FilesStep
<1>3. FileInv => EditsAreKept
  BY DEF FileInv, EditsAreKept
<1> QED BY <1>1, <1>2, <1>3, PTL DEF Spec

(* Under the same hypotheses a start, a resize, an update and an undo that  *)
(* are reported done on a Docker Host have brought the server that is up to *)
(* what the store declares (Converge, SaveRow).                             *)
THEOREM DoneIsRunning == OneOperator /\ HostIsCurrent /\ FilesAreWhole => (Spec => []ConvergedIsDesired)
<1> SUFFICES ASSUME OneOperator, HostIsCurrent, FilesAreWhole PROVE Spec => []ConvergedIsDesired
  OBVIOUS
<1>1. Init => TypeInv /\ FileInv
  BY TypesStart, FilesStart
<1>2. TypeInv /\ FileInv /\ [Next]_vars => TypeInv' /\ FileInv'
  BY TypesStep, FilesStep
<1>3. FileInv => ConvergedIsDesired
  BY DEF FileInv
<1> QED BY <1>1, <1>2, <1>3, PTL DEF Spec

-----------------------------------------------------------------------------
(* The way back from an update, and what an update may change *)

OnlyRaises(o) ==
  \A m \in Mods : /\ o.mods[m] >= desired.mods[m]
                  /\ desired.mods[m] = 0 /\ o.mods[m] # 0 => \E t \in o.targets : m \in Deps[t]

(* A replacement that is about to be patched is made of the list in force;  *)
(* one that changed the list has taken the way back of the change before.   *)
Way(o) ==
  /\ o.pc = "patch" /\ o.kind = "undo" => point # NoPoint /\ point.applied = desired.mods /\ o.mods = point.previous
  /\ o.pc = "patch" /\ o.kind = "apply" => o.previous = desired.mods
  /\ o.pc # "patch" /\ (o.kind = "undo" \/ o.changed) => ~undoable
  /\ o.pc # "patch" /\ o.kind = "apply" /\ o.changed => o.previous # o.mods
  /\ FreshReports /\ o.pc = "patch" /\ o.kind = "apply" => OnlyRaises(o)

WayInv ==
  /\ point # NoPoint => point.previous # point.applied
  /\ host = "docker" /\ undoable /\ ~refused => point # NoPoint /\ point.applied = desired.mods
  /\ \A c \in Operators : op[c] \in Replacements => Way(op[c])

LEMMA NotReplacing == Idle \notin Replacements /\ \A k \in Panels \cup Renderings : k \notin Replacements
  BY DEF Idle, Panels, Renderings, Replacements, Stages

(* A step of the only operator that leaves the points alone. *)
LEMMA WayKept ==
  ASSUME TypeInv, WayInv, OneOperator, NEW c \in Operators, NEW k, op' = [op EXCEPT ![c] = k],
         k \in Replacements => Way(k)', UNCHANGED <<host, point, refused>>,
         undoable' = (undoable /\ desired'.mods = desired.mods)
  PROVE  WayInv'
<1>1. \A d \in Operators : op'[d] = k
  BY DEF TypeInv, FilesInv, OneOperator
<1>2. host' = "docker" /\ undoable' /\ ~refused' => point' # NoPoint /\ point'.applied = desired'.mods
  BY DEF WayInv
<1>3. point' # NoPoint => point'.previous # point'.applied
  BY DEF WayInv
<1> QED BY <1>1, <1>2, <1>3 DEF WayInv

(* The same while nobody has a request. *)
LEMMA WayIdle ==
  ASSUME WayInv, \A d \in Operators : op[d] = Idle, UNCHANGED op, UNCHANGED <<host, point, refused>>,
         undoable' = (undoable /\ desired'.mods = desired.mods)
  PROVE  WayInv'
<1>1. \A d \in Operators : op'[d] \notin Replacements
  BY NotReplacing
<1>2. host' = "docker" /\ undoable' /\ ~refused' => point' # NoPoint /\ point'.applied = desired'.mods
  BY DEF WayInv
<1>3. point' # NoPoint => point'.previous # point'.applied
  BY DEF WayInv
<1> QED BY <1>1, <1>2, <1>3 DEF WayInv

LEMMA WayStages ==
  ASSUME TypeInv, FileInv, WayInv, OneOperator, NEW c \in Operators,
         Preserve(c) \/ PutTree(c) \/ Materialize(c) \/ Converge(c) \/ SaveRow(c) \/ ReplaceMods(c),
         UNCHANGED <<point, refused>>, undoable' = (undoable /\ desired'.mods = desired.mods)
  PROVE  WayInv'
<1> PICK o : o = op[c]
  OBVIOUS
<1>1. UNCHANGED host
  BY DEF Preserve, PutTree, Materialize, Converge, SaveRow, ReplaceMods
<1>2. ASSUME NEW k, op' = [op EXCEPT ![c] = k], k \in Replacements => Way(k)' PROVE WayInv'
  BY <1>1, <1>2, WayKept
<1>3. ASSUME NEW ok \in BOOLEAN, Finish(c, ok) PROVE WayInv'
  <2>1. op' = [op EXCEPT ![c] = Idle]
    BY <1>3, FinishMoves DEF TypeInv
  <2> QED BY <1>2, <2>1, NotReplacing
<1>4. ASSUME NEW k, k \in Replacements, o \in Replacements, o.pc # "patch", k.pc # "patch", k.kind = o.kind,
             k.changed = o.changed, k.previous = o.previous, k.mods = o.mods
      PROVE  Way(k)'
  <2>1. Way(o)
    BY <1>4 DEF WayInv
  <2> QED BY <1>4, <2>1 DEF Way
<1>5. CASE op' = After(c) /\ o.pc \in Stages
  <2> PICK k \in Ops : /\ op' = [op EXCEPT ![c] = k] /\ k.pc = NextStage(o) /\ k.kind = o.kind /\ k.mods = o.mods
                       /\ o \in Replacements <=> k \in Replacements
                       /\ o \in Replacements => k.changed = o.changed /\ k.previous = o.previous
    BY <1>5, Onward DEF TypeInv
  <2>1. o.pc # "patch" /\ k.pc # "patch"
    BY <1>5 DEF Stages, NextStage
  <2> QED BY <1>2, <1>4, <2>1
<1>6. CASE Preserve(c)
  <2>0. PICK unread : op' = [op EXCEPT ![c] = [o EXCEPT !.pc = "put", !.docs = Kept(o, unread)]]
    BY <1>6, PreserveMoves DEF TypeInv
  <2>1. o \in Renderings \cup Replacements /\ o.pc = "keep" /\ Kept(o, unread) \in Trees
    BY <1>6, PreserveMoves, KeptTyped DEF TypeInv
  <2> PICK t \in Trees : t = Kept(o, unread)
    BY <2>1
  <2> PICK k : k = [o EXCEPT !.pc = "put", !.docs = t]
    OBVIOUS
  <2>2. op' = [op EXCEPT ![c] = k]
    BY <2>0
  <2>3. CASE o \in Renderings
    <3>1. k \in Renderings
      BY <2>3 DEF Renderings, Stages
    <3> QED BY <1>2, <2>2, <3>1, NotReplacing
  <2>4. CASE o \in Replacements
    <3>1. /\ k \in Replacements /\ k.pc = "put" /\ k.kind = o.kind /\ k.changed = o.changed
          /\ k.previous = o.previous /\ k.mods = o.mods
      BY <2>4 DEF Replacements, Stages
    <3> QED BY <1>2, <1>4, <2>1, <2>2, <2>4, <3>1
  <2> QED BY <2>1, <2>3, <2>4
<1>7. CASE PutTree(c)
  BY <1>3, <1>5, <1>7 DEF PutTree, Stages
<1>8. CASE Materialize(c)
  BY <1>3, <1>5, <1>8 DEF Materialize, Stages
<1>9. CASE Converge(c)
  BY <1>3, <1>5, <1>9, ConvergeMoves DEF TypeInv, Stages
<1>10. CASE SaveRow(c)
  BY <1>3, <1>10 DEF SaveRow
<1>11. CASE ReplaceMods(c)
  <2>1. o \in Replacements /\ o.pc = "patch"
    BY <1>11, ReplaceModsMoves DEF TypeInv
  <2>2. CASE desired' = [desired EXCEPT !.mods = o.mods] /\ op' = [op EXCEPT ![c] = Patching(o)]
    <3> PICK k : k = Patching(o)
      OBVIOUS
    <3>1. /\ k \in Replacements /\ k.changed = (o.mods # desired.mods) /\ k.pc # "patch"
          /\ k.mods = o.mods /\ k.kind = o.kind /\ k.previous = o.previous
      BY <2>1, PatchingTyped DEF TypeInv
    <3>2. desired'.mods = o.mods
      BY <2>2 DEF TypeInv, FilesInv, Trees
    <3>3. Way(o)
      BY <2>1 DEF WayInv
    <3>4. k.kind = "undo" => o.mods # desired.mods
      BY <2>1, <3>1, <3>3 DEF Way, WayInv
    <3>5. k.kind = "apply" => o.previous = desired.mods
      BY <2>1, <3>1, <3>3 DEF Way
    <3>6. k.kind = "undo" \/ k.changed => ~undoable'
      BY <3>1, <3>2, <3>4
    <3>7. k.kind = "apply" /\ k.changed => k.previous # k.mods
      BY <3>1, <3>5
    <3>8. Way(k)'
      BY <3>1, <3>6, <3>7 DEF Way
    <3> QED BY <1>2, <2>2, <3>8
  <2> QED BY <1>3, <1>11, <2>2, ReplaceModsMoves DEF TypeInv
<1> QED BY <1>6, <1>7, <1>8, <1>9, <1>10, <1>11

(* What an update made from a current report writes.                        *)
LEMMA UpdateRaises ==
  ASSUME TypeInv, Current, Installed = desired.mods, NEW targets \in SUBSET {m \in Mods : report[m] # 0}, NEW m \in Mods
  PROVE  /\ Updated(Installed, targets)[m] >= desired.mods[m]
         /\ desired.mods[m] = 0 /\ Updated(Installed, targets)[m] # 0 => \E t \in targets : m \in Deps[t]
<1>1. /\ desired.mods[m] \in Nat /\ published[m] \in Nat /\ report[m] \in Nat
      /\ published[m] \in Int /\ desired.mods[m] \in Int
  <2>1. \A n \in 0 .. MaxVersion : n \in Nat /\ n \in Int
    BY WorldFilesAssumption DEF WorldFilesAssumption
  <2>2. desired.mods[m] \in 0 .. MaxVersion /\ published[m] \in 0 .. MaxVersion /\ report[m] \in 0 .. MaxVersion
    BY VersionsTyped DEF TypeInv, FilesInv, UpdateInv, Trees, Lists
  <2> QED BY <2>1, <2>2
<1>2. m \in targets => desired.mods[m] # 0 /\ report[m] = published[m] /\ published[m] > desired.mods[m]
  <2>1. report[m] = IF desired.mods[m] # 0 /\ published[m] > desired.mods[m] THEN published[m] ELSE 0
    BY DEF Current, Outdated
  <2> QED BY <2>1
<1> PICK q : q = Pinned(Installed, targets, m)
  OBVIOUS
<1>3. q = IF m \in targets THEN report[m] ELSE desired.mods[m]
  BY DEF Pinned
<1>4. Updated(Installed, targets)[m] = IF Raisers(targets, m) # {} /\ published[m] > q THEN published[m] ELSE q
  BY DEF Updated
<1>5. Raisers(targets, m) # {} => \E t \in targets : m \in Deps[t]
  BY DEF Raisers
<1>6. q \in Nat /\ q >= desired.mods[m]
  BY <1>1, <1>2, <1>3
<1>7. Updated(Installed, targets)[m] >= desired.mods[m]
  BY <1>1, <1>4, <1>6
<1>8. ASSUME desired.mods[m] = 0, Updated(Installed, targets)[m] # 0 PROVE \E t \in targets : m \in Deps[t]
  <2>1. q = 0
    BY <1>2, <1>3, <1>8
  <2>2. Raisers(targets, m) # {}
    BY <1>4, <1>8, <2>1
  <2> QED BY <1>5, <2>2
<1> QED BY <1>7, <1>8

LEMMA WayPages ==
  ASSUME TypeInv, FileInv, WayInv, OneOperator, HostIsCurrent, NEW c \in Operators,
         Apply(c) \/ Undo(c) \/ Record(c) \/ View(c) \/ Panel(c) \/ RefuseDelete(c)
  PROVE  WayInv'
<1>1. UNCHANGED <<host, desired>>
  BY DEF Apply, Undo, Record, View, Panel, RefuseDelete
<1>2. ASSUME Request(c) PROVE (\A d \in Operators : op[d] = Idle) /\ Installed = desired.mods
  BY <1>2, Alone, ReadsAreCurrent DEF Request
<1>3. ASSUME NEW k, op' = [op EXCEPT ![c] = k], UNCHANGED <<point, undoable, refused>>, k \in Replacements => Way(k)'
      PROVE  WayInv'
  <2>1. undoable' = (undoable /\ desired'.mods = desired.mods)
    BY <1>1, <1>3 DEF TypeInv, UpdateInv
  <2> QED BY <1>1, <1>3, <2>1, WayKept
<1>4. CASE Apply(c)
  <2>1. PICK targets \in SUBSET {m \in Mods : report[m] # 0} :
          /\ Applying(targets) \in Replacements /\ op' = [op EXCEPT ![c] = Applying(targets)]
          /\ FreshReports => Current
    BY <1>4, ApplyMoves DEF TypeInv
  <2> PICK k : k = Applying(targets)
    OBVIOUS
  <2>2. /\ k.pc = "patch" /\ k.kind = "apply" /\ k.mods = Updated(Installed, targets) /\ k.previous = Installed
        /\ k.targets = targets
    BY DEF Applying
  <2>3. Request(c) /\ UNCHANGED <<point, undoable, refused>>
    BY <1>4 DEF Apply
  <2>4. Installed = desired.mods
    BY <1>2, <2>3
  <2>5. ASSUME FreshReports PROVE OnlyRaises(k)
    BY <2>1, <2>2, <2>4, <2>5, UpdateRaises DEF OnlyRaises
  <2>6. FreshReports => OnlyRaises(k)'
    BY <1>1, <2>5 DEF OnlyRaises
  <2>7. Way(k)'
    BY <1>1, <2>2, <2>4, <2>6 DEF Way
  <2> QED BY <1>3, <2>1, <2>3, <2>7
<1>5. CASE Undo(c)
  <2>1. Request(c) /\ UNCHANGED <<undoable, refused>> /\ point # NoPoint
    BY <1>5 DEF Undo
  <2>2. Installed = desired.mods /\ \A d \in Operators : op[d] = Idle
    BY <1>2, <2>1
  <2>3. CASE Installed = point.applied /\ op' = [op EXCEPT ![c] = Undoing] /\ UNCHANGED point
    <3> PICK k : k = Undoing
      OBVIOUS
    <3>1. k.pc = "patch" /\ k.kind = "undo" /\ k.mods = point.previous
      BY DEF Undoing
    <3>2. Way(k)'
      BY <1>1, <2>1, <2>2, <2>3, <3>1 DEF Way
    <3> QED BY <1>3, <2>1, <2>3, <3>2
  <2>4. CASE Installed # point.applied /\ point' = NoPoint /\ UNCHANGED op
    <3>1. ~(host = "docker" /\ undoable /\ ~refused)
      BY <2>2, <2>4 DEF WayInv
    <3>2. \A d \in Operators : op'[d] \notin Replacements
      BY <2>2, <2>4, NotReplacing
    <3>3. host' = host /\ undoable' = undoable /\ refused' = refused /\ point' = NoPoint
      BY <1>1, <2>1, <2>4
    <3> QED BY <3>1, <3>2, <3>3 DEF WayInv
  <2> QED BY <1>5, <2>3, <2>4, UndoMoves DEF TypeInv
<1>6. CASE Record(c)
  <2> PICK o : o = op[c]
    OBVIOUS
  <2> PICK k : k = [pc |-> "panel", kind |-> o.kind]
    OBVIOUS
  <2>1. o \in Replacements /\ o.pc = "save" /\ op' = [op EXCEPT ![c] = k] /\ k \in Panels
    BY <1>6, RecordMoves DEF TypeInv
  <2>2. Way(o) /\ Agrees(o) /\ o.kind \in {"apply", "undo"} /\ o.changed \in BOOLEAN
    BY <2>1 DEF WayInv, FileInv, Working, Replacements
  <2>3. o.mods = desired.mods
    BY <2>1, <2>2 DEF Agrees
  <2>4. \A d \in Operators : op'[d] \notin Replacements
    BY <2>1, NotReplacing DEF TypeInv, FilesInv, OneOperator
  <2>5. CASE UNCHANGED <<undoable, refused>> /\ o.kind = "undo" /\ point' \in {point, NoPoint}
    <3>1. ~undoable
      BY <2>1, <2>2, <2>5 DEF Way
    <3>2. point' # NoPoint => point'.previous # point'.applied
      BY <2>5 DEF WayInv
    <3> QED BY <1>1, <2>4, <2>5, <3>1, <3>2 DEF WayInv
  <2>6. CASE UNCHANGED <<point, undoable, refused>>
    <3>1. WayInv => (point' # NoPoint => point'.previous # point'.applied)
      BY <2>6 DEF WayInv
    <3>2. host' = "docker" /\ undoable' /\ ~refused' => point' # NoPoint /\ point'.applied = desired'.mods
      BY <1>1, <2>6 DEF WayInv
    <3> QED BY <2>4, <3>1, <3>2 DEF WayInv
  <2>7. CASE /\ o.kind = "apply" /\ undoable' = (undoable \/ o.changed) /\ refused' = (refused /\ ~o.changed)
             /\ point' = IF o.changed THEN [previous |-> o.previous, applied |-> o.mods] ELSE point
    <3>1. CASE o.changed
      <4>1. o.previous # o.mods
        BY <2>1, <2>2, <2>7, <3>1 DEF Way
      <4>2. point' = [previous |-> o.previous, applied |-> o.mods]
        BY <2>7, <3>1
      <4>3. point' # NoPoint
        <5>1. o.previous \in Lists /\ o.mods \in Lists
          BY <2>1 DEF Replacements
        <5>2. point' \in Points
          BY <4>2, <5>1 DEF Points
        <5> QED BY <5>2, ModUpdatesAssumption DEF ModUpdatesAssumption
      <4>4. point'.previous = o.previous /\ point'.applied = o.mods
        BY <4>2
      <4> QED BY <1>1, <2>3, <2>4, <4>1, <4>3, <4>4 DEF WayInv
    <3>2. CASE ~o.changed
      <4>1. undoable' = undoable /\ refused' = refused /\ point' = point
        BY <2>7, <3>2 DEF TypeInv, UpdateInv
      <4> QED BY <2>6, <4>1
    <3> QED BY <3>1, <3>2
  <2> QED BY <1>6, <2>5, <2>6, <2>7 DEF Record
<1>7. CASE View(c)
  <2> PICK k : k = [pc |-> "panel", kind |-> "view"]
    OBVIOUS
  <2>1. k \in Panels /\ op' = [op EXCEPT ![c] = k] /\ UNCHANGED <<point, undoable, refused>>
    BY <1>7 DEF View, ShowPanel, Panels, updateVars
  <2> QED BY <1>3, <2>1, NotReplacing
<1>8. CASE Panel(c)
  <2>1. op' = [op EXCEPT ![c] = Idle] /\ UNCHANGED <<undoable, refused>>
    BY <1>8, FinishMoves DEF Panel, TypeInv
  <2>2. CASE UNCHANGED point
    BY <1>3, <2>1, <2>2, NotReplacing
  <2>3. CASE point' = NoPoint /\ point # NoPoint /\ Installed # point.applied
    <3>1. ~(host = "docker" /\ undoable /\ ~refused)
      BY <2>3 DEF WayInv, Installed
    <3>2. \A d \in Operators : op'[d] \notin Replacements
      BY <2>1, NotReplacing DEF TypeInv, FilesInv, OneOperator
    <3> QED BY <1>1, <2>1, <2>3, <3>1, <3>2 DEF WayInv
  <2> QED BY <1>8, <2>2, <2>3 DEF Panel, Matches
<1>9. CASE RefuseDelete(c)
  <2>1. UNCHANGED op /\ point' = NoPoint /\ refused' = TRUE /\ Request(c)
    BY <1>9 DEF RefuseDelete
  <2>2. \A d \in Operators : op'[d] \notin Replacements
    BY <1>2, <2>1, NotReplacing
  <2> QED BY <2>1, <2>2 DEF WayInv
<1> QED BY <1>4, <1>5, <1>6, <1>7, <1>8, <1>9

LEMMA WayStart == Init => WayInv
<1> SUFFICES ASSUME Init PROVE WayInv
  OBVIOUS
<1>1. \A d \in Operators : op[d] \notin Replacements
  BY NotReplacing DEF Init, WorldInit
<1> QED BY <1>1 DEF Init, WayInv

LEMMA WayStep ==
  ASSUME TypeInv, FileInv, WayInv, OneOperator, HostIsCurrent, [Next]_vars
  PROVE  WayInv'
<1>1. CASE WorldStep
  <2>1. /\ WorldNext /\ FilesInv /\ UNCHANGED <<point, refused>>
        /\ undoable' = (undoable /\ desired'.mods = desired.mods)
    BY <1>1 DEF WorldStep, TypeInv
  <2>2. ASSUME NEW c \in Operators, Edit(c) PROVE WayInv'
    <3>1. Request(c) /\ UNCHANGED <<host, op>>
      BY <2>2, EditIsPatch DEF Patched, TypeInv
    <3>2. \A d \in Operators : op[d] = Idle
      BY <3>1, Alone DEF Request
    <3> QED BY <2>1, <3>1, <3>2, WayIdle
  <2>3. ASSUME NEW c \in Operators, NEW k, Begun(k), Begins(c, k) PROVE WayInv'
    <3>1. k \in Renderings /\ op' = [op EXCEPT ![c] = k] /\ UNCHANGED host
      BY <2>3, BegunTyped DEF Begins, TypeInv
    <3> QED BY <2>1, <3>1, NotReplacing, WayKept
  <2>4. ASSUME NEW c \in Operators, Turns(c) PROVE WayInv'
    <3>1. Request(c) /\ UNCHANGED <<host, op>>
      BY <2>4 DEF Turns
    <3>2. \A d \in Operators : op[d] = Idle
      BY <3>1, Alone DEF Request
    <3> QED BY <2>1, <3>1, <3>2, WayIdle
  <2>5. ASSUME NEW c \in Operators,
               Preserve(c) \/ PutTree(c) \/ Materialize(c) \/ Converge(c) \/ SaveRow(c) \/ ReplaceMods(c)
        PROVE  WayInv'
    BY <2>1, <2>5, WayStages
  <2>6. CASE (\E w \in hooks : AfterSync(w)) \/ Sync \/ Publish
    <3>1. UNCHANGED <<host, desired, op, point, refused, undoable>>
      BY <2>1, <2>6 DEF AfterSync, Sync, Publish, TypeInv, UpdateInv
    <3> QED BY <3>1 DEF WayInv, Way, OnlyRaises
  <2> QED BY <2>1, <2>2, <2>3, <2>4, <2>5, <2>6, WorldNextCases
<1>2. CASE RefreshOne \/ PendingExpires \/ UNCHANGED vars
  <2>1. UNCHANGED <<host, desired, op, point, refused, undoable>>
    BY <1>2 DEF RefreshOne, PendingExpires, vars, worldVars, updateVars
  <2> QED BY <2>1 DEF WayInv, Way, OnlyRaises
<1>3. ASSUME NEW c \in Operators, Apply(c) \/ Undo(c) \/ Record(c) \/ View(c) \/ Panel(c) \/ RefuseDelete(c) PROVE WayInv'
  BY <1>3, WayPages
<1> QED BY <1>1, <1>2, <1>3 DEF Next

WorldsInv == TypeInv /\ FileInv /\ WayInv

LEMMA WorldsStart == Init => WorldsInv
  BY TypesStart, FilesStart, WayStart DEF WorldsInv

LEMMA WorldsStep ==
  ASSUME OneOperator, HostIsCurrent, FilesAreWhole, WorldsInv, [Next]_vars
  PROVE  WorldsInv'
  BY TypesStep, FilesStep, WayStep DEF WorldsInv

(* While a replacement waits for its Patch, nothing else changes the list.  *)
LEMMA OnlyThePatch ==
  ASSUME OneOperator, WorldsInv, [Next]_vars, NEW c \in Operators, op[c].pc = "patch", desired'.mods # desired.mods
  PROVE  op[c] \in Replacements /\ Way(op[c]) /\ desired'.mods = op[c].mods
<1>1. FilesInv /\ op[c] # Idle
  BY DEF WorldsInv, TypeInv, Idle
<1>2. \A d \in Operators : ~Request(d)
  BY <1>1 DEF OneOperator, Request
<1>3. WorldStep
  <2>1. CASE RefreshOne \/ PendingExpires \/ UNCHANGED vars
    BY <2>1 DEF RefreshOne, PendingExpires, vars, worldVars
  <2>2. ASSUME NEW d \in Operators, Apply(d) \/ Undo(d) \/ Record(d) \/ View(d) \/ Panel(d) \/ RefuseDelete(d)
        PROVE  UNCHANGED desired
    BY <2>2 DEF Apply, Undo, Record, View, Panel, RefuseDelete
  <2> QED BY <2>1, <2>2 DEF Next
<1>4. WorldNext
  BY <1>3 DEF WorldStep
<1>5. PICK d \in Operators : PutTree(d) \/ ReplaceMods(d)
  <2>1. ASSUME NEW d \in Operators, Edit(d) PROVE FALSE
    BY <1>1, <1>2, <2>1, EditIsPatch
  <2>2. ASSUME NEW d \in Operators, NEW k, Begins(d, k) PROVE FALSE
    BY <1>2, <2>2 DEF Begins
  <2>3. ASSUME NEW d \in Operators, Turns(d) PROVE FALSE
    BY <1>2, <2>3 DEF Turns
  <2>4. ASSUME NEW d \in Operators, Preserve(d) \/ Materialize(d) \/ Converge(d) \/ SaveRow(d) PROVE FALSE
    BY <2>4 DEF Preserve, Materialize, Converge, SaveRow
  <2>5. CASE (\E w \in hooks : AfterSync(w)) \/ Sync \/ Publish
    BY <2>5 DEF AfterSync, Sync, Publish
  <2> QED BY <1>1, <1>4, <2>1, <2>2, <2>3, <2>4, <2>5, WorldNextCases
<1>6. d = c
  BY DEF OneOperator
<1>7. ReplaceMods(c)
  BY <1>5, <1>6 DEF PutTree
<1>8. op[c] \in Replacements /\ desired' = [desired EXCEPT !.mods = op[c].mods]
  BY <1>1, <1>7, ReplaceModsMoves
<1>9. desired'.mods = op[c].mods
  BY <1>1, <1>8 DEF FilesInv, Trees
<1> QED BY <1>8, <1>9 DEF WorldsInv, WayInv

(* One request at a time that finds the Host up to date: on a Docker Host   *)
(* the way back from the last update stays there while the list is what the *)
(* update wrote (Panel, RestoreAvailable), and an undo rewrites exactly     *)
(* that list (Undo, Matches).  The scenario LaggingUndo is a cluster that   *)
(* lags behind.                                                             *)
THEOREM UndoLosesNothing == OneOperator /\ HostIsCurrent /\ FilesAreWhole => (Spec => UndoIsSafe)
<1> SUFFICES ASSUME OneOperator, HostIsCurrent, FilesAreWhole PROVE Spec => UndoIsSafe
  OBVIOUS
<1> DEFINE Allowed == \A c \in Operators :
      op[c].pc = "patch" /\ op[c].kind = "undo" /\ desired'.mods # desired.mods
        => point # NoPoint /\ desired.mods = point.applied
<1>1. Init => WorldsInv
  BY WorldsStart
<1>2. WorldsInv /\ [Next]_vars => WorldsInv'
  BY WorldsStep
<1>3. WorldsInv => UndoStaysAvailable
  BY DEF WorldsInv, WayInv, UndoStaysAvailable, Matches
<1>4. WorldsInv /\ [Next]_vars => Allowed
  BY OnlyThePatch DEF Way
<1>5. [][Allowed]_vars <=> UndoDiscardsNothing
  BY DEF UndoDiscardsNothing
<1> HIDE DEF Allowed
<1> QED BY <1>1, <1>2, <1>3, <1>4, <1>5, PTL DEF Spec, UndoIsSafe

(* An update from a report that is current, one request at a time on a Host *)
(* that is up to date, raises versions and adds what its targets need, and  *)
(* drops or lowers nothing (Apply).  The scenario StaleReport updates from  *)
(* a report that is not.                                                    *)
THEOREM UpdatesNeverLower == OneOperator /\ HostIsCurrent /\ FilesAreWhole /\ FreshReports => (Spec => UpdatesOnlyRaise)
<1> SUFFICES ASSUME OneOperator, HostIsCurrent, FilesAreWhole, FreshReports PROVE Spec => UpdatesOnlyRaise
  OBVIOUS
<1> DEFINE Allowed == \A c \in Operators, m \in Mods :
      op[c].pc = "patch" /\ op[c].kind = "apply" /\ desired'.mods # desired.mods
        => /\ desired'.mods[m] >= desired.mods[m]
           /\ desired.mods[m] = 0 /\ desired'.mods[m] # 0 => \E t \in op[c].targets : m \in Deps[t]
<1>1. Init => WorldsInv
  BY WorldsStart
<1>2. WorldsInv /\ [Next]_vars => WorldsInv'
  BY WorldsStep
<1>3. WorldsInv /\ [Next]_vars => Allowed
  <2> SUFFICES ASSUME WorldsInv, [Next]_vars, NEW c \in Operators, op[c].pc = "patch", op[c].kind = "apply",
                      desired'.mods # desired.mods
               PROVE  \A m \in Mods : /\ desired'.mods[m] >= desired.mods[m]
                                      /\ desired.mods[m] = 0 /\ desired'.mods[m] # 0
                                           => \E t \in op[c].targets : m \in Deps[t]
    OBVIOUS
  <2>1. OnlyRaises(op[c]) /\ desired'.mods = op[c].mods
    BY OnlyThePatch DEF Way
  <2> QED BY <2>1 DEF OnlyRaises
<1>4. [][Allowed]_vars <=> UpdatesOnlyRaise
  BY DEF UpdatesOnlyRaise
<1> HIDE DEF Allowed
<1> QED BY <1>1, <1>2, <1>3, <1>4, PTL DEF Spec

=============================================================================
