----------------------------- MODULE ModUpdates -----------------------------
(***************************************************************************)
(* The mod update checker (internal/app/modupdates) over the files of one  *)
(* world: the report of what is out of date, the update that repins mods,  *)
(* the update that is still landing, and the one step back.                *)
(***************************************************************************)
EXTENDS WorldFiles

CONSTANTS FreshReports,    \* TRUE: operators update only from a report that is current
          NoPoint, NotPending

\* A restore point: the list before an update and the one it wrote.
Points == [previous : Lists, applied : Lists]

ASSUME ModUpdatesAssumption ==
  FreshReports \in BOOLEAN /\ NoPoint \notin Points /\ NotPending \notin Lists

VARIABLES
  report,     \* report[m], the version the last check offers for m, or 0
  pend,       \* the list that an update wrote and the Host does not report yet
  point,      \* the restore point in SQLite
  undoable,   \* history: the last change of the list is an update with a restore point
  refused     \* history: a delete of the running world was refused since

updateVars == <<report, pend, point, undoable, refused>>
vars == <<worldVars, updateVars>>

\* What a check answers: the listed mods that the catalogue has in a newer
\* version.  A lookup that fails twice leaves its mod out.
Outdated(list, unreachable) ==
  [m \in Mods |-> IF list[m] # 0 /\ m \notin unreachable /\ published[m] > list[m] THEN published[m] ELSE 0]

Current == report = Outdated(Installed, {})

\* Pending: an update is landing until the Host reports its entries.
Landing == pend # NotPending /\ \E m \in Mods : pend[m] # 0 /\ Installed[m] # pend[m]

(* Mutant: the restore point is used without a look at the list. *)
AlwaysMatches(list) == TRUE

\* ModRestorePoint.Matches.
Matches(list) == list = point.applied

\* RefreshOne, by the ticker or the Check button.  The button shows the panel.
RefreshOne == \E unreachable \in SUBSET Mods :
  /\ report' = Outdated(Installed, unreachable)
  /\ result' = NoResult
  /\ UNCHANGED <<host, desired, live, overlay, server, row, published, op, hooks, requests, authored>>
  /\ UNCHANGED <<pend, point, undoable, refused>>

\* pendingTTL has passed.
PendingExpires ==
  /\ pend # NotPending /\ pend' = NotPending
  /\ result' = NoResult
  /\ UNCHANGED <<host, desired, live, overlay, server, row, published, op, hooks, requests, authored>>
  /\ UNCHANGED <<report, point, undoable, refused>>

(* Mutant: a target is pinned to the version after the newest. *)
PinnedPast(list, targets, m) == IF m \in targets THEN report[m] + 1 ELSE list[m]

\* The version of m before anything raises it: a target gets the one that the
\* report offers, whatever a target before it made of it.
Pinned(list, targets, m) == IF m \in targets THEN report[m] ELSE list[m]

\* The targets that need m and are taken after m itself: they go in the order
\* of their Keys.
Raisers(targets, m) == {t \in targets : m \in Deps[t] /\ (m \in targets => m < t)}

(* Mutant: the new list is made of the resolved trees alone. *)
OnlyTheTrees(list, targets) ==
  [m \in Mods |-> IF m \in targets THEN report[m] ELSE IF Raisers(targets, m) # {} THEN published[m] ELSE 0]

\* The list that an update makes: what a target needs is added, or raised to
\* what the catalogue has now, and the rest stays.
Updated(list, targets) ==
  [m \in Mods |-> IF Raisers(targets, m) # {} /\ published[m] > Pinned(list, targets, m)
                  THEN published[m] ELSE Pinned(list, targets, m)]

\* Apply, after the handler has seen that no update is landing: the targets are
\* picked from the last report, the list is read, and ReplaceMods is called.
\* With an empty report the request first checks, as RefreshOne does.
Apply(c) == \E targets \in (SUBSET {m \in Mods : report[m] # 0}) \ {{}} :
  /\ Request(c)
  /\ ~Landing
  /\ FreshReports => Current
  /\ op' = [op EXCEPT ![c] = [pc |-> "patch", kind |-> "apply", mods |-> Updated(Installed, targets),
                              cf |-> NoCF, settings |-> row, keepMods |-> FALSE, converge |-> FALSE, docs |-> desired,
                              changed |-> FALSE, previous |-> Installed, targets |-> targets]]
  /\ pend' = NotPending
  /\ result' = NoResult
  /\ UNCHANGED <<host, desired, live, overlay, server, row, published, hooks, authored>>
  /\ UNCHANGED <<report, point, undoable, refused>>

\* Undo: the restore point is used while the list is what the update wrote, and
\* cleared otherwise.
Undo(c) ==
  /\ Request(c)
  /\ point # NoPoint
  /\ IF Matches(Installed)
     THEN /\ op' = [op EXCEPT ![c] = [pc |-> "patch", kind |-> "undo", mods |-> point.previous,
                                      cf |-> NoCF, settings |-> row, keepMods |-> FALSE, converge |-> FALSE, docs |-> desired,
                                      changed |-> FALSE, previous |-> NoMods, targets |-> {}]]
          /\ UNCHANGED point
     ELSE point' = NoPoint /\ UNCHANGED op
  /\ result' = NoResult
  /\ UNCHANGED <<host, desired, live, overlay, server, row, published, hooks, authored>>
  /\ UNCHANGED <<report, pend, undoable, refused>>

\* pushUpdatePanel: the request ends with the update panel.
ShowPanel(c, kind) == op' = [op EXCEPT ![c] = [pc |-> "panel", kind |-> kind]]

\* ReplaceMods has returned.  An update that changed nothing leaves the way
\* back alone; a SQLite write that fails is only logged.
Record(c) ==
  LET o == op[c]
  IN /\ o.pc = "save"
     /\ \/ /\ o.kind = "apply"
           /\ report' = [m \in Mods |-> IF m \in o.targets THEN 0 ELSE report[m]]
           /\ \/ /\ point' = IF o.changed THEN [previous |-> o.previous, applied |-> o.mods] ELSE point
                 /\ undoable' = (undoable \/ o.changed)
                 /\ refused' = (refused /\ ~o.changed)
              \/ "db" \in Faults /\ UNCHANGED <<point, undoable, refused>>
        \/ /\ o.kind = "undo"
           /\ report' = Outdated(Installed, {})
           /\ point' = NoPoint \/ ("db" \in Faults /\ UNCHANGED point)
           /\ UNCHANGED <<undoable, refused>>
     /\ pend' = IF o.changed THEN o.mods ELSE pend
     /\ ShowPanel(c, o.kind)
     /\ UNCHANGED <<host, desired, live, overlay, server, row, published, hooks, result, requests, authored>>

\* A page of the world is opened.
View(c) ==
  /\ Request(c)
  /\ ShowPanel(c, "view")
  /\ result' = NoResult
  /\ UNCHANGED <<host, desired, live, overlay, server, row, published, hooks, authored, updateVars>>

(* Mutant: the panel drops the way back as soon as it has shown it. *)
ForgetfulPanel(c) ==
  /\ op[c].pc = "panel"
  /\ point' = NoPoint
  /\ Finish(c, TRUE)
  /\ UNCHANGED <<host, desired, live, overlay, server, row, published, hooks, requests, authored>>
  /\ UNCHANGED <<report, pend, undoable, refused>>

\* The update panel, also the answer to Apply and Undo: Pending forgets an
\* update that has landed, and RestoreAvailable clears a restore point that
\* is not what the Host reports.
Panel(c) ==
  /\ op[c].pc = "panel"
  /\ pend' = IF Landing THEN pend ELSE NotPending
  /\ point' = IF point # NoPoint /\ ~Matches(Installed) THEN NoPoint ELSE point
  /\ Finish(c, TRUE)
  /\ UNCHANGED <<host, desired, live, overlay, server, row, published, hooks, requests, authored>>
  /\ UNCHANGED <<report, undoable, refused>>

\* DeleteInstance of a running world: the preDelete hook clears the restore
\* point, and then the delete is refused.
RefuseDelete(c) ==
  /\ Request(c)
  /\ server.up
  /\ point' = NoPoint
  /\ refused' = TRUE
  /\ result' = NoResult
  /\ UNCHANGED <<host, desired, live, overlay, server, row, published, op, hooks, authored>>
  /\ UNCHANGED <<report, pend, undoable>>

Init ==
  /\ WorldInit
  /\ report = [m \in Mods |-> 0]
  /\ pend = NotPending /\ point = NoPoint
  /\ undoable = FALSE /\ refused = FALSE

WorldStep ==
  /\ WorldNext
  /\ undoable' = (undoable /\ desired'.mods = desired.mods)
  /\ UNCHANGED <<report, pend, point, refused>>

Next ==
  \/ WorldStep
  \/ RefreshOne \/ PendingExpires
  \/ \E c \in Operators : Apply(c) \/ Undo(c) \/ Record(c) \/ View(c) \/ Panel(c) \/ RefuseDelete(c)

Spec == Init /\ [][Next]_vars

-----------------------------------------------------------------------------
(* Properties *)

\* On a Docker Host the way back from an update is there for as long as the
\* list is what the update wrote, whatever pages are opened and whatever else
\* fails; only the refused delete of a running world takes it away.
UndoStaysAvailable ==
  host = "docker" /\ AllIdle /\ undoable /\ ~refused => point # NoPoint /\ Matches(desired.mods)

\* The same on every Host ("the single step back from the last apply").
UndoIsOffered == AllIdle /\ undoable /\ ~refused => point # NoPoint

\* The same of a world that somebody tried to delete while it ran.
UndoSurvivesRefusal == host = "docker" /\ AllIdle /\ undoable => point # NoPoint

\* Undo rewrites the list only when it is exactly what the update wrote: it
\* never discards what was installed, repinned or removed since.
UndoDiscardsNothing ==
  [][\A c \in Operators :
       op[c].pc = "patch" /\ op[c].kind = "undo" /\ desired'.mods # desired.mods
         => point # NoPoint /\ desired.mods = point.applied]_vars

\* The way back from an update stays there and loses nothing, whatever pages
\* are opened, edits made and calls failed in between (Panel, Undo).
UndoIsSafe == []UndoStaysAvailable /\ UndoDiscardsNothing

\* An update only raises pins and adds what its targets need: it never pins a
\* mod to an older version, drops one, or brings back one that was removed.
UpdatesOnlyRaise ==
  [][\A c \in Operators, m \in Mods :
       op[c].pc = "patch" /\ op[c].kind = "apply" /\ desired'.mods # desired.mods
         => /\ desired'.mods[m] >= desired.mods[m]
            /\ desired.mods[m] = 0 /\ desired'.mods[m] # 0 => \E t \in op[c].targets : m \in Deps[t]]_vars
=============================================================================
