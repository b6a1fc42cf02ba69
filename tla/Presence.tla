------------------------------ MODULE Presence ------------------------------
(***************************************************************************)
(* app/ingest: who is online on a Valheim world.  A supervisor keeps one   *)
(* goroutine per running world that follows the server's log and writes    *)
(* what it reads into two tables, one statement at a time (store/          *)
(* presence.go): who is on which world, and the roster, which is shared by *)
(* the worlds.  A log stream that breaks is opened again and repeats the   *)
(* last lines.  Deleting a world, of any game and refused or not, clears   *)
(* its number too, and every failed statement is ignored.  A player whom   *)
(* activePlayers does not hold has the same two rows written by UpsertSeen  *)
(* first: the model has the last pair only.                                *)
(***************************************************************************)
EXTENDS Naturals, Sequences, FiniteSets

CONSTANTS
  Numbers,      \* the slots of the worlds
  Players,
  TailLines,         \* lines a stream repeats when it is opened (200 in the code)
  Overlap,      \* the next worker may start before the one that was told to stop ends
  MaxLines, MaxBreaks, MaxStops     \* bounds: lines; broken streams and statements; stops and deletes

ASSUME PresenceAssumption == TailLines \in Nat /\ MaxLines \in Nat

VARIABLES
  up,        \* the worlds whose State is running
  lines,     \* lines[n]: the log of the server that n has now
  follower,  \* follower[n]: the worker the supervisor knows, or NoWorker
  work,      \* work[n]: the goroutines of n, the told one included
  onWorld,   \* instance_presence
  roster,    \* players.online
  deleting,  \* the numbers that a delete's hook clears, between its statements
  astray,    \* (history) astray[n]: whose row went with a server, a delete or a failed
             \* statement, and has not been written since
  unsure,    \* (history) whose place in the roster did
  budget     \* lines, breaks and stops so far

presenceVars == <<up, lines, follower, work, onWorld, roster, deleting, astray, unsure, budget>>

NoWorker == 0
Reader(id) == [id |-> id, pc |-> "enter", at |-> 0, old |-> <<>>, told |-> FALSE, owe |-> {}]
Busy(g) == g.pc \in {"entered", "row", "left"}

\* Who the log says is connected.
Last(n, a) == LET mine == {i \in DOMAIN lines[n] : lines[n][i].who = a}
              IN IF mine = {} THEN "none" ELSE lines[n][CHOOSE i \in mine : \A j \in mine : j <= i].kind
Connected(n) == {a \in Players : Last(n, a) = "connection"}

PresenceTypeOK ==
  /\ up \subseteq Numbers /\ roster \subseteq Players /\ deleting \subseteq Numbers /\ unsure \subseteq Players
  /\ \A n \in Numbers :
       /\ onWorld[n] \subseteq Players /\ astray[n] \subseteq Players
       /\ \A g \in work[n] : g.pc \in {"enter", "entered", "open", "read", "row", "drain", "left"} /\ g.at <= MaxLines
       /\ follower[n] # NoWorker => \E g \in work[n] : g.id = follower[n] /\ ~g.told

InitPresence ==
  /\ up = {} /\ lines = [n \in Numbers |-> <<>>] /\ follower = [n \in Numbers |-> NoWorker]
  /\ work = [n \in Numbers |-> {}]
  /\ onWorld = [n \in Numbers |-> {}] /\ roster = {}
  /\ deleting = {} /\ astray = [n \in Numbers |-> {}] /\ unsure = {}
  /\ budget = [lines |-> 0, breaks |-> 0, stops |-> 0]

-----------------------------------------------------------------------------
(* Operators, servers and players.                                         *)

\* Sooner than the supervisor's next look, it is a restart to the worker.
WorldStarts(n) == /\ n \notin up /\ up' = up \cup {n} /\ lines' = [lines EXCEPT ![n] = <<>>]
                  /\ UNCHANGED <<follower, work, onWorld, roster, deleting, astray, unsure, budget>>

\* The worker may read what the stream still holds, then opens the next.
Abandoned(n, g) ==
  IF g.pc = "read" \/ (g.pc = "row" /\ g.at > 0)
  THEN [g EXCEPT !.pc = IF @ = "read" THEN "drain" ELSE @, !.at = 0, !.old = SubSeq(lines[n], g.at + 1, Len(lines[n]))]
  ELSE g

\* The server of n goes, with whoever is on it, and its log.
ServerGoes(n) == /\ lines' = [lines EXCEPT ![n] = <<>>] /\ astray' = [astray EXCEPT ![n] = @ \cup onWorld[n]]
                 /\ work' = [work EXCEPT ![n] = {Abandoned(n, g) : g \in @}]

WorldStops(n) == /\ n \in up /\ budget.stops < MaxStops /\ up' = up \ {n} /\ ServerGoes(n)
                 /\ budget' = [budget EXCEPT !.stops = @ + 1]
                 /\ UNCHANGED <<follower, onWorld, roster, deleting, unsure>>

\* A crash or RestartInstance: the log begins again, the State does not change.
ServerRestarts(n) == /\ n \in up /\ lines[n] # <<>> /\ ServerGoes(n)
                     /\ UNCHANGED <<up, follower, onWorld, roster, deleting, unsure, budget>>

PlayerLine(n, a) ==
  /\ n \in up /\ budget.lines < MaxLines
  /\ lines' = [lines EXCEPT ![n] = Append(@, [who |-> a, kind |-> IF a \in Connected(n) THEN "closing" ELSE "connection"])]
  /\ budget' = [budget EXCEPT !.lines = @ + 1]
  /\ UNCHANGED <<up, follower, work, onWorld, roster, deleting, astray, unsure>>

-----------------------------------------------------------------------------
(* The supervisor.                                                         *)

Free(n) == IF Overlap THEN TRUE ELSE work[n] = {}

\* Reconcile, once the worlds have been listed; a failed listing does nothing.
StartWorker(n) ==
  /\ n \in up /\ follower[n] = NoWorker /\ Free(n) /\ Cardinality(work[n]) < 2
  /\ LET id == IF \E g \in work[n] : g.id = 1 THEN 2 ELSE 1 IN
     /\ follower' = [follower EXCEPT ![n] = id]
     /\ work' = [work EXCEPT ![n] = @ \cup {Reader(id)}]
  /\ UNCHANGED <<up, lines, onWorld, roster, deleting, astray, unsure, budget>>

(* Mutant: a worker that was told to stop stays in the map. *)
StopKept(n) ==
  /\ n \notin up /\ follower[n] # NoWorker
  /\ work' = [work EXCEPT ![n] = {IF g.id = follower[n] THEN [g EXCEPT !.told = TRUE] ELSE g : g \in @}]
  /\ UNCHANGED <<up, lines, follower, onWorld, roster, deleting, astray, unsure, budget>>

StopWorker(n) ==
  /\ n \notin up /\ follower[n] # NoWorker
  /\ follower' = [follower EXCEPT ![n] = NoWorker]
  /\ work' = [work EXCEPT ![n] = {IF g.id = follower[n] THEN [g EXCEPT !.told = TRUE] ELSE g : g \in @}]
  /\ UNCHANGED <<up, lines, onWorld, roster, deleting, astray, unsure, budget>>

-----------------------------------------------------------------------------
(* A worker: clear, follow the log until told to stop, clear.              *)

Becomes(n, g, h) == work' = [work EXCEPT ![n] = (@ \ {g}) \cup h]

\* A statement fails, and nobody asks.
Fails == budget.breaks < MaxBreaks /\ budget' = [budget EXCEPT !.breaks = @ + 1]

\* The roster says online when some world does: the UPDATEs of SetOnline and
\* of ClearPresence, over the players in who.
Recount(who) == (roster \ who) \cup {a \in who : \E m \in Numbers : a \in onWorld[m]}

(* Mutant: what the last run left behind is kept. *)
KeepPresence(n) == UNCHANGED onWorld

\* ClearPresence's DELETE.
ClearRows(n) == onWorld' = [onWorld EXCEPT ![n] = {}]

\* ClearPresence, whose UPDATE follows its DELETE only.
Clear(n, g, cleared, failed) ==
  /\ \/ /\ ClearRows(n) /\ astray' = [astray EXCEPT ![n] = {}] /\ Becomes(n, g, {[g EXCEPT !.pc = cleared, !.at = 0, !.old = <<>>]})
        /\ UNCHANGED budget
     \/ /\ Fails /\ astray' = [astray EXCEPT ![n] = @ \cup onWorld[n]] /\ Becomes(n, g, failed)
        /\ UNCHANGED onWorld
  /\ UNCHANGED <<up, lines, follower, roster, deleting, unsure>>

Enter(n, g) == g.pc = "enter" /\ Clear(n, g, "entered", {[g EXCEPT !.pc = "open"]})
Leave(n, g) == g.pc \in {"open", "read", "drain"} /\ g.told /\ Clear(n, g, "left", {})

\* The UPDATE of ClearPresence, over every player.
CountAll == \/ roster' = Recount(Players) /\ unsure' = {} /\ UNCHANGED budget
            \/ Fails /\ unsure' = unsure \cup roster /\ UNCHANGED roster

ClearRoster(n, g) == /\ g.pc \in {"entered", "left"} /\ CountAll
                     /\ Becomes(n, g, IF g.pc = "left" THEN {} ELSE {[g EXCEPT !.pc = "open"]})
                     /\ UNCHANGED <<up, lines, follower, onWorld, deleting, astray>>

\* StreamLogs: the last TailLines lines, then what follows.
OpenStream(n, g) == /\ g.pc = "open" /\ ~g.told /\ n \in up
                    /\ Becomes(n, g, {[g EXCEPT !.pc = "read", !.at = IF Len(lines[n]) > TailLines THEN Len(lines[n]) - TailLines ELSE 0]})
                    /\ UNCHANGED <<up, lines, follower, onWorld, roster, deleting, astray, unsure, budget>>

StreamBreaks(n, g) == /\ g.pc = "read" /\ Fails
                      /\ Becomes(n, g, {[g EXCEPT !.pc = "open", !.at = 0]})
                      /\ UNCHANGED <<up, lines, follower, onWorld, roster, deleting, astray, unsure>>

\* The stream of a server that is gone ends, read to the end or not.
StreamEnds(n, g) == /\ g.pc = "drain" /\ Becomes(n, g, {[g EXCEPT !.pc = "open", !.old = <<>>]})
                    /\ UNCHANGED <<up, lines, follower, onWorld, roster, deleting, astray, unsure, budget>>

\* SetOnline's first statement: the row of instance_presence.
Rows(n, l) == IF l.kind = "connection" THEN onWorld[n] \cup {l.who} ELSE onWorld[n] \ {l.who}

\* consume, line l, the first statement; the row is as the
\* log says unless lost.
Consume(n, g, l, lost, next) ==
  /\ ~g.told
  /\ \/ /\ onWorld' = [onWorld EXCEPT ![n] = Rows(n, l)] /\ Becomes(n, g, {[next EXCEPT !.pc = "row", !.owe = {l}]})
        /\ astray' = [astray EXCEPT ![n] = (@ \ {l.who}) \cup lost] /\ UNCHANGED budget
     \/ /\ Fails /\ astray' = [astray EXCEPT ![n] = @ \cup {l.who}] /\ Becomes(n, g, {next})
        /\ UNCHANGED onWorld
  /\ UNCHANGED <<up, lines, follower, roster, deleting, unsure>>

ReadLine(n, g) == /\ g.pc = "read" /\ g.at < Len(lines[n])
                  /\ Consume(n, g, lines[n][g.at + 1], {}, [g EXCEPT !.at = @ + 1])

\* A line of the server before, who connected then is on it no more.
ReadOld(n, g) == /\ g.pc = "drain" /\ g.old # <<>>
                 /\ LET l == Head(g.old) IN
                    Consume(n, g, l, IF l.kind = "connection" THEN {l.who} ELSE {}, [g EXCEPT !.old = Tail(@)])

(* Mutant: leaving one world is leaving the roster. *)
RosterOfOneWorld(l) == IF l.kind = "connection" THEN roster \cup {l.who} ELSE roster \ {l.who}

\* The statement on players: a connection says online outright, a closing
\* socket counts the worlds.
RosterAfter(l) == IF l.kind = "connection" THEN roster \cup {l.who} ELSE Recount({l.who})

\* ... and the second.  A connection says online though a delete may have
\* taken the row by now.
WriteRoster(n, g) ==
  LET l == CHOOSE l \in g.owe : TRUE IN
  /\ g.pc = "row" /\ Becomes(n, g, {[g EXCEPT !.pc = IF g.at = 0 THEN "drain" ELSE "read", !.owe = {}]})
  /\ \/ /\ roster' = RosterAfter(l) /\ UNCHANGED budget
        /\ unsure' = IF l.kind = "connection" /\ l.who \notin onWorld[n] THEN unsure \cup {l.who} ELSE unsure \ {l.who}
     \/ Fails /\ unsure' = unsure \cup {l.who} /\ UNCHANGED roster
  /\ UNCHANGED <<up, lines, follower, onWorld, deleting, astray>>

Work(n) == \E g \in work[n] :
  \/ Enter(n, g) \/ Leave(n, g) \/ ClearRoster(n, g) \/ OpenStream(n, g) \/ StreamEnds(n, g)
  \/ ReadLine(n, g) \/ ReadOld(n, g) \/ WriteRoster(n, g)

-----------------------------------------------------------------------------
(* The hook of DeleteInstance, before it asks whether the world runs.      *)

HookRows(n) == /\ budget.stops < MaxStops /\ n \notin deleting
               /\ deleting' = deleting \cup {n} /\ ClearRows(n)
               /\ astray' = [astray EXCEPT ![n] = @ \cup onWorld[n]]
               /\ budget' = [budget EXCEPT !.stops = @ + 1]
               /\ UNCHANGED <<up, lines, follower, work, roster, unsure>>

HookRoster(n) == /\ n \in deleting /\ deleting' = deleting \ {n} /\ CountAll
                 /\ UNCHANGED <<up, lines, follower, work, onWorld, astray>>

PresenceNext ==
  \E n \in Numbers :
    \/ WorldStarts(n) \/ WorldStops(n) \/ ServerRestarts(n)
    \/ \E a \in Players : PlayerLine(n, a)
    \/ StartWorker(n) \/ StopWorker(n)
    \/ Work(n)
    \/ \E g \in work[n] : StreamBreaks(n, g)
    \/ HookRows(n) \/ HookRoster(n)

PresenceSpec == InitPresence /\ [][PresenceNext]_presenceVars

-----------------------------------------------------------------------------
(* A worker that has read its server's whole log shows of every player what
   the log says, and a stopped world whose worker has ended shows nobody
   (consume, Run): but for the players whose row nothing has written since
   their server went, a delete took it or a statement on it failed.  A stream
   that repeats too little and an overlap of workers break it: scenario
   ShortTail, scenario OverlapPresence. *)
PresenceIsCurrent ==
  \A n \in Numbers :
    /\ n \notin up /\ work[n] = {} => onWorld[n] \subseteq astray[n]
    /\ \A g \in work[n] : g.pc = "read" /\ ~g.told /\ n \in up /\ g.at = Len(lines[n])
         => \A a \in Players \ astray[n] : a \in onWorld[n] <=> a \in Connected(n)

\* Who the roster should show.
OnAWorld == {a \in Players : \E n \in Numbers : a \in onWorld[n]}
RosterSettled == deleting = {} /\ \A n \in Numbers : \A g \in work[n] : ~Busy(g)

(* Between statements, a player is online in the roster exactly when some
   world has them, whichever workers and deletes wrote the same player's row
   in which order (SetOnline, ClearPresence): but for who a failed statement
   left, or a connection whose row a delete took before the roster was
   written, until the next statement about them. *)
RosterAgrees == RosterSettled => \A a \in Players \ unsure : a \in roster <=> a \in OnAWorld

(* Who is shown online is online, on the world and in the roster (ingest.go,
   presence.go). *)
OnlineIsShown == PresenceIsCurrent /\ RosterAgrees

(* Not so, scenario GhostPlayers: a worker that has read its server's log
   shows exactly who is connected.  Who was on a server that died stays until
   the socket closes, that is for good; who is on a world that somebody tried
   to delete is gone until the stream breaks. *)
ShownIsConnected ==
  \A n \in Numbers : \A g \in work[n] : g.pc = "read" /\ ~g.told /\ n \in up /\ g.at = Len(lines[n]) => onWorld[n] = Connected(n)

(* Not so, scenario DeletedMidLine: statements that all land leave the roster
   as the worlds are. *)
RosterIsWorlds == RosterSettled => roster = OnAWorld
=============================================================================
