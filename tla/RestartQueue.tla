---------------------------- MODULE RestartQueue ----------------------------
(***************************************************************************)
(* Pending restarts of Valheim worlds (internal/app/restarts/queue.go) and *)
(* the occupancy they wait for (internal/app/occupancy/tracker.go), as     *)
(* internal/wiring/wiring.go connects them.                                *)
(*                                                                         *)
(* A saved config is committed, then a restart is requested; a ticker      *)
(* restarts every world of the queue that it knows to be empty.  Who is    *)
(* online is read from the log of the world's pod, followed by one         *)
(* goroutine per world, and from the status endpoint while that goroutine  *)
(* has no answer.  Every call to the store, the cluster or the tracker is  *)
(* an action of its own; the queue's and the tracker's mutexes are held    *)
(* for one action only.                                                    *)
(***************************************************************************)
EXTENDS Integers, FiniteSets, Sequences, FiniteSetsExt

CONSTANTS
  Worlds,      \* the Valheim worlds there are when agrelha boots
  People,      \* who may play on them
  Handlers,    \* request goroutines
  Tick,        \* the goroutine of Run
  NoWorld,     \* no world
  Races,       \* what may happen at a bad moment, see below
  Faults,      \* the calls that may fail
  MaxChanges,  \* bound on the changes saved to one world
  MaxLines,    \* bound on the connection lines of one pod's log
  MaxTime,     \* bound on the requests and starts before nothing new is asked
  MaxLost      \* bound on the log streams lost while their pod runs

(* overlap   a change is saved while a goroutine holds the world's entry    *)
(* merge     a change is saved while an entry is pending that an earlier    *)
(*           restart already applied                                       *)
(* lag       ArgoCD applies a commit some time after it was pushed          *)
(* crash     agrelha itself restarts                                        *)
(* replay    reading back the log of a pod takes longer than the settle time *)
(* otherPod  the log is opened while the world has no pod                   *)
ASSUME RestartQueueAssumption ==
  /\ Tick \notin Handlers
  /\ NoWorld \notin Worlds
  /\ Races \subseteq {"overlap", "merge", "lag", "crash", "replay", "otherPod"}
  /\ Faults \subseteq {"lookup", "status", "endpoint", "restart"}
  /\ MaxChanges \in Nat
  /\ MaxLines \in Nat
  /\ MaxTime \in Nat
  /\ MaxLost \in Nat

VARIABLES
  pending,    \* Queue.pending: an entry or none for every world
  op,         \* what each goroutine is serving
  tracker,    \* Tracker.state, with the position of its goroutine in the log
  pod,        \* the world's Deployment and its pod
  config,     \* the changes of a world: committed, synced, loaded, requested
  clock,      \* the latest request or start
  lost        \* log streams lost so far

vars == <<pending, op, tracker, pod, config, clock, lost>>

Procs == Handlers \cup {Tick}

-----------------------------------------------------------------------------
(* Data *)

(* Pending: at most one entry per world, since the first request. *)
Pending == [since : 1 .. clock, blocked : BOOLEAN]
IsPending(w) == pending[w] # {}
Entry(w) == CHOOSE e \in pending[w] : TRUE

(* A connection line of the server's log: who, and whether they came or     *)
(* left.  ValheimConnection reads it; other lines change nothing.           *)
Line == [who : People, joined : BOOLEAN]
Joined(log, i) == log[i].joined /\ \A j \in i + 1 .. Len(log) : log[j].who # log[i].who

(* Who is online after a log, and the line of their arrival. *)
Arrivals(log) == {i \in DOMAIN log : Joined(log, i)}
Online(w) == {pod[w].log[i].who : i \in Arrivals(pod[w].log)}

(* world: what the tracker believes, and the stream it believes it from.    *)
(* src is the world whose pod is read, run the start of that pod, backlog   *)
(* the length its log had when the stream opened.                           *)
Untracked == [live |-> FALSE, settled |-> FALSE, online |-> {}, stream |-> "none",
              src |-> NoWorld, run |-> 0, read |-> 0, backlog |-> 0]

(* What a goroutine serves: the entries it listed and has not looked at,    *)
(* the world in hand with the Since it was listed with, and the arrivals    *)
(* the player count it acted on must account for.                           *)
Idle == [kind |-> "none", pc |-> "idle", w |-> NoWorld, since |-> 0,
         todo |-> {}, change |-> 0, seen |-> [run |-> 0, upto |-> 0]]

At(p, pc) == op[p].pc = pc
Goto(p, pc) == op' = [op EXCEPT ![p].pc = pc]
Return(p) == op' = [op EXCEPT ![p] = Idle]

(* The world is done with; a listing goroutine takes the next one. *)
Done(p) == IF op[p].kind = "force" THEN Return(p)
                                   ELSE op' = [op EXCEPT ![p].pc = "next", ![p].w = NoWorld]

(* A goroutine holds a copy of the entry of w. *)
InHand(w) == \E p \in Procs : /\ op[p].kind \in {"tick", "settle", "force"}
                              /\ w = op[p].w \/ \E t \in op[p].todo : t.w = w

-----------------------------------------------------------------------------
(* The queue *)

(* Request: a second request keeps the Since of the first. *)
Request(w) ==
  pending' = [pending EXCEPT ![w] = IF IsPending(w) THEN @
                                    ELSE {[since |-> clock + 1, blocked |-> FALSE]}]

(* block: if the entry is still there. *)
Block(w) == pending' = [pending EXCEPT ![w] = {[e EXCEPT !.blocked = TRUE] : e \in @}]

(* A config is saved: the change is committed. *)
Commit(p, w) ==
  /\ At(p, "idle") /\ p \in Handlers
  /\ pod[w].exists /\ config[w].committed < MaxChanges /\ clock < MaxTime
  /\ LET n == config[w].committed + 1
     IN  /\ config' = [config EXCEPT ![w].committed = n,
                                     ![w].synced = IF "lag" \in Races THEN @ ELSE n]
         /\ op' = [op EXCEPT ![p] = [Idle EXCEPT !.kind = "save", !.pc = "request",
                                                 !.w = w, !.change = n]]
  /\ UNCHANGED <<pending, tracker, pod, clock, lost>>

(* requestRestart: then the restart is requested. *)
RequestRestart(p) ==
  LET w == op[p].w IN
  /\ At(p, "request")
  /\ "overlap" \in Races \/ ~InHand(w)
  /\ "merge" \in Races \/ \A e \in pending[w] : pod[w].startedAt < e.since
  /\ Request(w)
  /\ clock' = IF IsPending(w) THEN clock ELSE clock + 1
  /\ config' = [config EXCEPT ![w].requested = Max({@, op[p].change})]
  /\ Return(p)
  /\ UNCHANGED <<tracker, pod, lost>>

(* All, by the ticker and by a page that settles the queue. *)
ListAll(p, kind) ==
  /\ At(p, "idle")
  /\ \E w \in Worlds : IsPending(w)
  /\ op' = [op EXCEPT ![p] =
              [Idle EXCEPT !.kind = kind, !.pc = "next",
                           !.todo = {[w |-> w, since |-> Entry(w).since] :
                                        w \in {v \in Worlds : IsPending(v)}}]]
  /\ UNCHANGED <<pending, tracker, pod, config, clock, lost>>

(* The oldest entry first. *)
NextEntry(p) ==
  /\ At(p, "next")
  /\ \/ op[p].todo = {} /\ Return(p)
     \/ \E t \in op[p].todo :
          /\ \A u \in op[p].todo : t.since <= u.since
          /\ op' = [op EXCEPT ![p].pc = "resolve", ![p].w = t.w, ![p].since = t.since,
                               ![p].todo = @ \ {t}]
  /\ UNCHANGED <<pending, tracker, pod, config, clock, lost>>

(* resolve. *)
Resolve(p) ==
  LET w == op[p].w IN
  /\ At(p, "resolve")
  /\ \/ pod[w].exists /\ Goto(p, "status") /\ UNCHANGED pending
     \/ /\ ~pod[w].exists \/ "lookup" \in Faults
        /\ IF op[p].kind = "tick" THEN Block(w) ELSE UNCHANGED pending
        /\ Done(p)
  /\ UNCHANGED <<tracker, pod, config, clock, lost>>

(* What follows when no later start is known. *)
NotApplied(p) == IF op[p].kind = "tick" THEN Goto(p, "players") ELSE Done(p)

(* Mutant: any start counts, whenever it was. *)
AppliedByAnyStart(p) ==
  LET w == op[p].w IN
  /\ At(p, "status")
  /\ \/ pod[w].up /\ pod[w].startedAt > 0 /\ Goto(p, "cancel")
     \/ ~pod[w].up /\ NotApplied(p)
  /\ UNCHANGED <<pending, tracker, pod, config, clock, lost>>

(* appliedByRestart: the pod started after the entry's Since. *)
AppliedByRestart(p) ==
  LET w == op[p].w IN
  /\ At(p, "status")
  /\ \/ pod[w].up /\ pod[w].startedAt > op[p].since /\ Goto(p, "cancel")
     \/ /\ ~pod[w].up \/ pod[w].startedAt <= op[p].since \/ "status" \in Faults
        /\ NotApplied(p)
  /\ UNCHANGED <<pending, tracker, pod, config, clock, lost>>

-----------------------------------------------------------------------------
(* Occupancy *)

(* Mutant: the count of a stream that is still replayed is believed. *)
KnownAtOnce(w) == tracker[w].live

(* Tracker.Players: known once the stream is live and has settled. *)
Known(w) == tracker[w].live /\ tracker[w].settled

(* The arrivals a count of no players must not overlook: with the world's   *)
(* own log followed, what was there when the stream opened and what was     *)
(* read since; otherwise everyone who is there.  A stream that ended with   *)
(* an earlier pod knows nobody of this one.                                 *)
MustSee(w) ==
  LET t == tracker[w]
      everyone == Len(pod[w].log)
  IN [run  |-> pod[w].startedAt,
      upto |-> IF ~Known(w) \/ t.stream = "none" \/ t.src # w THEN everyone
               ELSE IF t.run # pod[w].startedAt THEN 0
               ELSE Max({t.read, t.backlog})]

(* The tick asks who is playing: the tracker first, else the status         *)
(* endpoint of the world's pod.                                             *)
AskPlayers(p) ==
  LET w == op[p].w
      empty == /\ op' = [op EXCEPT ![p].pc = "roll", ![p].seen = MustSee(w)]
               /\ UNCHANGED pending
      held  == Block(w) /\ Done(p)
  IN
  /\ At(p, "players")
  /\ IF Known(w)
     THEN IF tracker[w].online = {} THEN empty ELSE held
     ELSE \/ pod[w].up /\ Online(w) = {} /\ empty
          \/ (~pod[w].up \/ Online(w) # {} \/ "endpoint" \in Faults) /\ held
  /\ UNCHANGED <<tracker, pod, config, clock, lost>>

(* Force: whatever is pending, the world is restarted. *)
ForceRestart(p, w) ==
  /\ At(p, "idle") /\ p \in Handlers /\ clock < MaxTime
  /\ op' = [op EXCEPT ![p] = [Idle EXCEPT !.kind = "force", !.pc = "roll", !.w = w]]
  /\ UNCHANGED <<pending, tracker, pod, config, clock, lost>>

(* roll: resolve again and restart; a restart that fails stays pending. *)
Roll(p) ==
  LET w == op[p].w IN
  /\ At(p, "roll")
  /\ \/ /\ pod[w].exists
        /\ pod' = [pod EXCEPT ![w].rolled = @ \/ pod[w].up]
        /\ Goto(p, "cancel") /\ UNCHANGED pending
     \/ /\ ~pod[w].exists \/ "restart" \in Faults
        /\ IF op[p].kind = "tick" THEN Block(w) ELSE UNCHANGED pending
        /\ Done(p) /\ UNCHANGED pod
  /\ UNCHANGED <<tracker, config, clock, lost>>

(* Cancel. *)
Cancel(p) ==
  /\ At(p, "cancel")
  /\ pending' = [pending EXCEPT ![op[p].w] = {}]
  /\ Done(p)
  /\ UNCHANGED <<tracker, pod, config, clock, lost>>

(* consume, as far as begin: StreamLogs opens the log of the world's pod    *)
(* or, when the world has none, of any other world's; nothing is kept from  *)
(* an earlier stream.                                                       *)
Follow(w, s, seen) ==
  /\ tracker[w].stream = "none"
  /\ pod[s].up
  /\ s = w \/ ("otherPod" \in Races /\ ~pod[w].up)
  /\ tracker' = [tracker EXCEPT ![w] =
                   [Untracked EXCEPT !.live = TRUE, !.stream = "open", !.src = s, !.online = seen,
                                     !.run = pod[s].startedAt, !.backlog = Len(pod[s].log)]]
  /\ UNCHANGED <<pending, op, pod, config, clock, lost>>

(* Mutant: a new stream adds to what the last one left. *)
BeginAccumulates(w, s) == Follow(w, s, tracker[w].online)

Begin(w, s) == Follow(w, s, {})

(* One line is read: set. *)
Scan(w) ==
  LET t == tracker[w] IN
  /\ t.stream = "open" /\ t.read < Len(pod[t.src].log)
  /\ LET l == pod[t.src].log[t.read + 1]
     IN  tracker' = [tracker EXCEPT ![w].read = @ + 1,
                                    ![w].online = IF l.joined THEN @ \cup {l.who} ELSE @ \ {l.who}]
  /\ UNCHANGED <<pending, op, pod, config, clock, lost>>

(* The settle time passes. *)
SettleTimePasses(w) ==
  LET t == tracker[w] IN
  /\ t.live /\ ~t.settled
  /\ "replay" \in Races \/ (t.stream = "open" /\ t.read >= t.backlog)
  /\ tracker' = [tracker EXCEPT ![w].settled = TRUE]
  /\ UNCHANGED <<pending, op, pod, config, clock, lost>>

(* Mutant: the stream is gone and the count stays. *)
DropForgotten(w) ==
  /\ tracker[w].stream = "ended"
  /\ tracker' = [tracker EXCEPT ![w].stream = "none"]
  /\ UNCHANGED <<pending, op, pod, config, clock, lost>>

(* drop: the stream ended, the count is no longer known. *)
Drop(w) ==
  /\ tracker[w].stream = "ended"
  /\ tracker' = [tracker EXCEPT ![w].stream = "none", ![w].live = FALSE]
  /\ UNCHANGED <<pending, op, pod, config, clock, lost>>

StreamLost(w) ==
  /\ tracker[w].stream = "open" /\ lost < MaxLost
  /\ tracker' = [tracker EXCEPT ![w].stream = "ended"]
  /\ lost' = lost + 1
  /\ UNCHANGED <<pending, op, pod, config, clock>>

-----------------------------------------------------------------------------
(* The cluster, the players and the operators *)

(* Who plays writes the log. *)
PlayerMoves(w, who) ==
  /\ pod[w].up /\ Len(pod[w].log) < MaxLines
  /\ pod' = [pod EXCEPT ![w].log = Append(@, [who |-> who, joined |-> who \notin Online(w)])]
  /\ UNCHANGED <<pending, op, tracker, config, clock, lost>>

(* The pod of a Recreate rollout, or of a stopped world, goes away with its *)
(* players; whoever follows its log reaches the end.                        *)
PodStops(w) ==
  /\ pod[w].up /\ (pod[w].rolled \/ ~pod[w].desired)
  /\ pod' = [pod EXCEPT ![w].up = FALSE, ![w].rolled = FALSE, ![w].log = <<>>]
  /\ tracker' = [v \in Worlds |-> IF tracker[v].stream = "open" /\ tracker[v].src = w
                                  THEN [tracker[v] EXCEPT !.stream = "ended"] ELSE tracker[v]]
  /\ UNCHANGED <<pending, op, config, clock, lost>>

(* A pod reads the config that is in the cluster when it starts. *)
PodStarts(w) ==
  /\ ~pod[w].up /\ pod[w].desired
  /\ clock' = clock + 1
  /\ pod' = [pod EXCEPT ![w].up = TRUE, ![w].startedAt = clock + 1]
  /\ config' = [config EXCEPT ![w].loaded = config[w].synced]
  /\ UNCHANGED <<pending, op, tracker, lost>>

Sync(w) ==
  /\ config[w].synced < config[w].committed
  /\ config' = [config EXCEPT ![w].synced = config[w].committed]
  /\ UNCHANGED <<pending, op, tracker, pod, clock, lost>>

(* The life cycle restarts, stops, starts and deletes the world without     *)
(* telling the queue.                                                       *)
RestartInstance(w) ==
  /\ pod[w].up /\ pod[w].desired /\ ~pod[w].rolled /\ clock < MaxTime
  /\ pod' = [pod EXCEPT ![w].rolled = TRUE]
  /\ UNCHANGED <<pending, op, tracker, config, clock, lost>>

StartOrStopInstance(w) ==
  /\ pod[w].exists /\ clock < MaxTime
  /\ pod' = [pod EXCEPT ![w].desired = ~@]
  /\ UNCHANGED <<pending, op, tracker, config, clock, lost>>

DeleteInstance(w) ==
  /\ pod[w].exists /\ clock < MaxTime
  /\ pod' = [pod EXCEPT ![w].exists = FALSE, ![w].desired = FALSE]
  /\ UNCHANGED <<pending, op, tracker, config, clock, lost>>

(* agrelha restarts: the queue and the tracker are only in memory. *)
AgrelhaRestarts ==
  /\ "crash" \in Races /\ clock < MaxTime
  /\ pending' = [w \in Worlds |-> {}]
  /\ op' = [p \in Procs |-> Idle]
  /\ tracker' = [w \in Worlds |-> Untracked]
  /\ UNCHANGED <<pod, config, clock, lost>>

-----------------------------------------------------------------------------
Init ==
  /\ pending = [w \in Worlds |-> {}]
  /\ op = [p \in Procs |-> Idle]
  /\ tracker = [w \in Worlds |-> Untracked]
  /\ pod = [w \in Worlds |-> [exists |-> TRUE, desired |-> TRUE, up |-> TRUE, rolled |-> FALSE,
                              startedAt |-> 1, log |-> <<>>]]
  /\ config = [w \in Worlds |-> [committed |-> 0, synced |-> 0, loaded |-> 0, requested |-> 0]]
  /\ clock = 1
  /\ lost = 0

(* The steps of a goroutine that serves the queue. *)
Step(p) ==
  \/ RequestRestart(p) \/ NextEntry(p) \/ Resolve(p) \/ AppliedByRestart(p)
  \/ AskPlayers(p) \/ Roll(p) \/ Cancel(p)

Track(w) == (\E s \in Worlds : Begin(w, s)) \/ Scan(w) \/ SettleTimePasses(w) \/ Drop(w)

Cluster(w) == PodStops(w) \/ PodStarts(w) \/ Sync(w)

Operate(w) == RestartInstance(w) \/ StartOrStopInstance(w) \/ DeleteInstance(w)

Next ==
  \/ \E p \in Procs : Step(p)
  \/ ListAll(Tick, "tick")
  \/ \E p \in Handlers : ListAll(p, "settle")
  \/ \E p \in Handlers, w \in Worlds : Commit(p, w) \/ ForceRestart(p, w)
  \/ \E w \in Worlds : Track(w) \/ Cluster(w) \/ Operate(w) \/ StreamLost(w)
  \/ \E w \in Worlds, who \in People : PlayerMoves(w, who)
  \/ AgrelhaRestarts

Spec == Init /\ [][Next]_vars

(* Goroutines run, the ticker keeps ticking, the tracker reconnects, reads  *)
(* and settles, and the cluster converges.  Nobody need play, leave, save   *)
(* or force.                                                                *)
LiveSpec ==
  /\ Spec
  /\ \A p \in Procs : WF_vars(Step(p))
  /\ WF_vars(ListAll(Tick, "tick"))
  /\ \A w \in Worlds : /\ WF_vars(\E s \in Worlds : Begin(w, s))
                       /\ WF_vars(Scan(w))
                       /\ WF_vars(SettleTimePasses(w))
                       /\ WF_vars(Drop(w))
                       /\ WF_vars(Cluster(w))

-----------------------------------------------------------------------------
(* Properties *)

(* What goroutines, the tracker, pods and configs are made of, and the steps *)
(* of each kind of call.                                                     *)
Calls == [kind : {"none", "tick", "settle", "force", "save"},
          pc : {"idle", "next", "resolve", "status", "players", "roll", "cancel", "request"},
          w : Worlds \cup {NoWorld}, since : Nat, todo : SUBSET [w : Worlds, since : Nat],
          change : 0 .. MaxChanges, seen : [run : Nat, upto : Nat]]
Trackers == [live : BOOLEAN, settled : BOOLEAN, online : SUBSET People,
             stream : {"none", "open", "ended"}, src : Worlds \cup {NoWorld},
             run : Nat, read : Nat, backlog : Nat]
Pods == [exists : BOOLEAN, desired : BOOLEAN, up : BOOLEAN, rolled : BOOLEAN,
         startedAt : Nat, log : Seq(Line)]
Configs == [committed : Nat, synced : Nat, loaded : Nat, requested : Nat]

StepsOf(kind) ==
  CASE kind = "none"   -> {"idle"}
    [] kind = "save"   -> {"request"}
    [] kind = "force"  -> {"roll", "cancel"}
    [] kind = "settle" -> {"next", "resolve", "status", "cancel"}
    [] kind = "tick"   -> {"next", "resolve", "status", "players", "roll", "cancel"}

(* Types; a call is at a step of its kind and names its world, nothing is    *)
(* newer than the clock, and a log is followed while its pod runs.           *)
RestartQueueTypeOK ==
  /\ pending \in [Worlds -> {{}} \cup {{e} : e \in Pending}]
  /\ op \in [Procs -> Calls] /\ tracker \in [Worlds -> Trackers]
  /\ pod \in [Worlds -> Pods] /\ config \in [Worlds -> Configs]
  /\ clock \in Nat \ {0} /\ lost \in 0 .. MaxLost
  /\ \A p \in Procs :
       /\ op[p].pc \in StepsOf(op[p].kind)
       /\ op[p].w \in Worlds <=> op[p].pc \notin {"idle", "next"}
       /\ op[p].kind = "tick" => p = Tick
       /\ op[p].since <= clock /\ op[p].seen.run <= clock
       /\ \A t \in op[p].todo : t.since <= clock /\ op[p].kind \in {"tick", "settle"}
  /\ \A w \in Worlds :
       /\ tracker[w].live <=> tracker[w].stream # "none"
       /\ tracker[w].stream = "open" =>
            /\ tracker[w].src \in Worlds /\ pod[tracker[w].src].up
            /\ tracker[w].read <= Len(pod[tracker[w].src].log)
       /\ pod[w].startedAt \in 1 .. clock
       /\ pod[w].up \/ (~pod[w].rolled /\ pod[w].log = <<>>)
       /\ config[w].loaded <= config[w].synced /\ config[w].synced <= config[w].committed

(* A change whose restart was requested is not forgotten: a world that runs *)
(* without it has an entry in the queue or is about to be restarted.        *)
NoChangeIsForgotten ==
  \A w \in Worlds :
    pod[w].exists /\ pod[w].up /\ pod[w].desired /\ config[w].loaded < config[w].requested
      => IsPending(w) \/ pod[w].rolled

(* The ticker disconnects only newcomers: whoever is online when it         *)
(* restarts a world arrived after the player count it acted on could have   *)
(* included them.                                                           *)
DisconnectsOnlyNewcomers ==
  [][ \A w \in Worlds :
        (At(Tick, "roll") /\ op[Tick].w = w /\ op'[Tick].pc = "cancel" /\ pod[w].up)
          => \A i \in Arrivals(pod[w].log) :
               op[Tick].seen.run = pod[w].startedAt => i > op[Tick].seen.upto ]_vars

(* A pending restart happens: an entry does not stay for ever unless its    *)
(* world is played on, stopped or deleted again and again or for good.      *)
PendingRestartHappens ==
  \A w \in Worlds : []<>~IsPending(w) \/ []<>(Online(w) # {} \/ ~pod[w].up)
=============================================================================
