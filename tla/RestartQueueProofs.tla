------------------------- MODULE RestartQueueProofs -------------------------
(***************************************************************************)
(* Theorems about RestartQueue: the state and what a call knows at each of *)
(* its steps, the changes whose restart was requested, and the players a   *)
(* restart of the ticker disconnects.                                      *)
(***************************************************************************)
EXTENDS RestartQueue, TLAPS

-----------------------------------------------------------------------------
(* The parts of the type invariant *)

(* A call of p is at a step of its kind and holds nothing newer than t. *)
SoundCall(c, p, t) ==
  /\ c.pc \in StepsOf(c.kind)
  /\ c.w \in Worlds <=> c.pc \notin {"idle", "next"}
  /\ c.kind = "tick" => p = Tick
  /\ c.since <= t /\ c.seen.run <= t
  /\ \A u \in c.todo : u.since <= t /\ c.kind \in {"tick", "settle"}

(* A log is followed while its pod runs. *)
SoundTracker(w) ==
  /\ tracker[w].live <=> tracker[w].stream # "none"
  /\ tracker[w].stream = "open" =>
       /\ tracker[w].src \in Worlds /\ pod[tracker[w].src].up
       /\ tracker[w].read <= Len(pod[tracker[w].src].log)

SoundPod(w) ==
  /\ pod[w].startedAt \in 1 .. clock
  /\ pod[w].up \/ (~pod[w].rolled /\ pod[w].log = <<>>)

SoundConfig(w) == config[w].loaded <= config[w].synced /\ config[w].synced <= config[w].committed

PendingOK == pending \in [Worlds -> {{}} \cup {{e} : e \in Pending}]
OpOK == op \in [Procs -> Calls] /\ \A p \in Procs : SoundCall(op[p], p, clock)
TrackerOK == tracker \in [Worlds -> Trackers] /\ \A w \in Worlds : SoundTracker(w)
PodOK == pod \in [Worlds -> Pods] /\ \A w \in Worlds : SoundPod(w)
ConfigOK == config \in [Worlds -> Configs] /\ \A w \in Worlds : SoundConfig(w)
ClockOK == clock \in Nat \ {0} /\ lost \in 0 .. MaxLost

LEMMA TypeParts ==
  RestartQueueTypeOK <=> PendingOK /\ OpOK /\ TrackerOK /\ PodOK /\ ConfigOK /\ ClockOK
BY DEF RestartQueueTypeOK, PendingOK, OpOK, TrackerOK, PodOK, ConfigOK, ClockOK, SoundCall,
       SoundTracker, SoundPod, SoundConfig

-----------------------------------------------------------------------------
(* Steps of a call *)

Others(p) == \A q \in Procs \ {p} : op'[q] = op[q]

(* The call of p ends; it goes on at pc with all it holds. *)
Ends(p) == op' \in [Procs -> Calls] /\ op'[p] = Idle /\ Others(p)
Keeps(p) ==
  /\ op' \in [Procs -> Calls] /\ Others(p)
  /\ op'[p].kind = op[p].kind /\ op'[p].since = op[p].since /\ op'[p].todo = op[p].todo
  /\ op'[p].change = op[p].change
Goes(p, pc) ==
  /\ Keeps(p) /\ op'[p].pc = pc /\ op'[p].w = op[p].w /\ op'[p].seen = op[p].seen
LetsGo(p) ==
  \/ op[p].kind = "force" /\ Ends(p)
  \/ /\ op[p].kind # "force" /\ Keeps(p) /\ op'[p].seen = op[p].seen
     /\ op'[p].pc = "next" /\ op'[p].w = NoWorld

LEMMA StepFields ==
  ASSUME op \in [Procs -> Calls], NEW p \in Procs, NEW c \in Calls, op' = [op EXCEPT ![p] = c]
  PROVE  op' \in [Procs -> Calls] /\ op'[p] = c /\ Others(p)
BY DEF Others

Kinds == {"none", "tick", "settle", "force", "save"}
Pcs == {"idle", "next", "resolve", "status", "players", "roll", "cancel", "request"}

LEMMA IdleIsACall ==
  /\ Idle \in Calls
  /\ Idle.kind = "none" /\ Idle.pc = "idle" /\ Idle.w = NoWorld /\ Idle.since = 0 /\ Idle.todo = {}
  /\ Idle.change = 0 /\ Idle.seen.run = 0 /\ Idle.seen.upto = 0
<1>1. 0 \in 0 .. MaxChanges
  BY RestartQueueAssumption
<1> QED BY <1>1 DEF Idle, Calls

LEMMA ReturnEnds ==
  ASSUME op \in [Procs -> Calls], NEW p \in Procs, Return(p)
  PROVE  Ends(p)
BY IdleIsACall, StepFields DEF Return, Ends

LEMMA GotoGoes ==
  ASSUME op \in [Procs -> Calls], NEW p \in Procs, NEW pc \in Pcs, Goto(p, pc)
  PROVE  Goes(p, pc)
<1> DEFINE c == [op[p] EXCEPT !.pc = pc]
<1>1. op[p] \in Calls
  OBVIOUS
<1>2. /\ c \in Calls /\ c.pc = pc /\ c.kind = op[p].kind /\ c.w = op[p].w /\ c.since = op[p].since
      /\ c.todo = op[p].todo /\ c.change = op[p].change /\ c.seen = op[p].seen
  BY <1>1 DEF Calls, Pcs
<1>3. op' = [op EXCEPT ![p] = c]
  BY DEF Goto
<1> HIDE DEF c
<1> QED BY <1>2, <1>3, StepFields DEF Goes, Keeps

LEMMA DoneLetsGo ==
  ASSUME op \in [Procs -> Calls], NEW p \in Procs, Done(p)
  PROVE  LetsGo(p)
<1>1. CASE op[p].kind = "force"
  BY <1>1, ReturnEnds DEF Done, LetsGo
<1>2. CASE op[p].kind # "force"
  <2> DEFINE c == [op[p] EXCEPT !.pc = "next", !.w = NoWorld]
  <2>1. op[p] \in Calls
    OBVIOUS
  <2>2. /\ c \in Calls /\ c.pc = "next" /\ c.kind = op[p].kind /\ c.w = NoWorld
        /\ c.since = op[p].since /\ c.todo = op[p].todo /\ c.change = op[p].change
        /\ c.seen = op[p].seen
    BY <2>1 DEF Calls
  <2>3. op' = [op EXCEPT ![p] = c]
    BY <1>2 DEF Done
  <2> HIDE DEF c
  <2> QED BY <1>2, <2>2, <2>3, StepFields DEF LetsGo, Keeps
<1> QED BY <1>1, <1>2

(* The calls stay sound when one of them takes a sound step. *)
LEMMA OthersStaySound ==
  ASSUME OpOK, ClockOK, NEW p \in Procs, op' \in [Procs -> Calls], Others(p),
         clock' \in Nat, clock <= clock', SoundCall(op'[p], p, clock')
  PROVE  OpOK'
<1>1. ASSUME NEW q \in Procs \ {p} PROVE SoundCall(op'[q], q, clock')
  <2>1. op[q] = op'[q] /\ SoundCall(op[q], q, clock) /\ op[q] \in Calls
    BY DEF Others, OpOK
  <2>2. \A s \in Nat : s <= clock => s <= clock'
    BY DEF ClockOK
  <2>3. op[q].since \in Nat /\ op[q].seen.run \in Nat /\ \A u \in op[q].todo : u.since \in Nat
    BY <2>1 DEF Calls
  <2> QED BY <2>1, <2>2, <2>3 DEF SoundCall
<1> QED BY <1>1 DEF OpOK

LEMMA EndsSound ==
  ASSUME OpOK, ClockOK, NEW p \in Procs, Ends(p), clock' \in Nat, clock <= clock'
  PROVE  OpOK'
<1>1. SoundCall(Idle, p, clock')
  BY IdleIsACall, RestartQueueAssumption DEF SoundCall, StepsOf
<1> QED BY <1>1, OthersStaySound DEF Ends

LEMMA GoesSound ==
  ASSUME OpOK, ClockOK, NEW p \in Procs, NEW pc, Goes(p, pc), pc \in StepsOf(op[p].kind),
         op[p].pc \notin {"idle", "next"}, pc \notin {"idle", "next"}, clock' = clock
  PROVE  OpOK'
<1>1. SoundCall(op[p], p, clock)
  BY DEF OpOK
<1>2. SoundCall(op'[p], p, clock')
  BY <1>1 DEF SoundCall, Goes, Keeps
<1> QED BY <1>2, OthersStaySound DEF Goes, Keeps, ClockOK

LEMMA LetsGoSound ==
  ASSUME OpOK, ClockOK, NEW p \in Procs, LetsGo(p), "next" \in StepsOf(op[p].kind) \/ op[p].kind = "force",
         clock' = clock
  PROVE  OpOK'
<1>0. clock' \in Nat /\ clock <= clock'
  BY DEF ClockOK
<1>1. CASE op[p].kind = "force"
  BY <1>0, <1>1, EndsSound DEF LetsGo
<1>2. CASE op[p].kind # "force"
  <2>1. SoundCall(op[p], p, clock)
    BY DEF OpOK
  <2>2. SoundCall(op'[p], p, clock')
    BY <1>2, <2>1, RestartQueueAssumption DEF SoundCall, LetsGo, Keeps
  <2> QED BY <1>0, <1>2, <2>2, OthersStaySound DEF LetsGo, Keeps
<1> QED BY <1>1, <1>2

(* The kinds of call that reach a step. *)
LEMMA StepKinds ==
  ASSUME OpOK, NEW p \in Procs
  PROVE  /\ op[p].kind \in Kinds
         /\ op[p].pc = "request" => op[p].kind = "save"
         /\ op[p].pc \in {"next", "resolve", "status"} => op[p].kind \in {"tick", "settle"}
         /\ op[p].pc = "players" => op[p].kind = "tick"
         /\ op[p].pc = "roll" => op[p].kind \in {"tick", "force"}
         /\ op[p].pc = "cancel" => op[p].kind \in {"tick", "settle", "force"}
         /\ op[p].pc \notin {"idle", "next"} => op[p].w \in Worlds
<1>1. SoundCall(op[p], p, clock) /\ op[p] \in Calls
  BY DEF OpOK
<1>2. op[p].kind \in Kinds
  BY <1>1 DEF Calls, Kinds
<1> QED BY <1>1, <1>2 DEF SoundCall, StepsOf, Kinds
-----------------------------------------------------------------------------
(* Entries, and the larger of two *)

LEMMA PairMax ==
  ASSUME NEW a \in Nat, NEW b \in Nat
  PROVE  /\ Max({a, b}) \in {a, b} /\ Max({a, b}) >= a /\ Max({a, b}) >= b
<1>1. \E x \in {a, b} : \A y \in {a, b} : x >= y
  OBVIOUS
<1>2. /\ Max({a, b}) \in {a, b}
      /\ \A y \in {a, b} : Max({a, b}) >= y
  BY <1>1 DEF Max
<1> QED BY <1>2

(* There is at most one entry, and Entry is it. *)
LEMMA EntryIsIt ==
  ASSUME PendingOK, NEW w \in Worlds, IsPending(w)
  PROVE  Entry(w) \in Pending /\ pending[w] = {Entry(w)}
<1>1. PICK e \in Pending : pending[w] = {e}
  BY DEF PendingOK, IsPending
<1> QED BY <1>1 DEF Entry

(* A blocked entry is the same request. *)
LEMMA BlockFacts ==
  ASSUME PendingOK, ClockOK, NEW w \in Worlds, Block(w), clock' = clock
  PROVE  /\ PendingOK'
         /\ \A v \in Worlds : IsPending(v)' <=> IsPending(v)
         /\ \A v \in Worlds : \A e \in pending'[v] : \E f \in pending[v] : e.since = f.since
<1> DEFINE blocked(e) == [e EXCEPT !.blocked = TRUE]
<1>1. \A e \in Pending : blocked(e) \in Pending /\ blocked(e).since = e.since
  BY DEF Pending
<1>2. pending'[w] = {blocked(e) : e \in pending[w]}
  BY DEF Block, PendingOK
<1>3. \A v \in Worlds \ {w} : pending'[v] = pending[v]
  BY DEF Block, PendingOK
<1>4. pending'[w] \in {{}} \cup {{e} : e \in Pending} /\ (IsPending(w)' <=> IsPending(w))
  <2> HIDE DEF blocked
  <2>1. CASE pending[w] = {}
    BY <1>2, <2>1 DEF IsPending
  <2>2. CASE pending[w] # {}
    <3>1. PICK e \in Pending : pending[w] = {e}
      BY <2>2 DEF PendingOK
    <3>2. pending'[w] = {blocked(e)} /\ blocked(e) \in Pending
      BY <1>1, <1>2, <3>1
    <3> QED BY <2>2, <3>2 DEF IsPending
  <2> QED BY <2>1, <2>2
<1>5. pending' \in [Worlds -> {{}} \cup {{e} : e \in Pending}]
  <2>1. DOMAIN pending' = Worlds /\ pending' = [v \in Worlds |-> pending'[v]]
    BY DEF Block, PendingOK
  <2> HIDE DEF Block
  <2>2. \A v \in Worlds : pending'[v] \in {{}} \cup {{e} : e \in Pending}
    BY <1>3, <1>4 DEF PendingOK
  <2> QED BY <2>1, <2>2
<1>6. PendingOK'
  BY <1>5 DEF PendingOK, Pending
<1>7. \A e \in pending'[w] : \E f \in pending[w] : e.since = f.since
  <2> HIDE DEF blocked
  <2>1. \A f \in pending[w] : f \in Pending
    BY DEF PendingOK
  <2> QED BY <1>1, <1>2, <2>1
<1> QED BY <1>3, <1>4, <1>6, <1>7 DEF IsPending

LEMMA RequestFacts ==
  ASSUME PendingOK, ClockOK, NEW w \in Worlds, Request(w),
         clock' = IF IsPending(w) THEN clock ELSE clock + 1
  PROVE  /\ PendingOK' /\ pending'[w] # {}
         /\ \A v \in Worlds : IsPending(v) => IsPending(v)'
         /\ \A v \in Worlds : \A e \in pending'[v] : e \in pending[v] \/ (v = w /\ e.since = clock + 1)
<1> DEFINE new == [since |-> clock + 1, blocked |-> FALSE]
<1>0. clock \in Nat /\ clock' \in Nat /\ clock <= clock'
  BY DEF ClockOK
<1>1. CASE IsPending(w)
  <2>1. pending' = pending /\ clock' = clock
    BY <1>1 DEF Request, PendingOK
  <2> QED BY <1>1, <2>1 DEF PendingOK, IsPending, Pending
<1>2. CASE ~IsPending(w)
  <2>1. clock' = clock + 1 /\ new.since = clock + 1
    BY <1>2
  <2>2. new \in [since : 1 .. clock + 1, blocked : BOOLEAN]
    BY <1>0
  <2>3. pending' = [pending EXCEPT ![w] = {new}]
    BY <1>2 DEF Request
  <2> HIDE DEF new
  <2>4. \A e \in Pending : e \in [since : 1 .. clock + 1, blocked : BOOLEAN]
    BY <1>0 DEF Pending
  <2>5. pending' \in [Worlds -> {{}} \cup {{e} : e \in [since : 1 .. clock + 1, blocked : BOOLEAN]}]
    BY <2>2, <2>3, <2>4 DEF PendingOK
  <2>6. PendingOK'
    BY <2>1, <2>5 DEF PendingOK, Pending
  <2>7. pending'[w] = {new} /\ \A v \in Worlds \ {w} : pending'[v] = pending[v]
    BY <2>3 DEF PendingOK
  <2> QED BY <2>1, <2>6, <2>7 DEF IsPending
<1> QED BY <1>1, <1>2

(* What holds of the pending entries holds while the clock runs on. *)
LEMMA PendingStays ==
  ASSUME PendingOK, ClockOK, UNCHANGED pending, clock' \in Nat, clock <= clock'
  PROVE  PendingOK'
<1>1. \A e \in Pending : e \in [since : 1 .. clock', blocked : BOOLEAN]
  BY DEF Pending, ClockOK
<1> QED BY <1>1 DEF PendingOK, Pending

LEMMA PodStays ==
  ASSUME PodOK, ClockOK, UNCHANGED pod, clock' \in Nat, clock <= clock'
  PROVE  PodOK'
<1>1. ASSUME NEW w \in Worlds PROVE SoundPod(w)'
  BY DEF PodOK, SoundPod, ClockOK
<1> QED BY <1>1 DEF PodOK

LEMMA TrackerStays ==
  ASSUME TrackerOK, UNCHANGED <<tracker, pod>>
  PROVE  TrackerOK'
BY DEF TrackerOK, SoundTracker

LEMMA ConfigStays ==
  ASSUME ConfigOK, UNCHANGED config
  PROVE  ConfigOK'
BY DEF ConfigOK, SoundConfig

LEMMA OpStays ==
  ASSUME OpOK, ClockOK, UNCHANGED op, clock' \in Nat, clock <= clock'
  PROVE  OpOK'
<1>1. ASSUME NEW p \in Procs PROVE SoundCall(op[p], p, clock')
  <2>1. SoundCall(op[p], p, clock) /\ op[p] \in Calls
    BY DEF OpOK
  <2>2. \A s \in Nat : s <= clock => s <= clock'
    BY DEF ClockOK
  <2>3. op[p].since \in Nat /\ op[p].seen.run \in Nat /\ \A u \in op[p].todo : u.since \in Nat
    BY <2>1 DEF Calls
  <2> QED BY <2>1, <2>2, <2>3 DEF SoundCall
<1> QED BY <1>1 DEF OpOK

LEMMA ClockStays ==
  ASSUME ClockOK, UNCHANGED <<clock, lost>>
  PROVE  ClockOK' /\ clock' \in Nat /\ clock <= clock'
BY DEF ClockOK

-----------------------------------------------------------------------------
(* Type correctness *)

TypeInv == PendingOK /\ OpOK /\ TrackerOK /\ PodOK /\ ConfigOK /\ ClockOK

(* A call newly on its way. *)
Starts(p, c) == op' = [op EXCEPT ![p] = c] /\ c \in Calls /\ SoundCall(c, p, clock)

LEMMA StartsSound ==
  ASSUME OpOK, ClockOK, NEW p \in Procs, NEW c, Starts(p, c), clock' = clock
  PROVE  OpOK' /\ op'[p] = c /\ Others(p)
<1>1. op' \in [Procs -> Calls] /\ op'[p] = c /\ Others(p)
  BY StepFields DEF Starts, OpOK
<1> QED BY <1>1, OthersStaySound DEF Starts, ClockOK

LEMMA CommitFacts ==
  ASSUME TypeInv, NEW p \in Procs, NEW w \in Worlds, Commit(p, w)
  PROVE  /\ TypeInv' /\ Others(p) /\ UNCHANGED <<pending, tracker, pod, clock, lost>>
         /\ op[p].pc = "idle" /\ op'[p].kind = "save" /\ op'[p].pc = "request" /\ op'[p].todo = {}
         /\ op'[p].w = w /\ op'[p].change = config[w].committed + 1
         /\ \A v \in Worlds \ {w} : config'[v] = config[v]
         /\ config'[w].committed = config[w].committed + 1
         /\ config'[w].synced = IF "lag" \in Races THEN config[w].synced ELSE config[w].committed + 1
         /\ config'[w].loaded = config[w].loaded /\ config'[w].requested = config[w].requested
<1> DEFINE n == config[w].committed + 1
           s == IF "lag" \in Races THEN config[w].synced ELSE n
           c == [Idle EXCEPT !.kind = "save", !.pc = "request", !.w = w, !.change = n]
           d == [config[w] EXCEPT !.committed = n, !.synced = s]
<1>1. config[w] \in Configs /\ SoundConfig(w) /\ op \in [Procs -> Calls]
  BY DEF TypeInv, ConfigOK, OpOK
<1>2. n \in 0 .. MaxChanges /\ n \in Nat /\ s \in Nat /\ config[w].loaded <= s /\ s <= n
  BY <1>1, RestartQueueAssumption DEF Commit, Configs, SoundConfig
<1>3. op' = [op EXCEPT ![p] = c] /\ At(p, "idle") /\ UNCHANGED <<pending, tracker, pod, clock, lost>>
  BY DEF Commit
<1>4. config' = [config EXCEPT ![w] = d]
  BY <1>1 DEF Commit, TypeInv, ConfigOK
<1> HIDE DEF n, s
<1>5. /\ d \in Configs /\ d.committed = n /\ d.synced = s
      /\ d.loaded = config[w].loaded /\ d.requested = config[w].requested
  BY <1>1, <1>2 DEF Configs
<1>6. /\ c \in Calls /\ c.kind = "save" /\ c.pc = "request" /\ c.w = w /\ c.change = n
      /\ c.since = 0 /\ c.todo = {} /\ c.seen = Idle.seen
  BY <1>2, IdleIsACall DEF Calls, Idle
<1> HIDE DEF c, d
<1>7. SoundCall(c, p, clock)
  BY <1>6, IdleIsACall, ClockStays DEF SoundCall, StepsOf, TypeInv, ClockOK
<1>8. OpOK' /\ op'[p] = c /\ Others(p)
  BY <1>3, <1>6, <1>7, StartsSound DEF Starts, TypeInv
<1>9. config' \in [Worlds -> Configs] /\ config'[w] = d /\ \A v \in Worlds \ {w} : config'[v] = config[v]
  BY <1>4, <1>5 DEF TypeInv, ConfigOK
<1>10. ConfigOK'
  BY <1>2, <1>5, <1>9 DEF ConfigOK, SoundConfig, TypeInv
<1>11. PendingOK' /\ PodOK' /\ TrackerOK' /\ ClockOK'
  BY <1>3, ClockStays, PendingStays, PodStays, TrackerStays DEF TypeInv
<1>12. n = config[w].committed + 1 /\ s = (IF "lag" \in Races THEN config[w].synced ELSE n)
  BY DEF n, s
<1> QED BY <1>3, <1>5, <1>6, <1>8, <1>9, <1>10, <1>11, <1>12 DEF TypeInv, At

LEMMA RequestRestartFacts ==
  ASSUME TypeInv, NEW p \in Procs, RequestRestart(p)
  PROVE  /\ TypeInv' /\ Ends(p) /\ UNCHANGED <<tracker, pod, lost>>
         /\ op[p].pc = "request" /\ op[p].w \in Worlds /\ op[p].kind = "save"
         /\ "overlap" \in Races \/ ~InHand(op[p].w)
         /\ "merge" \in Races \/ \A e \in pending[op[p].w] : pod[op[p].w].startedAt < e.since
         /\ pending'[op[p].w] # {}
         /\ \A v \in Worlds : IsPending(v) => IsPending(v)'
         /\ \A v \in Worlds : \A e \in pending'[v] :
               e \in pending[v] \/ (v = op[p].w /\ e.since = clock + 1)
         /\ \A v \in Worlds \ {op[p].w} : config'[v] = config[v]
         /\ config'[op[p].w].committed = config[op[p].w].committed
         /\ config'[op[p].w].synced = config[op[p].w].synced
         /\ config'[op[p].w].loaded = config[op[p].w].loaded
         /\ config'[op[p].w].requested \in {config[op[p].w].requested, op[p].change}
<1> DEFINE w == op[p].w
           m == Max({config[w].requested, op[p].change})
           d == [config[w] EXCEPT !.requested = m]
<1>1. /\ At(p, "request") /\ UNCHANGED <<tracker, pod, lost>>
      /\ "overlap" \in Races \/ ~InHand(w)
      /\ "merge" \in Races \/ \A e \in pending[w] : pod[w].startedAt < e.since
      /\ Request(w) /\ clock' = (IF IsPending(w) THEN clock ELSE clock + 1) /\ Return(p)
      /\ config' = [config EXCEPT ![w].requested = Max({@, op[p].change})]
  BY DEF RequestRestart
<1>2. w \in Worlds /\ op[p].kind = "save" /\ op \in [Procs -> Calls] /\ op[p] \in Calls
  BY <1>1, StepKinds DEF TypeInv, At, OpOK
<1>3. clock \in Nat /\ clock' \in Nat /\ clock <= clock' /\ clock' # 0 /\ ClockOK'
  BY <1>1 DEF TypeInv, ClockOK
<1>4. config[w] \in Configs /\ op[p].change \in Nat
  BY <1>2, RestartQueueAssumption DEF TypeInv, ConfigOK, Calls
<1>5. config[w].requested \in Nat
  BY <1>4 DEF Configs
<1>6. m \in {config[w].requested, op[p].change} /\ m \in Nat
  BY <1>4, <1>5, PairMax
<1>7. config' = [config EXCEPT ![w] = d]
  BY <1>1, <1>2 DEF TypeInv, ConfigOK
<1> HIDE DEF m
<1>8. /\ d \in Configs /\ d.requested = m /\ d.committed = config[w].committed
      /\ d.synced = config[w].synced /\ d.loaded = config[w].loaded
  BY <1>4, <1>6 DEF Configs
<1> HIDE DEF d
<1>9. config' \in [Worlds -> Configs] /\ config'[w] = d /\ \A v \in Worlds \ {w} : config'[v] = config[v]
  BY <1>2, <1>7, <1>8 DEF TypeInv, ConfigOK
<1>10. ConfigOK'
  BY <1>8, <1>9 DEF ConfigOK, SoundConfig, TypeInv
<1>11. Ends(p)
  BY <1>1, <1>2, ReturnEnds
<1>12. OpOK'
  BY <1>3, <1>11, EndsSound DEF TypeInv
<1>13. PodOK' /\ TrackerOK'
  BY <1>1, <1>3, PodStays, TrackerStays DEF TypeInv
<1>14. /\ PendingOK' /\ pending'[w] # {}
       /\ \A v \in Worlds : IsPending(v) => IsPending(v)'
       /\ \A v \in Worlds : \A e \in pending'[v] : e \in pending[v] \/ (v = w /\ e.since = clock + 1)
  BY <1>1, <1>2, RequestFacts DEF TypeInv
<1> QED BY <1>1, <1>2, <1>3, <1>6, <1>8, <1>9, <1>10, <1>11, <1>12, <1>13, <1>14 DEF TypeInv, At

LEMMA ListAllFacts ==
  ASSUME TypeInv, NEW p \in Procs, NEW kind \in {"tick", "settle"}, kind = "tick" => p = Tick,
         ListAll(p, kind)
  PROVE  /\ TypeInv' /\ Others(p) /\ UNCHANGED <<pending, tracker, pod, config, clock, lost>>
         /\ op[p].pc = "idle" /\ op'[p].pc = "next" /\ op'[p].w = NoWorld /\ op'[p].kind = kind
         /\ \A t \in op'[p].todo : t.w \in Worlds /\ \E e \in pending[t.w] : t.since = e.since
<1> DEFINE all == {[w |-> w, since |-> Entry(w).since] : w \in {v \in Worlds : IsPending(v)}}
           c == [Idle EXCEPT !.kind = kind, !.pc = "next", !.todo = all]
<1>1. At(p, "idle") /\ op' = [op EXCEPT ![p] = c] /\ UNCHANGED <<pending, tracker, pod, config, clock, lost>>
  BY DEF ListAll
<1>2. ASSUME NEW w \in Worlds, IsPending(w)
      PROVE  Entry(w) \in pending[w] /\ Entry(w).since \in Nat /\ Entry(w).since <= clock
  BY <1>2, EntryIsIt DEF TypeInv, Pending, ClockOK
<1>3. \A t \in all : /\ t \in [w : Worlds, since : Nat] /\ t.since <= clock
                     /\ \E e \in pending[t.w] : t.since = e.since
  BY <1>2
<1> HIDE DEF all
<1>4. all \in SUBSET [w : Worlds, since : Nat]
  BY <1>3
<1>5. /\ c \in Calls /\ c.kind = kind /\ c.pc = "next" /\ c.todo = all /\ c.w = NoWorld
      /\ c.since = 0 /\ c.seen = Idle.seen
  BY <1>4, IdleIsACall DEF Calls, Idle
<1> HIDE DEF c
<1>6. SoundCall(c, p, clock)
  <2>1. c.pc \in StepsOf(c.kind)
    BY <1>5 DEF StepsOf
  <2>2. c.since <= clock /\ c.seen.run <= clock
    BY <1>5, IdleIsACall DEF TypeInv, ClockOK
  <2> QED BY <1>3, <1>5, <2>1, <2>2, RestartQueueAssumption DEF SoundCall
<1>7. OpOK' /\ op'[p] = c /\ Others(p)
  BY <1>1, <1>5, <1>6, StartsSound DEF Starts, TypeInv
<1>8. PendingOK' /\ PodOK' /\ TrackerOK' /\ ConfigOK' /\ ClockOK'
  BY <1>1, ClockStays, PendingStays, PodStays, TrackerStays, ConfigStays DEF TypeInv
<1>9. \A t \in all : t.w \in Worlds
  BY <1>4
<1> QED BY <1>1, <1>3, <1>5, <1>7, <1>8, <1>9 DEF TypeInv, At

LEMMA NextEntryFacts ==
  ASSUME TypeInv, NEW p \in Procs, NextEntry(p)
  PROVE  /\ TypeInv' /\ UNCHANGED <<pending, tracker, pod, config, clock, lost>>
         /\ op[p].pc = "next"
         /\ \/ Ends(p)
            \/ /\ op'[p].kind = op[p].kind /\ op'[p].pc = "resolve" /\ Others(p)
               /\ op'[p].todo \subseteq op[p].todo
               /\ \E t \in op[p].todo : op'[p].w = t.w /\ op'[p].since = t.since
<1>1. At(p, "next") /\ UNCHANGED <<pending, tracker, pod, config, clock, lost>>
  BY DEF NextEntry
<1>2. PendingOK' /\ PodOK' /\ TrackerOK' /\ ConfigOK' /\ ClockOK' /\ clock' \in Nat /\ clock <= clock'
  BY <1>1, ClockStays, PendingStays, PodStays, TrackerStays, ConfigStays DEF TypeInv
<1>3. op \in [Procs -> Calls] /\ op[p] \in Calls /\ SoundCall(op[p], p, clock)
  BY DEF TypeInv, OpOK
<1>4. CASE Return(p)
  BY <1>1, <1>2, <1>3, <1>4, ReturnEnds, EndsSound DEF TypeInv, At
<1>5. CASE ~Return(p)
  <2>1. PICK t \in op[p].todo :
          op' = [op EXCEPT ![p].pc = "resolve", ![p].w = t.w, ![p].since = t.since,
                           ![p].todo = @ \ {t}]
    BY <1>5 DEF NextEntry
  <2> DEFINE c == [op[p] EXCEPT !.pc = "resolve", !.w = t.w, !.since = t.since, !.todo = op[p].todo \ {t}]
  <2>2. op' = [op EXCEPT ![p] = c]
    BY <2>1
  <2>3. t \in [w : Worlds, since : Nat] /\ t.w \in Worlds /\ t.since \in Nat
    BY <1>3 DEF Calls
  <2>4. op[p].todo \ {t} \in SUBSET [w : Worlds, since : Nat]
    BY <1>3 DEF Calls
  <2>5. /\ c \in Calls /\ c.kind = op[p].kind /\ c.pc = "resolve" /\ c.w = t.w /\ c.since = t.since
        /\ c.todo = op[p].todo \ {t} /\ c.seen = op[p].seen
    BY <1>3, <2>3, <2>4 DEF Calls
  <2> HIDE DEF c
  <2>6. SoundCall(c, p, clock)
    <3>1. op[p].kind \in {"tick", "settle"}
      BY <1>1, StepKinds DEF TypeInv, At
    <3>2. c.pc \in StepsOf(c.kind)
      BY <2>5, <3>1 DEF StepsOf
    <3> QED BY <1>3, <2>3, <2>5, <3>1, <3>2 DEF SoundCall
  <2>7. OpOK' /\ op'[p] = c /\ Others(p)
    BY <1>1, <2>2, <2>5, <2>6, StartsSound DEF Starts, TypeInv
  <2> QED BY <1>1, <1>2, <2>5, <2>7 DEF TypeInv, At
<1> QED BY <1>4, <1>5

(* No entry comes or goes; one may be marked blocked. *)
SameEntries ==
  /\ PendingOK'
  /\ \A v \in Worlds : IsPending(v)' <=> IsPending(v)
  /\ \A v \in Worlds : \A e \in pending'[v] : \E f \in pending[v] : e.since = f.since

LEMMA UnchangedEntries ==
  ASSUME PendingOK, ClockOK, UNCHANGED <<pending, clock>>
  PROVE  SameEntries
BY PendingStays, ClockStays DEF SameEntries, IsPending, ClockOK

LEMMA BlockedEntries ==
  ASSUME PendingOK, ClockOK, NEW w \in Worlds, UNCHANGED clock, Block(w) \/ UNCHANGED pending
  PROVE  SameEntries
BY UnchangedEntries, BlockFacts DEF SameEntries

(* The call of p goes on at a step of its kind, or is done with its world. *)
Continues(p, pc) == (Goes(p, pc) /\ pc \in StepsOf(op[p].kind)) \/ LetsGo(p)

LEMMA ContinuesSound ==
  ASSUME OpOK, ClockOK, NEW p \in Procs, NEW pc, Continues(p, pc), op[p].kind \notin {"none", "save"},
         op[p].pc \notin {"idle", "next"}, pc \notin {"idle", "next"}, UNCHANGED clock
  PROVE  OpOK'
<1>1. op[p].kind = "force" \/ "next" \in StepsOf(op[p].kind)
  BY StepKinds DEF StepsOf, Kinds
<1> QED BY <1>1, GoesSound, LetsGoSound DEF Continues

LEMMA ResolveFacts ==
  ASSUME TypeInv, NEW p \in Procs, Resolve(p)
  PROVE  /\ TypeInv' /\ SameEntries /\ UNCHANGED <<tracker, pod, config, clock, lost>>
         /\ op[p].pc = "resolve" /\ Continues(p, "status")
<1>1. At(p, "resolve") /\ UNCHANGED <<tracker, pod, config, clock, lost>>
  BY DEF Resolve
<1>2. op[p].w \in Worlds /\ op[p].kind \in {"tick", "settle"} /\ op \in [Procs -> Calls]
  BY <1>1, StepKinds DEF TypeInv, At, OpOK
<1>3. SameEntries
  BY <1>1, <1>2, BlockedEntries DEF Resolve, TypeInv
<1>4. Goto(p, "status") => Goes(p, "status")
  BY <1>2, GotoGoes DEF Pcs
<1>5. Continues(p, "status")
  BY <1>2, <1>4, DoneLetsGo DEF Resolve, Continues, StepsOf
<1>6. OpOK'
  BY <1>1, <1>2, <1>5, ContinuesSound DEF TypeInv, At
<1> QED BY <1>1, <1>3, <1>5, <1>6, ClockStays, PodStays, TrackerStays, ConfigStays DEF TypeInv, At, SameEntries

LEMMA AppliedByRestartFacts ==
  ASSUME TypeInv, NEW p \in Procs, AppliedByRestart(p)
  PROVE  /\ TypeInv' /\ UNCHANGED <<pending, tracker, pod, config, clock, lost>>
         /\ op[p].pc = "status" /\ op[p].w \in Worlds
         /\ \/ Goes(p, "cancel") /\ pod[op[p].w].up /\ pod[op[p].w].startedAt > op[p].since
            \/ Continues(p, "players")
<1>1. At(p, "status") /\ UNCHANGED <<pending, tracker, pod, config, clock, lost>>
  BY DEF AppliedByRestart
<1>2. op[p].w \in Worlds /\ op[p].kind \in {"tick", "settle"} /\ op \in [Procs -> Calls]
  BY <1>1, StepKinds DEF TypeInv, At, OpOK
<1>3. Goto(p, "cancel") => Goes(p, "cancel") /\ Continues(p, "cancel")
  BY <1>2, GotoGoes DEF Pcs, StepsOf, Continues
<1>4. NotApplied(p) => Continues(p, "players")
  BY <1>2, GotoGoes, DoneLetsGo DEF NotApplied, Pcs, StepsOf, Continues
<1>5. OpOK'
  BY <1>1, <1>2, <1>3, <1>4, ContinuesSound DEF TypeInv, At, AppliedByRestart
<1> QED BY <1>1, <1>2, <1>3, <1>4, <1>5, ClockStays, PendingStays, PodStays, TrackerStays, ConfigStays
        DEF TypeInv, At, AppliedByRestart

LEMMA MustSeeType ==
  ASSUME TrackerOK, PodOK, ClockOK, NEW w \in Worlds
  PROVE  MustSee(w) \in [run : Nat, upto : Nat] /\ MustSee(w).run = pod[w].startedAt /\ MustSee(w).run <= clock
<1>1. tracker[w] \in Trackers /\ pod[w] \in Pods /\ SoundPod(w)
  BY DEF TrackerOK, PodOK
<1>2. /\ tracker[w].read \in Nat /\ tracker[w].backlog \in Nat /\ pod[w].log \in Seq(Line)
      /\ pod[w].startedAt \in Nat /\ pod[w].startedAt <= clock
  BY <1>1 DEF Trackers, Pods, SoundPod
<1>3. Max({tracker[w].read, tracker[w].backlog}) \in Nat
  BY <1>2, PairMax
<1>4. Len(pod[w].log) \in Nat
  BY <1>2
<1> QED BY <1>2, <1>3, <1>4 DEF MustSee

LEMMA AskPlayersFacts ==
  ASSUME TypeInv, NEW p \in Procs, AskPlayers(p)
  PROVE  /\ TypeInv' /\ SameEntries /\ UNCHANGED <<tracker, pod, config, clock, lost>>
         /\ op[p].pc = "players" /\ op[p].w \in Worlds /\ p = Tick
         /\ \/ LetsGo(p)
            \/ /\ Keeps(p) /\ op'[p].pc = "roll" /\ op'[p].w = op[p].w
               /\ op'[p].seen = MustSee(op[p].w)
               /\ IF Known(op[p].w) THEN tracker[op[p].w].online = {}
                                    ELSE pod[op[p].w].up /\ Online(op[p].w) = {}
<1> DEFINE w == op[p].w
           c == [op[p] EXCEPT !.pc = "roll", !.seen = MustSee(w)]
<1>1. At(p, "players") /\ UNCHANGED <<tracker, pod, config, clock, lost>>
  BY DEF AskPlayers
<1>2. w \in Worlds /\ op[p].kind = "tick" /\ op \in [Procs -> Calls] /\ op[p] \in Calls
      /\ SoundCall(op[p], p, clock)
  BY <1>1, StepKinds DEF TypeInv, At, OpOK
<1>3. PendingOK /\ ClockOK /\ clock' = clock
  BY <1>1 DEF TypeInv
<1>4. ClockOK' /\ TrackerOK' /\ PodOK' /\ ConfigOK'
  BY <1>1, ClockStays, PodStays, TrackerStays, ConfigStays DEF TypeInv
<1>5. ASSUME Block(w), Done(p)
      PROVE  SameEntries /\ LetsGo(p) /\ OpOK'
  <2>1. LetsGo(p)
    BY <1>2, <1>5, DoneLetsGo
  <2> QED BY <1>1, <1>2, <1>3, <1>5, <2>1, BlockedEntries, ContinuesSound DEF Continues, TypeInv, At
<1>6. ASSUME op' = [op EXCEPT ![p].pc = "roll", ![p].seen = MustSee(w)], UNCHANGED pending
      PROVE  /\ SameEntries /\ OpOK' /\ Keeps(p) /\ op'[p].pc = "roll" /\ op'[p].w = w
             /\ op'[p].seen = MustSee(w)
  <2>1. MustSee(w) \in [run : Nat, upto : Nat] /\ MustSee(w).run <= clock
    BY <1>2, MustSeeType DEF TypeInv
  <2>2. op' = [op EXCEPT ![p] = c]
    BY <1>6
  <2>3. /\ c \in Calls /\ c.pc = "roll" /\ c.kind = op[p].kind /\ c.w = w /\ c.since = op[p].since
        /\ c.todo = op[p].todo /\ c.change = op[p].change /\ c.seen = MustSee(w)
    BY <1>2, <2>1 DEF Calls
  <2> HIDE DEF c
  <2>4. SoundCall(c, p, clock)
    <3>1. c.pc \in StepsOf(c.kind)
      BY <1>2, <2>3 DEF StepsOf
    <3> QED BY <1>2, <2>1, <2>3, <3>1 DEF SoundCall
  <2>5. OpOK' /\ op'[p] = c /\ Others(p)
    BY <1>1, <2>2, <2>3, <2>4, StartsSound DEF Starts, TypeInv
  <2> QED BY <1>3, <1>6, <2>3, <2>5, UnchangedEntries DEF Keeps, OpOK
<1>7. p = Tick
  BY <1>2 DEF SoundCall
<1> QED BY <1>1, <1>2, <1>4, <1>5, <1>6, <1>7 DEF AskPlayers, TypeInv, At, SameEntries

LEMMA ForceRestartFacts ==
  ASSUME TypeInv, NEW p \in Procs, NEW w \in Worlds, ForceRestart(p, w)
  PROVE  /\ TypeInv' /\ Others(p) /\ UNCHANGED <<pending, tracker, pod, config, clock, lost>>
         /\ op[p].pc = "idle" /\ p \in Handlers
         /\ op'[p].kind = "force" /\ op'[p].pc = "roll" /\ op'[p].todo = {} /\ op'[p].w = w
<1> DEFINE c == [Idle EXCEPT !.kind = "force", !.pc = "roll", !.w = w]
<1>1. At(p, "idle") /\ p \in Handlers /\ op' = [op EXCEPT ![p] = c]
      /\ UNCHANGED <<pending, tracker, pod, config, clock, lost>>
  BY DEF ForceRestart
<1>2. /\ c \in Calls /\ c.kind = "force" /\ c.pc = "roll" /\ c.w = w
      /\ c.since = 0 /\ c.todo = {} /\ c.seen = Idle.seen
  BY IdleIsACall DEF Calls, Idle
<1> HIDE DEF c
<1>3. SoundCall(c, p, clock)
  BY <1>2, IdleIsACall DEF SoundCall, StepsOf, TypeInv, ClockOK
<1>4. OpOK' /\ op'[p] = c /\ Others(p)
  BY <1>1, <1>2, <1>3, StartsSound DEF Starts, TypeInv
<1> QED BY <1>1, <1>2, <1>4, ClockStays, PendingStays, PodStays, TrackerStays, ConfigStays DEF TypeInv, At

LEMMA PodFields ==
  ASSUME PodOK, NEW w \in Worlds, NEW c \in Pods, pod' = [pod EXCEPT ![w] = c],
         c.up \/ (~c.rolled /\ c.log = <<>>), c.startedAt \in 1 .. clock', clock' \in Nat, clock \in Nat,
         clock <= clock'
  PROVE  PodOK' /\ pod'[w] = c /\ \A v \in Worlds \ {w} : pod'[v] = pod[v]
<1>1. pod' \in [Worlds -> Pods] /\ pod'[w] = c /\ \A v \in Worlds \ {w} : pod'[v] = pod[v]
  BY DEF PodOK
<1>2. ASSUME NEW v \in Worlds PROVE SoundPod(v)'
  BY <1>1 DEF SoundPod, PodOK
<1> QED BY <1>1, <1>2 DEF PodOK

(* Logs that are followed go on running. *)
LEMMA FollowedStay ==
  ASSUME TrackerOK, UNCHANGED tracker,
         \A v \in Worlds : pod[v].up => pod'[v].up /\ Len(pod[v].log) <= Len(pod'[v].log),
         PodOK, PodOK'
  PROVE  TrackerOK'
<1>1. ASSUME NEW w \in Worlds PROVE SoundTracker(w)'
  <2>1. SoundTracker(w) /\ tracker[w] \in Trackers
    BY DEF TrackerOK
  <2>2. ASSUME tracker[w].stream = "open"
        PROVE  /\ tracker[w].src \in Worlds /\ pod'[tracker[w].src].up
               /\ tracker[w].read <= Len(pod'[tracker[w].src].log)
    <3>1. tracker[w].src \in Worlds /\ pod[tracker[w].src].up /\ tracker[w].read \in Nat
      BY <2>1, <2>2 DEF SoundTracker, Trackers
    <3>2. pod[tracker[w].src].log \in Seq(Line) /\ pod'[tracker[w].src].log \in Seq(Line)
      BY <3>1 DEF PodOK, Pods
    <3>3. Len(pod[tracker[w].src].log) \in Nat /\ Len(pod'[tracker[w].src].log) \in Nat
      BY <3>2
    <3>4. Len(pod[tracker[w].src].log) <= Len(pod'[tracker[w].src].log)
      BY <3>1
    <3> QED BY <2>1, <2>2, <3>1, <3>3, <3>4 DEF SoundTracker
  <2> QED BY <2>1, <2>2 DEF SoundTracker
<1> QED BY <1>1 DEF TrackerOK

LEMMA RollFacts ==
  ASSUME TypeInv, NEW p \in Procs, Roll(p)
  PROVE  /\ TypeInv' /\ SameEntries /\ UNCHANGED <<tracker, config, clock, lost>>
         /\ op[p].pc = "roll" /\ op[p].w \in Worlds
         /\ \A v \in Worlds : /\ pod'[v].up = pod[v].up /\ pod'[v].startedAt = pod[v].startedAt
                              /\ pod'[v].log = pod[v].log
                              /\ pod[v].rolled => pod'[v].rolled
         /\ \/ Goes(p, "cancel") /\ (pod'[op[p].w].up => pod'[op[p].w].rolled)
            \/ LetsGo(p)
<1> DEFINE w == op[p].w
           c == [pod[w] EXCEPT !.rolled = pod[w].rolled \/ pod[w].up]
<1>1. At(p, "roll") /\ UNCHANGED <<tracker, config, clock, lost>>
  BY DEF Roll
<1>2. w \in Worlds /\ op[p].kind \in {"tick", "force"} /\ op \in [Procs -> Calls]
  BY <1>1, StepKinds DEF TypeInv, At, OpOK
<1>3. PendingOK /\ ClockOK /\ OpOK /\ TrackerOK /\ ConfigOK /\ PodOK /\ clock' = clock /\ clock \in Nat
  BY <1>1 DEF TypeInv, ClockOK
<1>4. ClockOK' /\ ConfigOK' /\ clock' \in Nat /\ clock <= clock'
  BY <1>1, <1>3, ClockStays, ConfigStays
<1>5. pod[w] \in Pods /\ SoundPod(w)
  BY <1>2, <1>3 DEF PodOK
<1>6. ASSUME pod' = [pod EXCEPT ![w].rolled = @ \/ pod[w].up], Goto(p, "cancel"), UNCHANGED pending
      PROVE  /\ SameEntries /\ PodOK' /\ TrackerOK' /\ OpOK'
             /\ \A v \in Worlds : /\ pod'[v].up = pod[v].up /\ pod'[v].startedAt = pod[v].startedAt
                                  /\ pod'[v].log = pod[v].log
                                  /\ pod[v].rolled => pod'[v].rolled
             /\ Goes(p, "cancel") /\ (pod'[w].up => pod'[w].rolled)
  <2>1. pod' = [pod EXCEPT ![w] = c]
    BY <1>2, <1>3, <1>6 DEF PodOK
  <2>2. pod[w].rolled \in BOOLEAN /\ pod[w].up \in BOOLEAN
    BY <1>5 DEF Pods
  <2>3. (pod[w].rolled \/ pod[w].up) \in BOOLEAN
    BY <2>2
  <2>4. /\ c \in Pods /\ c.up = pod[w].up /\ c.startedAt = pod[w].startedAt /\ c.log = pod[w].log
        /\ c.rolled <=> (pod[w].rolled \/ pod[w].up)
    BY <1>5, <2>3 DEF Pods
  <2> HIDE DEF c
  <2>5. c.up \/ (~c.rolled /\ c.log = <<>>)
    BY <1>5, <2>4 DEF SoundPod
  <2>6. c.startedAt \in 1 .. clock'
    BY <1>3, <1>5, <2>4 DEF SoundPod
  <2>7. PodOK' /\ pod'[w] = c /\ \A v \in Worlds \ {w} : pod'[v] = pod[v]
    BY <1>2, <1>3, <1>4, <2>1, <2>4, <2>5, <2>6, PodFields
  <2>8. \A v \in Worlds : /\ pod'[v].up = pod[v].up /\ pod'[v].startedAt = pod[v].startedAt
                          /\ pod'[v].log = pod[v].log /\ (pod[v].rolled => pod'[v].rolled)
    BY <2>4, <2>7
  <2>9. \A v \in Worlds : Len(pod[v].log) \in Nat
    BY <1>3 DEF PodOK, Pods
  <2>10. \A v \in Worlds : pod[v].up => pod'[v].up /\ Len(pod[v].log) <= Len(pod'[v].log)
    BY <2>8, <2>9
  <2>11. TrackerOK'
    BY <1>1, <1>3, <2>7, <2>10, FollowedStay
  <2>12. Goes(p, "cancel") /\ Continues(p, "cancel")
    BY <1>2, <1>6, GotoGoes DEF Pcs, StepsOf, Continues
  <2>13. OpOK'
    BY <1>1, <1>2, <1>3, <2>12, ContinuesSound DEF At
  <2>14. SameEntries
    BY <1>3, <1>6, UnchangedEntries
  <2> QED BY <2>4, <2>7, <2>8, <2>11, <2>12, <2>13, <2>14
<1>7. ASSUME Block(w) \/ UNCHANGED pending, Done(p), UNCHANGED pod
      PROVE  SameEntries /\ PodOK' /\ TrackerOK' /\ OpOK' /\ LetsGo(p)
  <2>1. LetsGo(p)
    BY <1>2, <1>7, DoneLetsGo
  <2>2. Continues(p, "cancel")
    BY <2>1 DEF Continues
  <2> QED BY <1>1, <1>2, <1>3, <1>4, <1>7, <2>1, <2>2, BlockedEntries, ContinuesSound, PodStays, TrackerStays DEF At
<1> QED BY <1>1, <1>2, <1>4, <1>6, <1>7 DEF Roll, TypeInv, At, SameEntries

LEMMA CancelFacts ==
  ASSUME TypeInv, NEW p \in Procs, Cancel(p)
  PROVE  /\ TypeInv' /\ UNCHANGED <<tracker, pod, config, clock, lost>>
         /\ op[p].pc = "cancel" /\ op[p].w \in Worlds /\ LetsGo(p)
         /\ \A v \in Worlds : pending'[v] = IF v = op[p].w THEN {} ELSE pending[v]
<1>1. At(p, "cancel") /\ UNCHANGED <<tracker, pod, config, clock, lost>> /\ Done(p)
      /\ pending' = [pending EXCEPT ![op[p].w] = {}]
  BY DEF Cancel
<1>2. op[p].w \in Worlds /\ op[p].kind \in {"tick", "settle", "force"} /\ op \in [Procs -> Calls]
  BY <1>1, StepKinds DEF TypeInv, At, OpOK
<1>3. LetsGo(p)
  BY <1>1, <1>2, DoneLetsGo
<1>4. OpOK'
  BY <1>1, <1>2, <1>3, ContinuesSound DEF Continues, TypeInv, At
<1>5. PendingOK' /\ \A v \in Worlds : pending'[v] = IF v = op[p].w THEN {} ELSE pending[v]
  BY <1>1, <1>2 DEF PendingOK, Pending, TypeInv
<1> QED BY <1>1, <1>2, <1>3, <1>4, <1>5, ClockStays, PodStays, TrackerStays, ConfigStays DEF TypeInv, At

(* What a step of the tracker of w leaves alone. *)
OnlyTracks(w) ==
  /\ UNCHANGED <<pending, op, pod, config, clock>>
  /\ \A v \in Worlds \ {w} : tracker'[v] = tracker[v]

LEMMA TrackerFields ==
  ASSUME TypeInv, NEW w \in Worlds, NEW t \in Trackers, tracker' = [tracker EXCEPT ![w] = t],
         UNCHANGED <<pending, op, pod, config, clock>>, lost' \in 0 .. MaxLost,
         t.live <=> t.stream # "none",
         t.stream = "open" => t.src \in Worlds /\ pod[t.src].up /\ t.read <= Len(pod[t.src].log)
  PROVE  TypeInv' /\ OnlyTracks(w) /\ tracker'[w] = t
<1>1. tracker' \in [Worlds -> Trackers] /\ tracker'[w] = t /\ \A v \in Worlds \ {w} : tracker'[v] = tracker[v]
  BY DEF TypeInv, TrackerOK
<1>2. ASSUME NEW v \in Worlds PROVE SoundTracker(v)'
  BY <1>1 DEF SoundTracker, TypeInv, TrackerOK
<1>3. TrackerOK'
  BY <1>1, <1>2 DEF TrackerOK
<1>4. ClockOK' /\ clock' \in Nat /\ clock <= clock'
  BY DEF ClockOK, TypeInv
<1> QED BY <1>1, <1>3, <1>4, PendingStays, PodStays, OpStays, ConfigStays DEF OnlyTracks, TypeInv

LEMMA BeginFacts ==
  ASSUME TypeInv, NEW w \in Worlds, NEW s \in Worlds, Begin(w, s)
  PROVE  /\ TypeInv' /\ OnlyTracks(w) /\ UNCHANGED lost
         /\ s = w \/ "otherPod" \in Races
         /\ tracker'[w].stream = "open" /\ tracker'[w].src = s /\ ~tracker'[w].settled
         /\ tracker'[w].run = pod[s].startedAt /\ tracker'[w].read = 0
         /\ tracker'[w].backlog = Len(pod[s].log)
<1> DEFINE t == [Untracked EXCEPT !.live = TRUE, !.stream = "open", !.src = s, !.online = {},
                                  !.run = pod[s].startedAt, !.backlog = Len(pod[s].log)]
<1>1. /\ pod[s].up /\ tracker' = [tracker EXCEPT ![w] = t]
      /\ UNCHANGED <<pending, op, pod, config, clock, lost>>
      /\ s = w \/ "otherPod" \in Races
  BY DEF Begin, Follow
<1>2. pod[s].startedAt \in Nat /\ pod[s].log \in Seq(Line)
  BY DEF TypeInv, PodOK, Pods
<1>3. Len(pod[s].log) \in Nat
  BY <1>2
<1>4. /\ t.stream = "open" /\ t.src = s /\ ~t.settled /\ t.live /\ t.online = {}
      /\ t.run = pod[s].startedAt /\ t.read = 0 /\ t.backlog = Len(pod[s].log)
      /\ DOMAIN t = {"live", "settled", "online", "stream", "src", "run", "read", "backlog"}
  BY DEF Untracked
<1>5. t \in Trackers
  <2>1. Untracked \in Trackers
    BY DEF Untracked, Trackers
  <2> QED BY <1>2, <1>3, <2>1 DEF Trackers
<1> HIDE DEF t
<1>6. lost' \in 0 .. MaxLost
  BY <1>1 DEF TypeInv, ClockOK
<1>7. t.live <=> t.stream # "none"
  BY <1>4
<1>8. t.src \in Worlds /\ pod[t.src].up /\ t.read <= Len(pod[t.src].log)
  BY <1>1, <1>3, <1>4
<1>9. TypeInv' /\ OnlyTracks(w) /\ tracker'[w] = t
  BY <1>1, <1>5, <1>6, <1>7, <1>8, TrackerFields
<1> QED BY <1>1, <1>4, <1>9

LEMMA ScanFacts ==
  ASSUME TypeInv, NEW w \in Worlds, Scan(w)
  PROVE  /\ TypeInv' /\ OnlyTracks(w) /\ UNCHANGED lost
         /\ tracker[w].stream = "open" /\ tracker[w].read < Len(pod[tracker[w].src].log)
         /\ tracker'[w].stream = "open" /\ tracker'[w].src = tracker[w].src
         /\ tracker'[w].run = tracker[w].run /\ tracker'[w].backlog = tracker[w].backlog
         /\ tracker'[w].settled = tracker[w].settled /\ tracker'[w].read = tracker[w].read + 1
         /\ LET l == pod[tracker[w].src].log[tracker[w].read + 1]
            IN  tracker'[w].online = IF l.joined THEN tracker[w].online \cup {l.who}
                                                 ELSE tracker[w].online \ {l.who}
<1> DEFINE o == tracker[w]
           l == pod[o.src].log[o.read + 1]
           on == IF l.joined THEN o.online \cup {l.who} ELSE o.online \ {l.who}
           t == [o EXCEPT !.read = o.read + 1, !.online = on]
<1>1. /\ o.stream = "open" /\ o.read < Len(pod[o.src].log)
      /\ UNCHANGED <<pending, op, pod, config, clock, lost>>
  BY DEF Scan
<1>2. o \in Trackers /\ SoundTracker(w)
  BY DEF TypeInv, TrackerOK
<1>3. tracker' = [tracker EXCEPT ![w] = t]
  BY <1>2 DEF Scan, TypeInv, TrackerOK
<1>4. o.src \in Worlds /\ pod[o.src].up /\ o.read \in Nat /\ o.online \in SUBSET People
  BY <1>1, <1>2 DEF SoundTracker, Trackers
<1>5. pod[o.src].log \in Seq(Line)
  BY <1>4 DEF TypeInv, PodOK, Pods
<1>6. l \in Line
  BY <1>1, <1>4, <1>5
<1>7. on \in SUBSET People
  BY <1>4, <1>6 DEF Line
<1> HIDE DEF on
<1>8. /\ t \in Trackers /\ t.live = o.live /\ t.stream = o.stream /\ t.src = o.src /\ t.run = o.run
      /\ t.backlog = o.backlog /\ t.settled = o.settled /\ t.read = o.read + 1 /\ t.online = on
  <2> HIDE DEF o, l
  <2>1. o.read + 1 \in Nat
    BY <1>4
  <2> QED BY <1>2, <1>7, <2>1 DEF Trackers
<1>9. t.read <= Len(pod[o.src].log)
  BY <1>1, <1>4, <1>5, <1>8
<1>10. t.live <=> t.stream # "none"
  BY <1>2, <1>8 DEF SoundTracker
<1>11. lost' \in 0 .. MaxLost
  BY <1>1 DEF TypeInv, ClockOK
<1>12. TypeInv' /\ OnlyTracks(w) /\ tracker'[w] = t
  <2> HIDE DEF t
  <2> QED BY <1>1, <1>3, <1>4, <1>8, <1>9, <1>10, <1>11, TrackerFields
<1>13. on = IF l.joined THEN o.online \cup {l.who} ELSE o.online \ {l.who}
  BY DEF on
<1> HIDE DEF t
<1> QED BY <1>1, <1>8, <1>12, <1>13

LEMMA SettleFacts ==
  ASSUME TypeInv, NEW w \in Worlds, SettleTimePasses(w)
  PROVE  /\ TypeInv' /\ OnlyTracks(w) /\ UNCHANGED lost
         /\ "replay" \in Races \/ tracker[w].read >= tracker[w].backlog
         /\ tracker'[w].stream = tracker[w].stream /\ tracker'[w].src = tracker[w].src
         /\ tracker'[w].run = tracker[w].run /\ tracker'[w].backlog = tracker[w].backlog
         /\ tracker'[w].online = tracker[w].online /\ tracker'[w].read = tracker[w].read
<1> DEFINE o == tracker[w]
           t == [o EXCEPT !.settled = TRUE]
<1>1. /\ UNCHANGED <<pending, op, pod, config, clock, lost>> /\ tracker' = [tracker EXCEPT ![w] = t]
      /\ "replay" \in Races \/ o.read >= o.backlog
  BY DEF SettleTimePasses
<1>2. o \in Trackers /\ SoundTracker(w)
  BY DEF TypeInv, TrackerOK
<1>3. /\ t \in Trackers /\ t.live = o.live /\ t.stream = o.stream /\ t.src = o.src /\ t.run = o.run
      /\ t.backlog = o.backlog /\ t.read = o.read /\ t.online = o.online
  BY <1>2 DEF Trackers
<1> HIDE DEF t
<1>4. lost' \in 0 .. MaxLost
  BY <1>1 DEF TypeInv, ClockOK
<1>5. TypeInv' /\ OnlyTracks(w) /\ tracker'[w] = t
  BY <1>1, <1>2, <1>3, <1>4, TrackerFields DEF SoundTracker
<1> QED BY <1>1, <1>3, <1>5

LEMMA DropFacts ==
  ASSUME TypeInv, NEW w \in Worlds, Drop(w)
  PROVE  TypeInv' /\ OnlyTracks(w) /\ UNCHANGED lost /\ tracker'[w].stream = "none"
<1> DEFINE o == tracker[w]
           t == [o EXCEPT !.stream = "none", !.live = FALSE]
<1>1. UNCHANGED <<pending, op, pod, config, clock, lost>> /\ tracker' = [tracker EXCEPT ![w] = t]
  BY DEF Drop
<1>2. o \in Trackers
  BY DEF TypeInv, TrackerOK
<1>3. t \in Trackers /\ t.stream = "none" /\ ~t.live
  BY <1>2 DEF Trackers
<1> HIDE DEF t
<1>4. lost' \in 0 .. MaxLost
  BY <1>1 DEF TypeInv, ClockOK
<1>5. TypeInv' /\ OnlyTracks(w) /\ tracker'[w] = t
  BY <1>1, <1>3, <1>4, TrackerFields
<1> QED BY <1>1, <1>3, <1>5

LEMMA StreamLostFacts ==
  ASSUME TypeInv, NEW w \in Worlds, StreamLost(w)
  PROVE  /\ TypeInv' /\ OnlyTracks(w)
         /\ tracker[w].stream = "open" /\ tracker'[w].src = tracker[w].src
         /\ tracker'[w].settled = tracker[w].settled
         /\ tracker'[w].run = tracker[w].run /\ tracker'[w].backlog = tracker[w].backlog
         /\ tracker'[w].online = tracker[w].online /\ tracker'[w].read = tracker[w].read
<1> DEFINE o == tracker[w]
           t == [o EXCEPT !.stream = "ended"]
<1>1. /\ o.stream = "open" /\ UNCHANGED <<pending, op, pod, config, clock>>
      /\ tracker' = [tracker EXCEPT ![w] = t] /\ lost < MaxLost /\ lost' = lost + 1
  BY DEF StreamLost
<1>2. o \in Trackers /\ SoundTracker(w)
  BY DEF TypeInv, TrackerOK
<1>3. /\ t \in Trackers /\ t.live = o.live /\ t.stream = "ended" /\ t.src = o.src /\ t.run = o.run
      /\ t.backlog = o.backlog /\ t.read = o.read /\ t.online = o.online /\ t.settled = o.settled
  BY <1>2 DEF Trackers
<1> HIDE DEF t
<1>4. lost' \in 0 .. MaxLost
  BY <1>1, RestartQueueAssumption DEF TypeInv, ClockOK
<1>5. TypeInv' /\ OnlyTracks(w) /\ tracker'[w] = t
  BY <1>1, <1>2, <1>3, <1>4, TrackerFields DEF SoundTracker
<1> QED BY <1>1, <1>3, <1>5

(* What a step of the cluster, a player or an operator leaves alone. *)
OnlyPod(w) ==
  /\ UNCHANGED <<pending, op, lost>>
  /\ \A v \in Worlds \ {w} : pod'[v] = pod[v]

LEMMA PlayerMovesFacts ==
  ASSUME TypeInv, NEW w \in Worlds, NEW who \in People, PlayerMoves(w, who)
  PROVE  /\ TypeInv' /\ OnlyPod(w) /\ UNCHANGED <<tracker, config, clock>>
         /\ pod[w].up /\ pod'[w].up /\ pod'[w].startedAt = pod[w].startedAt
         /\ pod'[w].rolled = pod[w].rolled
         /\ \E l \in Line : pod'[w].log = Append(pod[w].log, l)
<1> DEFINE l == [who |-> who, joined |-> who \notin Online(w)]
           c == [pod[w] EXCEPT !.log = Append(pod[w].log, l)]
<1>1. /\ pod[w].up /\ UNCHANGED <<pending, op, tracker, config, clock, lost>>
      /\ pod' = [pod EXCEPT ![w].log = Append(@, l)]
  BY DEF PlayerMoves
<1>2. pod' = [pod EXCEPT ![w] = c] /\ pod[w] \in Pods /\ SoundPod(w)
  BY <1>1 DEF TypeInv, PodOK
<1>3. l \in Line
  <2>1. (who \notin Online(w)) \in BOOLEAN
    OBVIOUS
  <2> QED BY <2>1 DEF Line
<1> HIDE DEF l
<1>4. pod[w].log \in Seq(Line)
  BY <1>2 DEF Pods
<1>5. Append(pod[w].log, l) \in Seq(Line)
  BY <1>3, <1>4
<1>6. /\ c \in Pods /\ c.up = pod[w].up /\ c.startedAt = pod[w].startedAt /\ c.rolled = pod[w].rolled
      /\ c.log = Append(pod[w].log, l)
  BY <1>2, <1>5 DEF Pods
<1> HIDE DEF c
<1>7. clock \in Nat /\ clock' \in Nat /\ clock <= clock' /\ ClockOK'
  BY <1>1 DEF TypeInv, ClockOK
<1>8. c.startedAt \in 1 .. clock'
  BY <1>1, <1>2, <1>6 DEF SoundPod
<1>9. PodOK' /\ pod'[w] = c /\ \A v \in Worlds \ {w} : pod'[v] = pod[v]
  BY <1>1, <1>2, <1>6, <1>7, <1>8, PodFields DEF TypeInv
<1>10. \A v \in Worlds : pod[v].up => pod'[v].up /\ Len(pod[v].log) <= Len(pod'[v].log)
  <2>1. Len(pod[w].log) <= Len(pod'[w].log)
    BY <1>3, <1>4, <1>6, <1>9
  <2>2. \A v \in Worlds : pod[v].log \in Seq(Line)
    BY DEF TypeInv, PodOK, Pods
  <2>3. \A v \in Worlds : Len(pod[v].log) \in Nat
    BY <2>2
  <2> QED BY <1>1, <1>6, <1>9, <2>1, <2>3
<1>11. TrackerOK'
  BY <1>1, <1>9, <1>10, FollowedStay DEF TypeInv
<1> QED BY <1>1, <1>3, <1>6, <1>7, <1>9, <1>11, PendingStays, OpStays, ConfigStays DEF TypeInv, OnlyPod

LEMMA PodStopsFacts ==
  ASSUME TypeInv, NEW w \in Worlds, PodStops(w)
  PROVE  /\ TypeInv' /\ OnlyPod(w) /\ UNCHANGED <<config, clock>>
         /\ ~pod'[w].up /\ pod'[w].startedAt = pod[w].startedAt /\ pod'[w].log = <<>>
         /\ \A v \in Worlds :
              /\ tracker'[v].live = tracker[v].live /\ tracker'[v].settled = tracker[v].settled
              /\ tracker'[v].online = tracker[v].online /\ tracker'[v].src = tracker[v].src
              /\ tracker'[v].run = tracker[v].run /\ tracker'[v].read = tracker[v].read
              /\ tracker'[v].backlog = tracker[v].backlog
              /\ tracker'[v].stream # "none" <=> tracker[v].stream # "none"
<1> DEFINE c == [pod[w] EXCEPT !.up = FALSE, !.rolled = FALSE, !.log = <<>>]
           followed(v) == tracker[v].stream = "open" /\ tracker[v].src = w
           t(v) == IF followed(v) THEN [tracker[v] EXCEPT !.stream = "ended"] ELSE tracker[v]
<1>1. /\ UNCHANGED <<pending, op, config, clock, lost>>
      /\ pod' = [pod EXCEPT ![w] = c] /\ tracker' = [v \in Worlds |-> t(v)]
  BY DEF PodStops, TypeInv, PodOK
<1>2. pod[w] \in Pods /\ SoundPod(w)
  BY DEF TypeInv, PodOK
<1>3. <<>> \in Seq(Line)
  OBVIOUS
<1>4. c \in Pods /\ ~c.up /\ ~c.rolled /\ c.log = <<>> /\ c.startedAt = pod[w].startedAt
  BY <1>2, <1>3 DEF Pods
<1> HIDE DEF c
<1>5. clock \in Nat /\ clock' \in Nat /\ clock <= clock' /\ ClockOK'
  BY <1>1 DEF TypeInv, ClockOK
<1>6. c.startedAt \in 1 .. clock'
  BY <1>1, <1>2, <1>4 DEF SoundPod
<1>7. PodOK' /\ pod'[w] = c /\ \A v \in Worlds \ {w} : pod'[v] = pod[v]
  BY <1>1, <1>4, <1>5, <1>6, PodFields DEF TypeInv
<1>8. ASSUME NEW v \in Worlds
      PROVE  /\ t(v) \in Trackers
             /\ t(v).live = tracker[v].live /\ t(v).settled = tracker[v].settled
             /\ t(v).online = tracker[v].online /\ t(v).src = tracker[v].src
             /\ t(v).run = tracker[v].run /\ t(v).read = tracker[v].read
             /\ t(v).backlog = tracker[v].backlog
             /\ t(v).stream = IF followed(v) THEN "ended" ELSE tracker[v].stream
  <2>1. tracker[v] \in Trackers
    BY DEF TypeInv, TrackerOK
  <2> HIDE DEF followed
  <2> QED BY <2>1 DEF Trackers
<1>9. \A v \in Worlds : tracker'[v] = t(v)
  BY <1>1
<1>10. tracker' \in [Worlds -> Trackers]
  BY <1>1, <1>8
<1> HIDE DEF t
<1>11. ASSUME NEW v \in Worlds PROVE SoundTracker(v)'
  <2>1. SoundTracker(v)
    BY DEF TypeInv, TrackerOK
  <2>2. tracker'[v].live <=> tracker'[v].stream # "none"
    BY <1>8, <1>9, <2>1 DEF SoundTracker
  <2>3. tracker'[v].stream = "open" => tracker[v].stream = "open" /\ tracker[v].src # w
    BY <1>8, <1>9
  <2> QED BY <1>7, <1>8, <1>9, <2>1, <2>2, <2>3 DEF SoundTracker
<1>12. TrackerOK'
  BY <1>10, <1>11 DEF TrackerOK
<1>13. \A v \in Worlds : tracker'[v].stream # "none" <=> tracker[v].stream # "none"
  BY <1>8, <1>9
<1> QED BY <1>1, <1>4, <1>5, <1>7, <1>8, <1>9, <1>12, <1>13, PendingStays, OpStays, ConfigStays
        DEF TypeInv, OnlyPod

LEMMA PodStartsFacts ==
  ASSUME TypeInv, NEW w \in Worlds, PodStarts(w)
  PROVE  /\ TypeInv' /\ OnlyPod(w) /\ UNCHANGED tracker
         /\ clock' = clock + 1 /\ pod'[w].startedAt = clock + 1 /\ pod'[w].up
         /\ ~pod[w].up /\ pod'[w].log = pod[w].log
         /\ \A v \in Worlds \ {w} : config'[v] = config[v]
         /\ config'[w].committed = config[w].committed /\ config'[w].synced = config[w].synced
         /\ config'[w].loaded = config[w].synced /\ config'[w].requested = config[w].requested
<1> DEFINE c == [pod[w] EXCEPT !.up = TRUE, !.startedAt = clock + 1]
           d == [config[w] EXCEPT !.loaded = config[w].synced]
<1>1. /\ ~pod[w].up /\ clock' = clock + 1 /\ pod' = [pod EXCEPT ![w] = c]
      /\ config' = [config EXCEPT ![w] = d] /\ UNCHANGED <<pending, op, tracker, lost>>
  BY DEF PodStarts, TypeInv, PodOK, ConfigOK
<1>2. pod[w] \in Pods /\ config[w] \in Configs /\ SoundConfig(w)
  BY DEF TypeInv, PodOK, ConfigOK
<1>3. clock \in Nat /\ clock' \in Nat /\ clock <= clock' /\ ClockOK' /\ clock + 1 \in 1 .. clock'
  BY <1>1 DEF TypeInv, ClockOK
<1>4. c \in Pods /\ c.up /\ c.startedAt = clock + 1 /\ c.log = pod[w].log
  <2>1. clock + 1 \in Nat
    BY <1>3
  <2> QED BY <1>2, <2>1 DEF Pods
<1>5. /\ d \in Configs /\ d.committed = config[w].committed /\ d.synced = config[w].synced
      /\ d.loaded = config[w].synced /\ d.requested = config[w].requested
  BY <1>2 DEF Configs
<1> HIDE DEF c, d
<1>6. PodOK' /\ pod'[w] = c /\ \A v \in Worlds \ {w} : pod'[v] = pod[v]
  BY <1>1, <1>3, <1>4, PodFields DEF TypeInv
<1>7. config' \in [Worlds -> Configs] /\ config'[w] = d /\ \A v \in Worlds \ {w} : config'[v] = config[v]
  BY <1>1, <1>5 DEF TypeInv, ConfigOK
<1>8. ConfigOK'
  <2>1. d.loaded <= d.synced /\ d.synced <= d.committed
    BY <1>2, <1>5 DEF Configs, SoundConfig
  <2> QED BY <1>7, <2>1 DEF ConfigOK, SoundConfig, TypeInv
<1>9. \A v \in Worlds : pod[v].up => pod'[v].up /\ Len(pod[v].log) <= Len(pod'[v].log)
  <2>1. \A v \in Worlds : pod[v].log \in Seq(Line)
    BY DEF TypeInv, PodOK, Pods
  <2>2. \A v \in Worlds : Len(pod[v].log) \in Nat
    BY <2>1
  <2> QED BY <1>1, <1>6, <2>2
<1>10. TrackerOK'
  BY <1>1, <1>6, <1>9, FollowedStay DEF TypeInv
<1> QED BY <1>1, <1>3, <1>4, <1>5, <1>6, <1>7, <1>8, <1>10, PendingStays, OpStays DEF TypeInv, OnlyPod

LEMMA SyncFacts ==
  ASSUME TypeInv, NEW w \in Worlds, Sync(w)
  PROVE  /\ TypeInv' /\ UNCHANGED <<pending, op, tracker, pod, clock, lost>>
         /\ config[w].synced # config[w].committed
<1> DEFINE d == [config[w] EXCEPT !.synced = config[w].committed]
<1>1. /\ config[w].synced < config[w].committed /\ UNCHANGED <<pending, op, tracker, pod, clock, lost>>
      /\ config' = [config EXCEPT ![w] = d]
  BY DEF Sync, TypeInv, ConfigOK
<1>2. config[w] \in Configs /\ SoundConfig(w)
  BY DEF TypeInv, ConfigOK
<1>3. d \in Configs /\ d.committed = config[w].committed /\ d.synced = config[w].committed /\ d.loaded = config[w].loaded
  BY <1>2 DEF Configs
<1> HIDE DEF d
<1>4. config' \in [Worlds -> Configs] /\ config'[w] = d /\ \A v \in Worlds \ {w} : config'[v] = config[v]
  BY <1>1, <1>3 DEF TypeInv, ConfigOK
<1>5. d.loaded <= d.synced /\ d.synced <= d.committed /\ config[w].synced # config[w].committed
  BY <1>1, <1>2, <1>3 DEF Configs, SoundConfig
<1>6. ConfigOK'
  BY <1>4, <1>5 DEF ConfigOK, SoundConfig, TypeInv
<1> QED BY <1>1, <1>5, <1>6, ClockStays, PendingStays, PodStays, TrackerStays, OpStays DEF TypeInv

LEMMA OperateFacts ==
  ASSUME TypeInv, NEW w \in Worlds, Operate(w)
  PROVE  /\ TypeInv' /\ OnlyPod(w) /\ UNCHANGED <<tracker, config, clock>>
         /\ pod'[w].up = pod[w].up /\ pod'[w].startedAt = pod[w].startedAt /\ pod'[w].log = pod[w].log
         /\ pod[w].rolled => pod'[w].rolled
<1>1. /\ UNCHANGED <<pending, op, tracker, config, clock, lost>>
      /\ \/ pod[w].up /\ pod' = [pod EXCEPT ![w].rolled = TRUE]
         \/ pod' = [pod EXCEPT ![w].desired = ~@]
         \/ pod' = [pod EXCEPT ![w].exists = FALSE, ![w].desired = FALSE]
  BY DEF Operate, RestartInstance, StartOrStopInstance, DeleteInstance
<1>2. pod[w] \in Pods /\ SoundPod(w) /\ pod \in [Worlds -> Pods]
  BY DEF TypeInv, PodOK
<1>3. PICK c \in Pods : /\ pod' = [pod EXCEPT ![w] = c]
                        /\ c.up = pod[w].up /\ c.startedAt = pod[w].startedAt /\ c.log = pod[w].log
                        /\ pod[w].rolled => c.rolled
                        /\ c.up \/ ~c.rolled
  <2>1. CASE pod[w].up /\ pod' = [pod EXCEPT ![w].rolled = TRUE]
    <3> DEFINE c == [pod[w] EXCEPT !.rolled = TRUE]
    <3>1. /\ c \in Pods /\ c.up = pod[w].up /\ c.startedAt = pod[w].startedAt /\ c.log = pod[w].log
          /\ c.rolled
      BY <1>2 DEF Pods
    <3>2. pod' = [pod EXCEPT ![w] = c]
      BY <1>2, <2>1
    <3> HIDE DEF c
    <3> QED BY <2>1, <3>1, <3>2
  <2>2. CASE pod' = [pod EXCEPT ![w].desired = ~@]
    <3> DEFINE c == [pod[w] EXCEPT !.desired = ~pod[w].desired]
    <3>1. /\ c \in Pods /\ c.up = pod[w].up /\ c.startedAt = pod[w].startedAt /\ c.log = pod[w].log
          /\ c.rolled = pod[w].rolled
      <4>1. (~pod[w].desired) \in BOOLEAN
        OBVIOUS
      <4> QED BY <1>2, <4>1 DEF Pods
    <3>2. pod' = [pod EXCEPT ![w] = c]
      BY <1>2, <2>2
    <3> HIDE DEF c
    <3> QED BY <1>2, <3>1, <3>2 DEF SoundPod
  <2>3. CASE pod' = [pod EXCEPT ![w].exists = FALSE, ![w].desired = FALSE]
    <3> DEFINE c == [pod[w] EXCEPT !.exists = FALSE, !.desired = FALSE]
    <3>1. /\ c \in Pods /\ c.up = pod[w].up /\ c.startedAt = pod[w].startedAt /\ c.log = pod[w].log
          /\ c.rolled = pod[w].rolled
      BY <1>2 DEF Pods
    <3>2. pod' = [pod EXCEPT ![w] = c]
      BY <1>2, <2>3
    <3> HIDE DEF c
    <3> QED BY <1>2, <3>1, <3>2 DEF SoundPod
  <2> QED BY <1>1, <2>1, <2>2, <2>3
<1>4. clock \in Nat /\ clock' \in Nat /\ clock <= clock' /\ ClockOK'
  BY <1>1 DEF TypeInv, ClockOK
<1>5. c.startedAt \in 1 .. clock' /\ (c.up \/ (~c.rolled /\ c.log = <<>>))
  BY <1>1, <1>2, <1>3 DEF SoundPod
<1>6. PodOK' /\ pod'[w] = c /\ \A v \in Worlds \ {w} : pod'[v] = pod[v]
  BY <1>3, <1>4, <1>5, PodFields DEF TypeInv
<1>7. \A v \in Worlds : pod[v].up => pod'[v].up /\ Len(pod[v].log) <= Len(pod'[v].log)
  <2>1. \A v \in Worlds : pod[v].log \in Seq(Line)
    BY DEF TypeInv, PodOK, Pods
  <2>2. \A v \in Worlds : Len(pod[v].log) \in Nat
    BY <2>1
  <2> QED BY <1>3, <1>6, <2>2
<1>8. TrackerOK'
  BY <1>1, <1>6, <1>7, FollowedStay DEF TypeInv
<1> QED BY <1>1, <1>3, <1>4, <1>6, <1>8, PendingStays, OpStays, ConfigStays DEF TypeInv, OnlyPod

LEMMA AgrelhaRestartsFacts ==
  ASSUME TypeInv, AgrelhaRestarts
  PROVE  /\ TypeInv' /\ UNCHANGED <<pod, config, clock, lost>> /\ "crash" \in Races
         /\ \A p \in Procs : op'[p] = Idle
         /\ \A w \in Worlds : tracker'[w].stream = "none"
<1>1. /\ "crash" \in Races /\ UNCHANGED <<pod, config, clock, lost>>
      /\ pending' = [w \in Worlds |-> {}] /\ op' = [p \in Procs |-> Idle]
      /\ tracker' = [w \in Worlds |-> Untracked]
  BY DEF AgrelhaRestarts
<1>2. PendingOK'
  BY <1>1 DEF PendingOK
<1>3. \A p \in Procs : SoundCall(Idle, p, clock)
  BY IdleIsACall, RestartQueueAssumption DEF SoundCall, StepsOf, TypeInv, ClockOK
<1>4. OpOK'
  BY <1>1, <1>3, IdleIsACall DEF OpOK
<1>5. Untracked \in Trackers /\ ~Untracked.live /\ Untracked.stream = "none"
  BY DEF Untracked, Trackers
<1>6. TrackerOK'
  BY <1>1, <1>5 DEF TrackerOK, SoundTracker
<1> QED BY <1>1, <1>2, <1>4, <1>5, <1>6, ClockStays, PodStays, ConfigStays DEF TypeInv

LEMMA StepFacts ==
  ASSUME TypeInv, NEW p \in Procs, Step(p)
  PROVE  TypeInv'
BY RequestRestartFacts, NextEntryFacts, ResolveFacts, AppliedByRestartFacts, AskPlayersFacts,
   RollFacts, CancelFacts DEF Step

LEMMA TypeStep ==
  ASSUME TypeInv, [Next]_vars
  PROVE  TypeInv'
<1>0. Tick \in Procs /\ Handlers \subseteq Procs
  BY DEF Procs
<1>1. CASE UNCHANGED vars
  BY <1>1, ClockStays, PendingStays, PodStays, TrackerStays, ConfigStays, OpStays DEF vars, TypeInv
<1>2. CASE \E p \in Procs : Step(p)
  BY <1>2, StepFacts
<1>3. CASE ListAll(Tick, "tick") \/ \E p \in Handlers : ListAll(p, "settle")
  BY <1>0, <1>3, ListAllFacts
<1>4. CASE \E p \in Handlers, w \in Worlds : Commit(p, w) \/ ForceRestart(p, w)
  BY <1>0, <1>4, CommitFacts, ForceRestartFacts
<1>5. CASE \E w \in Worlds : Track(w) \/ StreamLost(w)
  BY <1>5, BeginFacts, ScanFacts, SettleFacts, DropFacts, StreamLostFacts DEF Track
<1>6. CASE \E w \in Worlds : Cluster(w)
  BY <1>6, PodStopsFacts, PodStartsFacts, SyncFacts DEF Cluster
<1>7. CASE \E w \in Worlds : Operate(w)
  BY <1>7, OperateFacts
<1>8. CASE \E w \in Worlds, who \in People : PlayerMoves(w, who)
  BY <1>8, PlayerMovesFacts
<1>9. CASE AgrelhaRestarts
  BY <1>9, AgrelhaRestartsFacts
<1> QED BY <1>1, <1>2, <1>3, <1>4, <1>5, <1>6, <1>7, <1>8, <1>9 DEF Next

LEMMA TypeInit ==
  ASSUME Init
  PROVE  TypeInv
<1>1. PendingOK
  BY DEF Init, PendingOK
<1>2. ClockOK /\ clock = 1
  BY RestartQueueAssumption DEF Init, ClockOK
<1>3. OpOK
  <2>1. \A p \in Procs : SoundCall(Idle, p, 1)
    BY IdleIsACall, RestartQueueAssumption DEF SoundCall, StepsOf
  <2> QED BY <1>2, <2>1, IdleIsACall DEF Init, OpOK
<1>4. TrackerOK
  <2>1. Untracked \in Trackers /\ ~Untracked.live /\ Untracked.stream = "none"
    BY DEF Untracked, Trackers
  <2> QED BY <2>1 DEF Init, TrackerOK, SoundTracker
<1>5. PodOK
  <2> DEFINE c == [exists |-> TRUE, desired |-> TRUE, up |-> TRUE, rolled |-> FALSE,
                   startedAt |-> 1, log |-> <<>>]
  <2>1. <<>> \in Seq(Line)
    OBVIOUS
  <2>2. c \in Pods /\ c.up /\ c.startedAt = 1
    BY <2>1 DEF Pods
  <2>3. pod = [w \in Worlds |-> c]
    BY DEF Init
  <2> HIDE DEF c
  <2> QED BY <1>2, <2>2, <2>3 DEF PodOK, SoundPod
<1>6. ConfigOK
  BY DEF Init, ConfigOK, SoundConfig, Configs
<1> QED BY <1>1, <1>2, <1>3, <1>4, <1>5, <1>6 DEF TypeInv

(* The state is well typed, every call is at a step of its kind with a      *)
(* world in hand when that step needs one, no start or request is newer     *)
(* than the clock, and every log that is followed belongs to a pod that     *)
(* runs: queue.go and tracker.go never act on a world they do not have.     *)
THEOREM RestartQueueTypeCorrect == Spec => []RestartQueueTypeOK
<1>1. Init => TypeInv
  BY TypeInit
<1>2. TypeInv /\ [Next]_vars => TypeInv'
  BY TypeStep
<1>3. TypeInv => RestartQueueTypeOK
  BY TypeParts DEF TypeInv
<1> QED BY <1>1, <1>2, <1>3, PTL DEF Spec

-----------------------------------------------------------------------------
(* No change is forgotten *)

(* The pod of w has all that was requested for it; it has, if it started    *)
(* after s.                                                                 *)
HasAll(w) == config[w].requested <= config[w].loaded
HasAllSince(w, s) == pod[w].startedAt > s => HasAll(w)

(* Commits reach the cluster at once, and no restart is requested for a     *)
(* change that was not committed.                                           *)
ConfigReaches ==
  \A w \in Worlds : config[w].synced = config[w].committed /\ config[w].requested <= config[w].committed

(* A world that lacks a change is in the queue or about to be restarted.    *)
MustNotForget ==
  \A w \in Worlds : pod[w].up => HasAll(w) \/ IsPending(w) \/ pod[w].rolled

(* A start after the Since of an entry, in the queue or in a goroutine's    *)
(* hands, is a restart that applied it; a goroutine that is about to cancel *)
(* knows of such a restart.                                                 *)
EntriesCount == \A w \in Worlds : \A e \in pending[w] : HasAllSince(w, e.since)
CallCounts(p) ==
  /\ op[p].kind = "save" => op[p].change <= config[op[p].w].committed
  /\ \A t \in op[p].todo : HasAllSince(t.w, t.since)
  /\ op[p].pc \in {"resolve", "status"} => HasAllSince(op[p].w, op[p].since)
  /\ op[p].pc = "cancel" => (pod[op[p].w].up => pod[op[p].w].rolled \/ HasAll(op[p].w))
CallsCount == \A p \in Procs : CallCounts(p)

ForgetInv == ConfigReaches /\ MustNotForget /\ EntriesCount /\ CallsCount

NothingAtABadMoment == Races \cap {"overlap", "merge", "lag", "crash"} = {}

(* A step takes no change from the running pod of w: it is the same pod, or *)
(* one that has all.                                                        *)
NothingTaken(w) ==
  /\ config[w].committed <= config'[w].committed
  /\ HasAll(w) => HasAll(w)'
  /\ pod'[w].startedAt = pod[w].startedAt \/ HasAll(w)'
  /\ pod'[w].up => HasAll(w)' \/ (pod[w].up /\ (pod[w].rolled => pod'[w].rolled))

LEMMA CountsStay ==
  ASSUME NEW w \in Worlds, NEW s, HasAllSince(w, s), NothingTaken(w)
  PROVE  HasAllSince(w, s)'
BY DEF HasAllSince, NothingTaken

LEMMA CallCountsStays ==
  ASSUME TypeInv, TypeInv', NEW q \in Procs, CallCounts(q), op'[q] = op[q],
         \A w \in Worlds : NothingTaken(w) \/ (w # op[q].w /\ \A t \in op[q].todo : t.w # w)
  PROVE  CallCounts(q)'
<1>1. op[q] \in Calls /\ op[q].w \in Worlds \cup {NoWorld} /\ \A t \in op[q].todo : t.w \in Worlds
  BY DEF TypeInv, OpOK, Calls
<1>2. op[q].pc \notin {"idle", "next"} => op[q].w \in Worlds /\ NothingTaken(op[q].w)
  BY StepKinds DEF TypeInv
<1>3. op'[q].kind = "save" => op'[q].change <= config'[op'[q].w].committed
  <2>1. op[q].kind = "save" => op[q].pc = "request"
    BY DEF TypeInv, OpOK, SoundCall, StepsOf
  <2>2. ASSUME op[q].kind = "save" PROVE op[q].change <= config'[op[q].w].committed
    <3>1. /\ op[q].w \in Worlds /\ op[q].change <= config[op[q].w].committed
          /\ config[op[q].w].committed <= config'[op[q].w].committed
      BY <1>2, <2>1, <2>2 DEF CallCounts, NothingTaken
    <3>2. op[q].change \in Nat /\ config[op[q].w] \in Configs /\ config'[op[q].w] \in Configs
      BY <1>1, <3>1, RestartQueueAssumption DEF Calls, TypeInv, ConfigOK
    <3>3. config[op[q].w].committed \in Nat /\ config'[op[q].w].committed \in Nat
      BY <3>2 DEF Configs
    <3> QED BY <3>1, <3>2, <3>3
  <2> QED BY <2>2
<1>4. ASSUME NEW t \in op'[q].todo PROVE HasAllSince(t.w, t.since)'
  BY <1>1, <1>4, CountsStay DEF CallCounts
<1>5. ASSUME NEW w \in Worlds, w = op[q].w, op[q].pc \in {"resolve", "status"}
      PROVE  pod'[w].startedAt > op[q].since => HasAll(w)'
  BY <1>2, <1>5 DEF CallCounts, HasAllSince, NothingTaken
<1>6. ASSUME NEW w \in Worlds, w = op[q].w, op[q].pc = "cancel", pod'[w].up
      PROVE  pod'[w].rolled \/ HasAll(w)'
  BY <1>2, <1>6 DEF CallCounts, NothingTaken
<1> QED BY <1>2, <1>3, <1>4, <1>5, <1>6 DEF CallCounts, HasAllSince, HasAll

(* The worlds where neither the config nor the pod changes. *)
LEMMA SameWorld ==
  ASSUME TypeInv, NEW w \in Worlds, config'[w] = config[w],
         pod'[w].startedAt = pod[w].startedAt, pod'[w].up => pod[w].up, pod[w].rolled => pod'[w].rolled
  PROVE  NothingTaken(w)
<1>1. config[w].committed \in Nat
  BY DEF TypeInv, ConfigOK, Configs
<1> QED BY <1>1 DEF NothingTaken, HasAll

(* The call of p goes on, the entries stay and no pod or config changes for *)
(* the worse.                                                               *)
LEMMA CallStep ==
  ASSUME TypeInv, TypeInv', ForgetInv, NEW p \in Procs, Others(p), UNCHANGED config,
         \A w \in Worlds : /\ pod'[w].startedAt = pod[w].startedAt /\ pod'[w].up = pod[w].up
                           /\ pod[w].rolled => pod'[w].rolled,
         \A w \in Worlds : IsPending(w) => IsPending(w)',
         \A w \in Worlds : \A e \in pending'[w] : \E f \in pending[w] : e.since = f.since,
         CallCounts(p)'
  PROVE  ForgetInv'
<1>1. \A w \in Worlds : NothingTaken(w)
  BY SameWorld
<1>2. ConfigReaches'
  BY DEF ConfigReaches, ForgetInv
<1>3. MustNotForget'
  BY DEF MustNotForget, ForgetInv, HasAll
<1>4. EntriesCount'
  <2>1. ASSUME NEW w \in Worlds, NEW e \in pending'[w] PROVE HasAllSince(w, e.since)'
    BY <1>1, <2>1, CountsStay DEF ForgetInv, EntriesCount
  <2> QED BY <2>1 DEF EntriesCount, HasAllSince, HasAll
<1>5. CallsCount'
  <2>1. ASSUME NEW q \in Procs PROVE CallCounts(q)'
    BY <1>1, CallCountsStays DEF Others, ForgetInv, CallsCount
  <2> QED BY <2>1 DEF CallsCount
<1> QED BY <1>2, <1>3, <1>4, <1>5 DEF ForgetInv

(* What the next step of a call must know. *)
LEMMA IdleCounts ==
  ASSUME NEW p \in Procs, op'[p] = Idle
  PROVE  CallCounts(p)'
BY IdleIsACall DEF CallCounts

LEMMA LetsGoCounts ==
  ASSUME TypeInv, TypeInv', ForgetInv, NEW p \in Procs, LetsGo(p), op[p].kind # "save",
         \A w \in Worlds : NothingTaken(w)
  PROVE  CallCounts(p)'
<1>1. CASE op[p].kind = "force"
  BY <1>1, IdleCounts DEF LetsGo, Ends
<1>2. CASE op[p].kind # "force"
  <2>1. op'[p].kind # "save" /\ op'[p].pc = "next" /\ op'[p].todo = op[p].todo
    BY <1>2 DEF LetsGo, Keeps
  <2>2. \A t \in op[p].todo : t.w \in Worlds /\ HasAllSince(t.w, t.since)
    BY DEF TypeInv, OpOK, Calls, ForgetInv, CallsCount, CallCounts
  <2>3. ASSUME NEW t \in op'[p].todo PROVE HasAllSince(t.w, t.since)'
    BY <2>1, <2>2, CountsStay
  <2> QED BY <2>1, <2>3 DEF CallCounts, HasAllSince, HasAll
<1> QED BY <1>1, <1>2

LEMMA KeepsCounts ==
  ASSUME TypeInv, TypeInv', ForgetInv, NEW p \in Procs, Keeps(p), op[p].kind # "save",
         op'[p].w = op[p].w, op[p].pc \notin {"idle", "next"}, op'[p].pc \notin {"idle", "next"},
         op'[p].pc = "resolve" => op[p].pc = "resolve",
         op'[p].pc = "status" => op[p].pc = "resolve",
         \A w \in Worlds : op'[p].pc = "cancel" /\ w = op[p].w /\ pod'[w].up
                           => pod'[w].rolled \/ HasAll(w)',
         \A w \in Worlds : NothingTaken(w)
  PROVE  CallCounts(p)'
<1>1. op[p].w \in Worlds
  BY StepKinds DEF TypeInv
<1>2. op'[p].kind # "save" /\ op'[p].todo = op[p].todo /\ op'[p].since = op[p].since
  BY DEF Keeps
<1>3. \A t \in op[p].todo : t.w \in Worlds /\ HasAllSince(t.w, t.since)
  BY DEF TypeInv, OpOK, Calls, ForgetInv, CallsCount, CallCounts
<1>4. ASSUME NEW t \in op'[p].todo PROVE HasAllSince(t.w, t.since)'
  BY <1>2, <1>3, CountsStay
<1>5. ASSUME NEW w \in Worlds, w = op[p].w, op'[p].pc \in {"resolve", "status"}
      PROVE  pod'[w].startedAt > op[p].since => HasAll(w)'
  BY <1>5 DEF ForgetInv, CallsCount, CallCounts, NothingTaken, HasAllSince
<1> QED BY <1>1, <1>2, <1>4, <1>5 DEF CallCounts, HasAllSince, HasAll

LEMMA ForgetRequest ==
  ASSUME TypeInv, ForgetInv, NothingAtABadMoment, NEW p \in Procs, RequestRestart(p)
  PROVE  ForgetInv'
<1>1. PICK w \in Worlds : w = op[p].w
  BY RequestRestartFacts
<1>2. /\ TypeInv' /\ Others(p) /\ op'[p] = Idle /\ UNCHANGED pod
      /\ op[p].kind = "save" /\ ~InHand(w) /\ pending'[w] # {}
      /\ \A e \in pending[w] : pod[w].startedAt < e.since
      /\ \A v \in Worlds : IsPending(v) => IsPending(v)'
      /\ \A v \in Worlds : \A e \in pending'[v] : e \in pending[v] \/ (v = w /\ e.since = clock + 1)
  BY <1>1, RequestRestartFacts DEF Ends, NothingAtABadMoment
<1>3. /\ \A v \in Worlds \ {w} : config'[v] = config[v]
      /\ config'[w].committed = config[w].committed /\ config'[w].synced = config[w].synced
      /\ config'[w].loaded = config[w].loaded
      /\ config'[w].requested \in {config[w].requested, op[p].change}
  BY <1>1, RequestRestartFacts
<1>4. op[p].change <= config[w].committed
  BY <1>1, <1>2 DEF ForgetInv, CallsCount, CallCounts
<1>5. ConfigReaches'
  BY <1>3, <1>4 DEF ConfigReaches, ForgetInv
<1>6. \A v \in Worlds \ {w} : NothingTaken(v)
  BY <1>2, <1>3, SameWorld
<1>7. MustNotForget'
  <2>1. \A v \in Worlds \ {w} : HasAll(v) => HasAll(v)'
    BY <1>6 DEF NothingTaken
  <2> QED BY <1>2, <2>1 DEF MustNotForget, ForgetInv, IsPending
<1>8. EntriesCount'
  <2>1. ASSUME NEW v \in Worlds \ {w}, NEW e \in pending'[v] PROVE HasAllSince(v, e.since)'
    BY <1>2, <1>6, <2>1, CountsStay DEF ForgetInv, EntriesCount
  <2>2. ASSUME NEW e \in pending'[w] PROVE ~(pod'[w].startedAt > e.since)
    <3>1. pod[w].startedAt \in Nat /\ pod[w].startedAt <= clock /\ clock \in Nat
      BY DEF TypeInv, PodOK, Pods, SoundPod, ClockOK
    <3>2. CASE e.since = clock + 1
      BY <1>2, <3>1, <3>2
    <3>3. CASE e \in pending[w]
      <4>1. e.since \in Nat /\ pod[w].startedAt < e.since
        BY <1>2, <3>3 DEF TypeInv, PendingOK, Pending
      <4> QED BY <1>2, <3>1, <4>1
    <3> QED BY <1>2, <2>2, <3>2, <3>3
  <2> QED BY <2>1, <2>2 DEF EntriesCount, HasAllSince, HasAll
<1>9. CallsCount'
  <2>1. ASSUME NEW q \in Procs \ {p} PROVE CallCounts(q)'
    <3>0. op'[q] = op[q] /\ CallCounts(q)
      BY <1>2 DEF Others, ForgetInv, CallsCount
    <3>1. CASE op[q].kind \in {"tick", "settle", "force"}
      <4>1. w # op[q].w /\ \A t \in op[q].todo : t.w # w
        BY <1>2, <3>1 DEF InHand
      <4>2. \A v \in Worlds : NothingTaken(v) \/ (v # op[q].w /\ \A t \in op[q].todo : t.w # v)
        BY <1>6, <4>1
      <4> QED BY <1>2, <3>0, <4>2, CallCountsStays
    <3>2. CASE op[q].kind \in {"none", "save"}
      <4>1. op[q].pc \notin {"resolve", "status", "cancel"} /\ \A t \in op[q].todo : FALSE
        BY <3>2 DEF TypeInv, OpOK, SoundCall, StepsOf
      <4>2. op[q].kind = "save" => op[q].pc = "request" /\ op[q].w \in Worlds
        BY StepKinds DEF TypeInv, OpOK, SoundCall, StepsOf
      <4>3. op[q].kind = "save" => op[q].change <= config'[op[q].w].committed
        BY <1>3, <3>0, <4>2 DEF CallCounts
      <4> QED BY <3>0, <4>1, <4>3 DEF CallCounts
    <3> QED BY <3>1, <3>2, StepKinds DEF TypeInv, Kinds
  <2>2. CallCounts(p)'
    BY <1>2, IdleCounts
  <2> QED BY <2>1, <2>2 DEF CallsCount
<1> QED BY <1>5, <1>7, <1>8, <1>9 DEF ForgetInv

LEMMA ForgetCommit ==
  ASSUME TypeInv, ForgetInv, NothingAtABadMoment, NEW p \in Procs, NEW w \in Worlds, Commit(p, w)
  PROVE  ForgetInv'
<1>1. /\ TypeInv' /\ Others(p) /\ UNCHANGED <<pending, pod, clock>>
      /\ op'[p].kind = "save" /\ op'[p].pc = "request" /\ op'[p].todo = {} /\ op'[p].w = w
      /\ op'[p].change = config[w].committed + 1
      /\ \A v \in Worlds \ {w} : config'[v] = config[v]
      /\ config'[w].committed = config[w].committed + 1 /\ config'[w].synced = config[w].committed + 1
      /\ config'[w].loaded = config[w].loaded /\ config'[w].requested = config[w].requested
  BY CommitFacts DEF NothingAtABadMoment
<1>2. config[w].committed \in Nat /\ config[w].requested \in Nat
  BY DEF TypeInv, ConfigOK, Configs
<1>3. ConfigReaches'
  BY <1>1, <1>2 DEF ConfigReaches, ForgetInv
<1>4. \A v \in Worlds : NothingTaken(v)
  <2>1. NothingTaken(w)
    BY <1>1, <1>2 DEF NothingTaken, HasAll
  <2> QED BY <1>1, <2>1, SameWorld
<1>5. MustNotForget'
  BY <1>1, <1>4 DEF MustNotForget, ForgetInv, IsPending, NothingTaken
<1>6. EntriesCount'
  <2>1. ASSUME NEW v \in Worlds, NEW e \in pending'[v] PROVE HasAllSince(v, e.since)'
    BY <1>1, <1>4, <2>1, CountsStay DEF ForgetInv, EntriesCount
  <2> QED BY <2>1 DEF EntriesCount, HasAllSince, HasAll
<1>7. CallsCount'
  <2>1. ASSUME NEW q \in Procs \ {p} PROVE CallCounts(q)'
    BY <1>1, <1>4, CallCountsStays DEF Others, ForgetInv, CallsCount
  <2>2. CallCounts(p)'
    BY <1>1, <1>2 DEF CallCounts
  <2> QED BY <2>1, <2>2 DEF CallsCount
<1> QED BY <1>3, <1>5, <1>6, <1>7 DEF ForgetInv

LEMMA ForgetListAll ==
  ASSUME TypeInv, ForgetInv, NEW p \in Procs, NEW kind \in {"tick", "settle"}, kind = "tick" => p = Tick,
         ListAll(p, kind)
  PROVE  ForgetInv'
<1>1. /\ TypeInv' /\ Others(p) /\ UNCHANGED <<pending, pod, config>>
      /\ op'[p].pc = "next" /\ op'[p].kind = kind
      /\ \A t \in op'[p].todo : t.w \in Worlds /\ \E e \in pending[t.w] : t.since = e.since
  BY ListAllFacts
<1>2. ASSUME NEW t \in op'[p].todo PROVE HasAllSince(t.w, t.since)'
  <2>1. HasAllSince(t.w, t.since)
    BY <1>1, <1>2 DEF ForgetInv, EntriesCount
  <2> QED BY <1>1, <2>1 DEF HasAllSince, HasAll
<1>3. CallCounts(p)'
  BY <1>1, <1>2 DEF CallCounts
<1> QED BY <1>1, <1>3, CallStep DEF IsPending

LEMMA ForgetStep ==
  ASSUME TypeInv, ForgetInv, NothingAtABadMoment, NEW p \in Procs, Step(p)
  PROVE  ForgetInv'
<1>1. CASE RequestRestart(p)
  BY <1>1, ForgetRequest
<1>2. CASE NextEntry(p)
  <2>1. TypeInv' /\ UNCHANGED <<pending, pod, config>> /\ op[p].pc = "next" /\ Others(p)
    BY <1>2, NextEntryFacts DEF Ends
  <2>2. CASE Ends(p)
    BY <2>1, <2>2, CallStep, IdleCounts DEF Ends, IsPending
  <2>3. CASE ~Ends(p)
    <3>1. PICK t \in op[p].todo :
            /\ op'[p].w = t.w /\ op'[p].since = t.since /\ op'[p].kind = op[p].kind
            /\ op'[p].pc = "resolve" /\ op'[p].todo \subseteq op[p].todo
      BY <1>2, <2>3, NextEntryFacts
    <3>2. \A u \in op[p].todo : HasAllSince(u.w, u.since)
      BY DEF ForgetInv, CallsCount, CallCounts
    <3>3. op[p].kind # "save"
      BY <2>1, StepKinds DEF TypeInv
    <3>4. CallCounts(p)'
      BY <2>1, <3>1, <3>2, <3>3 DEF CallCounts, HasAllSince, HasAll
    <3> QED BY <2>1, <3>4, CallStep DEF IsPending
  <2> QED BY <2>2, <2>3
<1>3. CASE Resolve(p)
  <2>1. TypeInv' /\ SameEntries /\ UNCHANGED <<pod, config>> /\ op[p].pc = "resolve" /\ Continues(p, "status")
    BY <1>3, ResolveFacts
  <2>2. op[p].kind # "save" /\ \A w \in Worlds : NothingTaken(w)
    BY <2>1, SameWorld, StepKinds DEF TypeInv
  <2>3. CallCounts(p)'
    BY <2>1, <2>2, LetsGoCounts, KeepsCounts DEF Continues, Goes
  <2> QED BY <2>1, <2>3, CallStep DEF SameEntries, Continues, Goes, LetsGo, Keeps, Ends
<1>4. CASE AppliedByRestart(p)
  <2>1. /\ TypeInv' /\ UNCHANGED <<pending, pod, config>> /\ op[p].pc = "status" /\ op[p].w \in Worlds
        /\ \/ Goes(p, "cancel") /\ pod[op[p].w].startedAt > op[p].since
           \/ Continues(p, "players")
    BY <1>4, AppliedByRestartFacts
  <2>2. op[p].kind # "save" /\ \A w \in Worlds : NothingTaken(w)
    BY <2>1, SameWorld, StepKinds DEF TypeInv
  <2>3. CASE LetsGo(p)
    BY <2>1, <2>2, <2>3, LetsGoCounts, CallStep DEF IsPending, LetsGo, Keeps, Ends
  <2>4. CASE Goes(p, "players")
    BY <2>1, <2>2, <2>4, KeepsCounts, CallStep DEF IsPending, Goes, Keeps
  <2>5. CASE Goes(p, "cancel") /\ pod[op[p].w].startedAt > op[p].since
    <3>1. \A w \in Worlds : w = op[p].w => HasAll(w)'
      BY <2>1, <2>2, <2>5 DEF ForgetInv, CallsCount, CallCounts, HasAllSince, NothingTaken
    <3>2. CallCounts(p)'
      BY <2>1, <2>2, <2>5, <3>1, KeepsCounts DEF Goes
    <3> QED BY <2>1, <2>5, <3>2, CallStep DEF IsPending, Goes, Keeps
  <2> QED BY <2>1, <2>3, <2>4, <2>5 DEF Continues
<1>5. CASE AskPlayers(p)
  <2>1. /\ TypeInv' /\ SameEntries /\ UNCHANGED <<pod, config>> /\ op[p].pc = "players"
        /\ LetsGo(p) \/ (Keeps(p) /\ op'[p].pc = "roll" /\ op'[p].w = op[p].w)
    BY <1>5, AskPlayersFacts
  <2>2. op[p].kind # "save" /\ \A w \in Worlds : NothingTaken(w)
    BY <2>1, SameWorld, StepKinds DEF TypeInv
  <2>3. CallCounts(p)'
    BY <2>1, <2>2, LetsGoCounts, KeepsCounts
  <2> QED BY <2>1, <2>3, CallStep DEF SameEntries, LetsGo, Keeps, Ends
<1>6. CASE Roll(p)
  <2>1. /\ TypeInv' /\ SameEntries /\ UNCHANGED config /\ op[p].pc = "roll" /\ op[p].w \in Worlds
        /\ \A v \in Worlds : /\ pod'[v].up = pod[v].up /\ pod'[v].startedAt = pod[v].startedAt
                             /\ pod[v].rolled => pod'[v].rolled
        /\ \/ Goes(p, "cancel") /\ (pod'[op[p].w].up => pod'[op[p].w].rolled)
           \/ LetsGo(p)
    BY <1>6, RollFacts
  <2>2. op[p].kind # "save" /\ \A w \in Worlds : NothingTaken(w)
    BY <2>1, SameWorld, StepKinds DEF TypeInv
  <2>3. CASE LetsGo(p)
    BY <2>1, <2>2, <2>3, LetsGoCounts, CallStep DEF SameEntries, LetsGo, Keeps, Ends
  <2>4. CASE Goes(p, "cancel") /\ (pod'[op[p].w].up => pod'[op[p].w].rolled)
    <3>1. CallCounts(p)'
      BY <2>1, <2>2, <2>4, KeepsCounts DEF Goes
    <3> QED BY <2>1, <2>4, <3>1, CallStep DEF SameEntries, Goes, Keeps
  <2> QED BY <2>1, <2>3, <2>4
<1>7. CASE Cancel(p)
  <2>1. /\ TypeInv' /\ UNCHANGED <<pod, config>> /\ op[p].pc = "cancel" /\ op[p].w \in Worlds /\ LetsGo(p)
        /\ \A v \in Worlds : pending'[v] = IF v = op[p].w THEN {} ELSE pending[v]
    BY <1>7, CancelFacts
  <2>2. op[p].kind # "save" /\ \A w \in Worlds : NothingTaken(w)
    BY <2>1, SameWorld, StepKinds DEF TypeInv
  <2>3. CallCounts(p)'
    BY <2>1, <2>2, LetsGoCounts
  <2>4. CallsCount'
    <3>1. ASSUME NEW q \in Procs \ {p} PROVE CallCounts(q)'
      BY <2>1, <2>2, CallCountsStays DEF LetsGo, Ends, Keeps, Others, ForgetInv, CallsCount
    <3> QED BY <2>3, <3>1 DEF CallsCount
  <2>5. ConfigReaches'
    BY <2>1 DEF ForgetInv, ConfigReaches
  <2>6. EntriesCount'
    BY <2>1 DEF ForgetInv, EntriesCount, HasAllSince, HasAll
  <2>7. MustNotForget'
    <3>1. \A w \in Worlds : w = op[p].w => (pod[w].up => pod[w].rolled \/ HasAll(w))
      BY <2>1 DEF ForgetInv, CallsCount, CallCounts
    <3> QED BY <2>1, <3>1 DEF ForgetInv, MustNotForget, HasAll, IsPending
  <2> QED BY <2>4, <2>5, <2>6, <2>7 DEF ForgetInv
<1> QED BY <1>1, <1>2, <1>3, <1>4, <1>5, <1>6, <1>7 DEF Step

(* No call moves and no entry changes. *)
LEMMA ForgetAround ==
  ASSUME TypeInv, TypeInv', ForgetInv, UNCHANGED <<pending, op>>, \A w \in Worlds : NothingTaken(w),
         ConfigReaches'
  PROVE  ForgetInv'
<1>1. MustNotForget'
  <2>1. ASSUME NEW w \in Worlds, pod'[w].up PROVE HasAll(w)' \/ IsPending(w)' \/ pod'[w].rolled
    BY <2>1 DEF MustNotForget, ForgetInv, IsPending, NothingTaken
  <2> QED BY <2>1 DEF MustNotForget
<1>2. EntriesCount'
  <2>1. ASSUME NEW v \in Worlds, NEW e \in pending'[v] PROVE HasAllSince(v, e.since)'
    BY <2>1, CountsStay DEF ForgetInv, EntriesCount
  <2> QED BY <2>1 DEF EntriesCount, HasAllSince, HasAll
<1>3. CallsCount'
  BY CallCountsStays DEF ForgetInv, CallsCount
<1> QED BY <1>1, <1>2, <1>3 DEF ForgetInv

LEMMA ForgetNext ==
  ASSUME TypeInv, ForgetInv, NothingAtABadMoment, [Next]_vars
  PROVE  ForgetInv'
<1>0. TypeInv' /\ Tick \in Procs /\ Handlers \subseteq Procs
  BY TypeStep DEF Procs
<1>1. CASE UNCHANGED vars
  BY <1>0, <1>1, SameWorld, ForgetAround DEF vars, ForgetInv, ConfigReaches
<1>2. CASE \E p \in Procs : Step(p)
  BY <1>2, ForgetStep
<1>3. CASE ListAll(Tick, "tick") \/ \E p \in Handlers : ListAll(p, "settle")
  BY <1>0, <1>3, ForgetListAll
<1>4. CASE \E p \in Handlers, w \in Worlds : Commit(p, w) \/ ForceRestart(p, w)
  <2>1. PICK p \in Handlers, w \in Worlds : Commit(p, w) \/ ForceRestart(p, w)
    BY <1>4
  <2>2. CASE Commit(p, w)
    BY <1>0, <2>2, ForgetCommit
  <2>3. CASE ForceRestart(p, w)
    <3>1. /\ Others(p) /\ UNCHANGED <<pending, pod, config>>
          /\ op'[p].kind = "force" /\ op'[p].pc = "roll" /\ op'[p].todo = {}
      BY <1>0, <2>3, ForceRestartFacts
    <3>2. CallCounts(p)'
      BY <3>1 DEF CallCounts
    <3> QED BY <1>0, <3>1, <3>2, CallStep DEF IsPending
  <2> QED BY <2>1, <2>2, <2>3
<1>5. CASE \E w \in Worlds : Track(w) \/ StreamLost(w)
  <2>1. UNCHANGED <<pending, op, pod, config>>
    BY <1>5, BeginFacts, ScanFacts, SettleFacts, DropFacts, StreamLostFacts DEF Track, OnlyTracks
  <2> QED BY <1>0, <2>1, SameWorld, ForgetAround DEF ForgetInv, ConfigReaches
<1>6. ASSUME NEW w \in Worlds, Cluster(w)
      PROVE  ForgetInv'
  <2>1. CASE PodStops(w)
    <3>1. /\ OnlyPod(w) /\ UNCHANGED config /\ ~pod'[w].up /\ pod'[w].startedAt = pod[w].startedAt
      BY <2>1, PodStopsFacts
    <3>2. NothingTaken(w)
      <4>1. config[w].committed \in Nat
        BY DEF TypeInv, ConfigOK, Configs
      <4> QED BY <3>1, <4>1 DEF NothingTaken, HasAll
    <3>3. \A v \in Worlds : NothingTaken(v)
      BY <3>1, <3>2, SameWorld DEF OnlyPod
    <3> QED BY <1>0, <3>1, <3>3, ForgetAround DEF OnlyPod, ForgetInv, ConfigReaches
  <2>2. CASE PodStarts(w)
    <3>1. /\ OnlyPod(w) /\ \A v \in Worlds \ {w} : config'[v] = config[v]
          /\ config'[w].committed = config[w].committed /\ config'[w].synced = config[w].synced
          /\ config'[w].loaded = config[w].synced /\ config'[w].requested = config[w].requested
      BY <2>2, PodStartsFacts
    <3>2. ConfigReaches'
      BY <3>1 DEF ForgetInv, ConfigReaches
    <3>3. NothingTaken(w)
      <4>1. config[w].committed \in Nat /\ config[w].synced = config[w].committed
            /\ config[w].requested <= config[w].committed
        BY DEF TypeInv, ConfigOK, Configs, ForgetInv, ConfigReaches
      <4>2. HasAll(w)'
        BY <3>1, <4>1 DEF HasAll
      <4> QED BY <3>1, <4>1, <4>2 DEF NothingTaken
    <3>4. \A v \in Worlds : NothingTaken(v)
      BY <3>1, <3>3, SameWorld DEF OnlyPod
    <3> QED BY <1>0, <3>1, <3>2, <3>4, ForgetAround DEF OnlyPod
  <2>3. CASE Sync(w)
    BY <2>3, SyncFacts DEF ForgetInv, ConfigReaches
  <2> QED BY <1>6, <2>1, <2>2, <2>3 DEF Cluster
<1>7. ASSUME NEW w \in Worlds, Operate(w)
      PROVE  ForgetInv'
  <2>1. /\ OnlyPod(w) /\ UNCHANGED config /\ pod'[w].up = pod[w].up
        /\ pod'[w].startedAt = pod[w].startedAt /\ (pod[w].rolled => pod'[w].rolled)
    BY <1>7, OperateFacts
  <2>2. \A v \in Worlds : NothingTaken(v)
    BY <2>1, SameWorld DEF OnlyPod
  <2> QED BY <1>0, <2>1, <2>2, ForgetAround DEF OnlyPod, ForgetInv, ConfigReaches
<1>8. ASSUME NEW w \in Worlds, NEW who \in People, PlayerMoves(w, who)
      PROVE  ForgetInv'
  <2>1. /\ OnlyPod(w) /\ UNCHANGED config /\ pod[w].up /\ pod'[w].rolled = pod[w].rolled
        /\ pod'[w].startedAt = pod[w].startedAt
    BY <1>8, PlayerMovesFacts
  <2>2. \A v \in Worlds : NothingTaken(v)
    BY <2>1, SameWorld DEF OnlyPod
  <2> QED BY <1>0, <2>1, <2>2, ForgetAround DEF OnlyPod, ForgetInv, ConfigReaches
<1>9. CASE AgrelhaRestarts
  BY <1>9 DEF AgrelhaRestarts, NothingAtABadMoment
<1> QED BY <1>1, <1>2, <1>3, <1>4, <1>5, <1>6, <1>7, <1>8, <1>9 DEF Next

LEMMA ForgetInit ==
  ASSUME Init
  PROVE  ForgetInv
<1>1. \A w \in Worlds : /\ pending[w] = {}
                        /\ config[w].committed = 0 /\ config[w].synced = 0
                        /\ config[w].loaded = 0 /\ config[w].requested = 0
  BY DEF Init
<1>2. \A p \in Procs : op[p] = Idle
  BY DEF Init
<1> QED BY <1>1, <1>2, IdleIsACall
        DEF ForgetInv, ConfigReaches, MustNotForget, EntriesCount, CallsCount, CallCounts, HasAll

(* Request, tick and Cancel of queue.go lose no change between them: with   *)
(* commits that reach the cluster before the restart, with no save while a  *)
(* goroutine holds the world's entry or an applied one is still queued, and *)
(* while agrelha itself stays up, a world that runs without a change whose  *)
(* restart was requested is in the queue or about to be restarted, for any  *)
(* number of worlds, players and goroutines and whatever call fails.        *)
THEOREM NothingIsForgotten == NothingAtABadMoment => (Spec => []NoChangeIsForgotten)
<1> SUFFICES ASSUME NothingAtABadMoment PROVE Spec => []NoChangeIsForgotten
  OBVIOUS
<1>1. Init => TypeInv /\ ForgetInv
  BY TypeInit, ForgetInit
<1>2. TypeInv /\ ForgetInv /\ [Next]_vars => TypeInv' /\ ForgetInv'
  BY TypeStep, ForgetNext
<1>3. TypeInv /\ ForgetInv => NoChangeIsForgotten
  <2>1. ASSUME TypeInv, NEW w \in Worlds, config[w].loaded < config[w].requested PROVE ~HasAll(w)
    BY <2>1 DEF HasAll, TypeInv, ConfigOK, Configs
  <2> QED BY <2>1 DEF NoChangeIsForgotten, ForgetInv, MustNotForget
<1> QED BY <1>1, <1>2, <1>3, PTL DEF Spec

-----------------------------------------------------------------------------
(* Only newcomers are disconnected *)

(* What is read of a log is known: whoever arrived in the lines read and    *)
(* has not left in them is online.                                          *)
CountedIn(t, log) ==
  /\ t.read <= Len(log) /\ t.backlog <= Len(log)
  /\ \A i \in 1 .. t.read :
       log[i].joined /\ (\A j \in i + 1 .. t.read : log[j].who # log[i].who) => log[i].who \in t.online

(* A stream is the world's own, opened on the pod that runs or an earlier   *)
(* one, and what it read before it settled covers the backlog.              *)
StreamIsOwn(w) ==
  tracker[w].stream # "none" =>
    /\ tracker[w].src = w /\ tracker[w].run <= pod[w].startedAt
    /\ tracker[w].settled => tracker[w].read >= tracker[w].backlog
    /\ tracker[w].run = pod[w].startedAt /\ pod[w].up => CountedIn(tracker[w], pod[w].log)

(* Whoever is on the pod the ticker is about to restart came after what its *)
(* count of no players covered.                                             *)
CountCovers(w) ==
  At(Tick, "roll") /\ op[Tick].w = w /\ op[Tick].seen.run = pod[w].startedAt =>
    /\ \A i \in Arrivals(pod[w].log) : i > op[Tick].seen.upto
    /\ pod[w].up => op[Tick].seen.upto <= Len(pod[w].log)

NewcomerInv == \A w \in Worlds : StreamIsOwn(w) /\ CountCovers(w)

LogsAreFollowedInTime == Races \cap {"replay", "otherPod"} = {}

(* A line more brings at most one arrival, at the end. *)
LEMMA ArrivalsGrow ==
  ASSUME NEW log \in Seq(Line), NEW l \in Line, NEW i \in Arrivals(Append(log, l))
  PROVE  i \in Arrivals(log) \/ i = Len(log) + 1
<1>1. Len(Append(log, l)) = Len(log) + 1 /\ Len(log) \in Nat /\ DOMAIN log = 1 .. Len(log)
      /\ \A k \in 1 .. Len(log) : Append(log, l)[k] = log[k]
  OBVIOUS
<1>2. i \in 1 .. Len(log) + 1 /\ Append(log, l)[i].joined
      /\ \A j \in i + 1 .. Len(log) + 1 : Append(log, l)[j].who # Append(log, l)[i].who
  BY <1>1 DEF Arrivals, Joined
<1>3. CASE i # Len(log) + 1
  <2>1. i \in 1 .. Len(log) /\ \A j \in i + 1 .. Len(log) : j \in 1 .. Len(log) /\ j \in i + 1 .. Len(log) + 1
    BY <1>1, <1>2, <1>3
  <2>2. log[i].joined /\ \A j \in i + 1 .. Len(log) : log[j].who # log[i].who
    BY <1>1, <1>2, <2>1
  <2> QED BY <1>1, <2>1, <2>2 DEF Arrivals, Joined
<1> QED BY <1>3

LEMMA NoArrivals == Arrivals(<<>>) = {}
BY DEF Arrivals

(* One more line is read. *)
LEMMA CountedGrows ==
  ASSUME NEW t \in Trackers, NEW u \in Trackers, NEW log \in Seq(Line), CountedIn(t, log),
         t.read < Len(log), u.read = t.read + 1, u.backlog = t.backlog,
         u.online = IF log[t.read + 1].joined THEN t.online \cup {log[t.read + 1].who}
                                              ELSE t.online \ {log[t.read + 1].who}
  PROVE  CountedIn(u, log)
<1>1. t.read \in Nat /\ Len(log) \in Nat
  BY DEF Trackers
<1>2. ASSUME NEW i \in 1 .. u.read, log[i].joined, \A j \in i + 1 .. u.read : log[j].who # log[i].who
      PROVE  log[i].who \in u.online
  <2>1. CASE i = t.read + 1
    BY <1>2, <2>1
  <2>2. CASE i # t.read + 1
    <3>1. i \in 1 .. t.read /\ t.read + 1 \in i + 1 .. u.read
          /\ \A j \in i + 1 .. t.read : j \in i + 1 .. u.read
      BY <1>1, <1>2, <2>2
    <3>2. log[i].who \in t.online /\ log[t.read + 1].who # log[i].who
      BY <1>2, <3>1 DEF CountedIn
    <3> QED BY <3>2
  <2> QED BY <2>1, <2>2
<1>3. u.read <= Len(log) /\ u.backlog <= Len(log)
  BY <1>1 DEF CountedIn
<1> QED BY <1>2, <1>3 DEF CountedIn

(* A line more in the log. *)
LEMMA CountedStays ==
  ASSUME NEW t \in Trackers, NEW log \in Seq(Line), NEW l \in Line, CountedIn(t, log)
  PROVE  CountedIn(t, Append(log, l))
<1>1. t.read \in Nat /\ t.backlog \in Nat /\ Len(log) \in Nat /\ Len(Append(log, l)) = Len(log) + 1
  BY DEF Trackers
<1>2. \A k \in 1 .. t.read : k \in 1 .. Len(log) /\ Append(log, l)[k] = log[k]
  BY <1>1 DEF CountedIn
<1>3. \A i \in 1 .. t.read : \A j \in i + 1 .. t.read : j \in 1 .. t.read
  BY <1>1
<1> QED BY <1>1, <1>2, <1>3 DEF CountedIn

(* A count of no players covers what was read. *)
LEMMA EmptyCovers ==
  ASSUME NEW t \in Trackers, NEW log \in Seq(Line), CountedIn(t, log), t.online = {}, NEW i \in Arrivals(log)
  PROVE  i > t.read
<1>1. t.read \in Nat /\ i \in 1 .. Len(log) /\ Len(log) \in Nat /\ log[i].joined
      /\ \A j \in i + 1 .. Len(log) : log[j].who # log[i].who
  BY DEF Trackers, Arrivals, Joined
<1>2. ASSUME i <= t.read PROVE FALSE
  <2>1. i \in 1 .. t.read /\ \A j \in i + 1 .. t.read : j \in i + 1 .. Len(log)
    BY <1>1, <1>2 DEF CountedIn
  <2> QED BY <1>1, <2>1 DEF CountedIn
<1> QED BY <1>1, <1>2

LEMMA StreamStays ==
  ASSUME NewcomerInv, NEW w \in Worlds, tracker'[w] = tracker[w], pod'[w].startedAt = pod[w].startedAt,
         pod'[w].up = pod[w].up, pod'[w].log = pod[w].log
  PROVE  StreamIsOwn(w)'
BY DEF NewcomerInv, StreamIsOwn

LEMMA CoversStays ==
  ASSUME NewcomerInv, NEW w \in Worlds, op'[Tick] = op[Tick], pod'[w].startedAt = pod[w].startedAt,
         pod'[w].up = pod[w].up, pod'[w].log = pod[w].log
  PROVE  CountCovers(w)'
BY DEF NewcomerInv, CountCovers, At

(* A call moves; the ticker's is not now at roll unless it was. *)
LEMMA NewcomerCall ==
  ASSUME NewcomerInv, UNCHANGED tracker,
         \A w \in Worlds : /\ pod'[w].up = pod[w].up /\ pod'[w].startedAt = pod[w].startedAt
                           /\ pod'[w].log = pod[w].log,
         op'[Tick] = op[Tick] \/ op'[Tick].pc # "roll"
  PROVE  NewcomerInv'
<1>1. ASSUME NEW w \in Worlds PROVE StreamIsOwn(w)'
  BY StreamStays
<1>2. ASSUME NEW w \in Worlds PROVE CountCovers(w)'
  <2>1. CASE op'[Tick] = op[Tick]
    BY <2>1, CoversStays
  <2>2. CASE op'[Tick].pc # "roll"
    BY <2>2 DEF CountCovers, At
  <2> QED BY <2>1, <2>2
<1> QED BY <1>1, <1>2 DEF NewcomerInv

LEMMA NewcomerAsk ==
  ASSUME TypeInv, NewcomerInv, AskPlayers(Tick)
  PROVE  NewcomerInv'
<1>0. Tick \in Procs
  BY DEF Procs
<1>1. PICK w \in Worlds : w = op[Tick].w
  BY <1>0, AskPlayersFacts
<1>2. UNCHANGED <<tracker, pod>> /\ op[Tick].pc = "players"
  BY <1>0, AskPlayersFacts
<1>3. CASE LetsGo(Tick)
  <2>1. op'[Tick].pc # "roll"
    BY <1>0, <1>3, IdleIsACall DEF LetsGo, Ends
  <2> QED BY <1>2, <2>1, NewcomerCall
<1>4. ASSUME op'[Tick].w = w, op'[Tick].seen = MustSee(w),
             IF Known(w) THEN tracker[w].online = {} ELSE pod[w].up /\ Online(w) = {}
      PROVE  NewcomerInv'
  <2> DEFINE t == tracker[w]
             log == pod[w].log
  <2>1. t \in Trackers /\ log \in Seq(Line) /\ SoundTracker(w) /\ SoundPod(w)
    BY DEF TypeInv, TrackerOK, PodOK, Pods
  <2>2. t.read \in Nat /\ t.backlog \in Nat /\ Len(log) \in Nat
    BY <2>1 DEF Trackers
  <2>3. Arrivals(log) \subseteq 1 .. Len(log)
    BY <2>1 DEF Arrivals
  <2>4. ASSUME MustSee(w).run = pod[w].startedAt
        PROVE  /\ \A i \in Arrivals(log) : i > MustSee(w).upto
               /\ pod[w].up => MustSee(w).upto <= Len(log)
    <3>1. CASE ~Known(w)
      <4>1. Arrivals(log) = {}
        BY <1>4, <3>1 DEF Online
      <4>2. MustSee(w).upto = Len(log)
        BY <3>1 DEF MustSee
      <4> QED BY <2>2, <4>1, <4>2
    <3>2. CASE Known(w) /\ t.run = pod[w].startedAt
      <4>1. t.stream # "none" /\ t.settled /\ t.online = {}
        BY <1>4, <2>1, <3>2 DEF Known, SoundTracker
      <4>2. /\ t.src = w /\ t.read >= t.backlog
            /\ pod[w].up => CountedIn(t, log)
        BY <3>2, <4>1 DEF NewcomerInv, StreamIsOwn
      <4>3. MustSee(w).upto = Max({t.read, t.backlog})
        BY <3>2, <4>1, <4>2 DEF MustSee
      <4>4. MustSee(w).upto = t.read
        <5> DEFINE m == Max({t.read, t.backlog})
        <5>1. m \in {t.read, t.backlog} /\ m >= t.read
          BY <2>2, PairMax
        <5> HIDE DEF m, t
        <5>2. m = t.read
          BY <2>2, <4>2, <5>1
        <5> QED BY <4>3, <5>2 DEF m
      <4>5. CASE pod[w].up
        BY <2>1, <4>1, <4>2, <4>4, <4>5, EmptyCovers DEF CountedIn
      <4>6. CASE ~pod[w].up
        BY <2>1, <4>6, NoArrivals DEF SoundPod
      <4> QED BY <4>5, <4>6
    <3>3. CASE Known(w) /\ t.run # pod[w].startedAt
      <4>1. t.stream # "none" /\ t.src = w
        BY <2>1, <3>3 DEF Known, SoundTracker, NewcomerInv, StreamIsOwn
      <4>2. MustSee(w).upto = 0
        BY <3>3, <4>1 DEF MustSee
      <4> QED BY <2>2, <2>3, <4>2
    <3> QED BY <3>1, <3>2, <3>3
  <2>5. ASSUME NEW v \in Worlds PROVE CountCovers(v)'
    BY <1>2, <1>4, <2>4 DEF CountCovers, At
  <2>6. ASSUME NEW v \in Worlds PROVE StreamIsOwn(v)'
    BY <1>2, StreamStays
  <2> QED BY <2>5, <2>6 DEF NewcomerInv
<1> QED BY <1>0, <1>1, <1>3, <1>4, AskPlayersFacts

LEMMA NewcomerStep ==
  ASSUME TypeInv, NewcomerInv, NEW p \in Procs, Step(p)
  PROVE  NewcomerInv'
<1>0. Tick \in Procs
  BY DEF Procs
<1>1. CASE AskPlayers(p)
  <2>1. p = Tick
    BY <1>1, AskPlayersFacts
  <2> QED BY <1>1, <2>1, NewcomerAsk
<1>2. CASE ~AskPlayers(p)
  <2>1. /\ UNCHANGED tracker /\ Others(p) /\ op'[p].pc # "roll"
        /\ \A w \in Worlds : /\ pod'[w].up = pod[w].up /\ pod'[w].startedAt = pod[w].startedAt
                             /\ pod'[w].log = pod[w].log
    <3>1. RequestRestart(p) \/ NextEntry(p) \/ Resolve(p) \/ AppliedByRestart(p) \/ Roll(p) \/ Cancel(p)
      BY <1>2 DEF Step
    <3>2. Idle.pc # "roll"
      BY IdleIsACall
    <3> QED BY <3>1, <3>2, RequestRestartFacts, NextEntryFacts, ResolveFacts, AppliedByRestartFacts,
               RollFacts, CancelFacts DEF Continues, Goes, LetsGo, Keeps, Ends
  <2>2. op'[Tick] = op[Tick] \/ op'[Tick].pc # "roll"
    BY <1>0, <2>1 DEF Others
  <2> QED BY <2>1, <2>2, NewcomerCall
<1> QED BY <1>1, <1>2

LEMMA NewcomerTrack ==
  ASSUME TypeInv, NewcomerInv, LogsAreFollowedInTime, NEW w \in Worlds, Track(w) \/ StreamLost(w)
  PROVE  NewcomerInv'
<1>1. TypeInv' /\ OnlyTracks(w)
  BY BeginFacts, ScanFacts, SettleFacts, DropFacts, StreamLostFacts DEF Track
<1>2. ASSUME NEW v \in Worlds PROVE CountCovers(v)'
  BY <1>1, CoversStays DEF OnlyTracks
<1>3. ASSUME NEW v \in Worlds \ {w} PROVE StreamIsOwn(v)'
  BY <1>1, StreamStays DEF OnlyTracks
<1>4. UNCHANGED pod /\ StreamIsOwn(w) /\ SoundTracker(w) /\ tracker[w] \in Trackers /\ tracker'[w] \in Trackers
      /\ pod[w].log \in Seq(Line) /\ Len(pod[w].log) \in Nat /\ pod[w].startedAt \in Nat
  <2>1. pod[w].log \in Seq(Line)
    BY DEF TypeInv, PodOK, Pods
  <2> QED BY <1>1, <2>1 DEF OnlyTracks, NewcomerInv, TypeInv, TrackerOK, PodOK, Pods
<1>5. CASE \E s \in Worlds : Begin(w, s)
  <2>1. /\ tracker'[w].src = w /\ ~tracker'[w].settled /\ tracker'[w].run = pod[w].startedAt
        /\ tracker'[w].read = 0 /\ tracker'[w].backlog = Len(pod[w].log)
    BY <1>5, BeginFacts DEF LogsAreFollowedInTime
  <2>2. CountedIn(tracker'[w], pod[w].log)
    BY <1>4, <2>1 DEF CountedIn
  <2>3. StreamIsOwn(w)'
    BY <1>4, <2>1, <2>2 DEF StreamIsOwn
  <2> QED BY <1>2, <1>3, <2>3 DEF NewcomerInv
<1>6. CASE Scan(w)
  <2>1. tracker[w].src = w /\ tracker'[w].src = w /\ tracker'[w].run = tracker[w].run
        /\ tracker'[w].settled = tracker[w].settled /\ tracker'[w].read = tracker[w].read + 1
        /\ tracker'[w].backlog = tracker[w].backlog /\ tracker[w].run <= pod[w].startedAt
        /\ tracker[w].read < Len(pod[w].log)
    BY <1>4, <1>6, ScanFacts DEF StreamIsOwn
  <2>2. tracker[w].settled => tracker[w].read + 1 >= tracker[w].backlog
    <3>1. tracker[w].settled => tracker[w].read >= tracker[w].backlog
      BY <1>4, <1>6, ScanFacts DEF StreamIsOwn
    <3> QED BY <1>4, <3>1 DEF Trackers
  <2>3. ASSUME tracker[w].run = pod[w].startedAt, pod[w].up PROVE CountedIn(tracker'[w], pod[w].log)
    <3>1. CountedIn(tracker[w], pod[w].log)
      BY <1>4, <1>6, <2>3, ScanFacts DEF StreamIsOwn
    <3>2. LET l == pod[w].log[tracker[w].read + 1]
          IN  tracker'[w].online = IF l.joined THEN tracker[w].online \cup {l.who}
                                               ELSE tracker[w].online \ {l.who}
      BY <1>6, <2>1, ScanFacts
    <3> QED BY <1>4, <2>1, <3>1, <3>2, CountedGrows
  <2>4. StreamIsOwn(w)'
    BY <1>4, <2>1, <2>2, <2>3 DEF StreamIsOwn
  <2> QED BY <1>2, <1>3, <2>4 DEF NewcomerInv
<1>7. CASE SettleTimePasses(w)
  <2>1. StreamIsOwn(w)'
    BY <1>4, <1>7, SettleFacts DEF StreamIsOwn, CountedIn, LogsAreFollowedInTime
  <2> QED BY <1>2, <1>3, <2>1 DEF NewcomerInv
<1>8. CASE Drop(w)
  <2>1. StreamIsOwn(w)'
    BY <1>8, DropFacts DEF StreamIsOwn
  <2> QED BY <1>2, <1>3, <2>1 DEF NewcomerInv
<1>9. CASE StreamLost(w)
  <2>1. StreamIsOwn(w)'
    BY <1>4, <1>9, StreamLostFacts DEF StreamIsOwn, CountedIn
  <2> QED BY <1>2, <1>3, <2>1 DEF NewcomerInv
<1> QED BY <1>5, <1>6, <1>7, <1>8, <1>9 DEF Track

LEMMA NewcomerCluster ==
  ASSUME TypeInv, NewcomerInv, NEW w \in Worlds, Cluster(w)
  PROVE  NewcomerInv'
<1>0. /\ pod[w].startedAt \in Nat /\ pod[w].startedAt <= clock /\ clock \in Nat
      /\ tracker[w] \in Trackers /\ tracker[w].run \in Nat /\ op[Tick] \in Calls
      /\ op[Tick].seen.run \in Nat /\ op[Tick].seen.run <= clock /\ StreamIsOwn(w)
  <2>1. Tick \in Procs
    BY DEF Procs
  <2>2. op[Tick] \in Calls /\ op[Tick].seen.run <= clock
    BY <2>1 DEF TypeInv, OpOK, SoundCall
  <2>3. op[Tick].seen.run \in Nat
    BY <2>2 DEF Calls
  <2> QED BY <2>2, <2>3 DEF TypeInv, PodOK, Pods, SoundPod, ClockOK, TrackerOK, Trackers, NewcomerInv
<1>1. CASE PodStops(w)
  <2>1. /\ OnlyPod(w) /\ ~pod'[w].up /\ pod'[w].startedAt = pod[w].startedAt /\ pod'[w].log = <<>>
        /\ \A v \in Worlds :
             /\ tracker'[v].settled = tracker[v].settled
             /\ tracker'[v].online = tracker[v].online /\ tracker'[v].src = tracker[v].src
             /\ tracker'[v].run = tracker[v].run /\ tracker'[v].read = tracker[v].read
             /\ tracker'[v].backlog = tracker[v].backlog
             /\ tracker'[v].stream # "none" <=> tracker[v].stream # "none"
    BY <1>1, PodStopsFacts
  <2>2. ASSUME NEW v \in Worlds \ {w} PROVE StreamIsOwn(v)' /\ CountCovers(v)'
    <3>1. pod'[v] = pod[v] /\ UNCHANGED op
      BY <2>1 DEF OnlyPod
    <3>2. StreamIsOwn(v)'
      BY <2>1, <3>1 DEF NewcomerInv, StreamIsOwn, CountedIn
    <3> QED BY <3>1, <3>2, CoversStays
  <2>3. StreamIsOwn(w)'
    BY <2>1 DEF NewcomerInv, StreamIsOwn
  <2>4. CountCovers(w)'
    BY <2>1, NoArrivals DEF CountCovers
  <2> QED BY <2>2, <2>3, <2>4 DEF NewcomerInv
<1>2. CASE PodStarts(w)
  <2>1. OnlyPod(w) /\ UNCHANGED tracker /\ pod'[w].startedAt = clock + 1
    BY <1>2, PodStartsFacts
  <2>2. ASSUME NEW v \in Worlds \ {w} PROVE StreamIsOwn(v)' /\ CountCovers(v)'
    BY <2>1, StreamStays, CoversStays DEF OnlyPod
  <2>3. StreamIsOwn(w)'
    BY <1>0, <2>1 DEF StreamIsOwn
  <2>4. CountCovers(w)'
    BY <1>0, <2>1 DEF CountCovers, OnlyPod
  <2> QED BY <2>2, <2>3, <2>4 DEF NewcomerInv
<1>3. CASE Sync(w)
  BY <1>3, SyncFacts, NewcomerCall
<1> QED BY <1>1, <1>2, <1>3 DEF Cluster

LEMMA NewcomerMoves ==
  ASSUME TypeInv, NewcomerInv, NEW w \in Worlds, NEW who \in People, PlayerMoves(w, who)
  PROVE  NewcomerInv'
<1>1. /\ OnlyPod(w) /\ UNCHANGED tracker /\ pod[w].up /\ pod'[w].startedAt = pod[w].startedAt
  BY PlayerMovesFacts
<1>2. PICK l \in Line : pod'[w].log = Append(pod[w].log, l)
  BY PlayerMovesFacts
<1>3. ASSUME NEW v \in Worlds \ {w} PROVE StreamIsOwn(v)' /\ CountCovers(v)'
  BY <1>1, StreamStays, CoversStays DEF OnlyPod
<1>4. pod[w].log \in Seq(Line) /\ tracker[w] \in Trackers /\ StreamIsOwn(w) /\ CountCovers(w)
  BY DEF TypeInv, PodOK, Pods, TrackerOK, NewcomerInv
<1>5. StreamIsOwn(w)'
  BY <1>1, <1>2, <1>4, CountedStays DEF StreamIsOwn
<1>6. CountCovers(w)'
  <2>1. op[Tick].seen.upto \in Nat /\ op'[Tick] = op[Tick]
    <3>1. Tick \in Procs
      BY DEF Procs
    <3> QED BY <1>1, <3>1 DEF OnlyPod, TypeInv, OpOK, Calls
  <2>2. ASSUME At(Tick, "roll"), op[Tick].w = w, op[Tick].seen.run = pod[w].startedAt
        PROVE  /\ \A i \in Arrivals(pod'[w].log) : i > op[Tick].seen.upto
               /\ op[Tick].seen.upto <= Len(pod'[w].log)
    <3>1. /\ \A i \in Arrivals(pod[w].log) : i > op[Tick].seen.upto
          /\ op[Tick].seen.upto <= Len(pod[w].log)
      BY <1>1, <1>4, <2>2 DEF CountCovers
    <3>2. Len(pod[w].log) \in Nat /\ Len(pod'[w].log) = Len(pod[w].log) + 1
      BY <1>2, <1>4
    <3>3. \A i \in Arrivals(pod'[w].log) : i \in Arrivals(pod[w].log) \/ i = Len(pod[w].log) + 1
      BY <1>2, <1>4, ArrivalsGrow
    <3> QED BY <2>1, <3>1, <3>2, <3>3
  <2> QED BY <1>1, <2>1, <2>2 DEF CountCovers, At
<1> QED BY <1>3, <1>5, <1>6 DEF NewcomerInv

LEMMA NewcomerNext ==
  ASSUME TypeInv, NewcomerInv, LogsAreFollowedInTime, [Next]_vars
  PROVE  NewcomerInv'
<1>0. Tick \in Procs /\ Handlers \subseteq Procs /\ Tick \notin Handlers
  BY RestartQueueAssumption DEF Procs
<1>1. CASE UNCHANGED vars
  BY <1>1, NewcomerCall DEF vars
<1>2. CASE \E p \in Procs : Step(p)
  BY <1>2, NewcomerStep
<1>3. CASE ListAll(Tick, "tick") \/ \E p \in Handlers : ListAll(p, "settle")
  <2>1. PICK p \in Procs : \E kind \in {"tick", "settle"} : (kind = "tick" => p = Tick) /\ ListAll(p, kind)
    BY <1>0, <1>3
  <2>2. UNCHANGED <<tracker, pod>> /\ Others(p) /\ op'[p].pc = "next"
    BY <2>1, ListAllFacts
  <2>3. op'[Tick] = op[Tick] \/ op'[Tick].pc # "roll"
    BY <1>0, <2>2 DEF Others
  <2> QED BY <2>2, <2>3, NewcomerCall
<1>4. CASE \E p \in Handlers, w \in Worlds : Commit(p, w) \/ ForceRestart(p, w)
  <2>1. UNCHANGED <<tracker, pod>> /\ op'[Tick] = op[Tick]
    BY <1>0, <1>4, CommitFacts, ForceRestartFacts DEF Others
  <2> QED BY <2>1, NewcomerCall
<1>5. CASE \E w \in Worlds : Track(w) \/ StreamLost(w)
  BY <1>5, NewcomerTrack
<1>6. CASE \E w \in Worlds : Cluster(w)
  BY <1>6, NewcomerCluster
<1>7. ASSUME NEW w \in Worlds, Operate(w)
      PROVE  NewcomerInv'
  BY <1>7, OperateFacts, NewcomerCall DEF OnlyPod
<1>8. CASE \E w \in Worlds, who \in People : PlayerMoves(w, who)
  BY <1>8, NewcomerMoves
<1>9. CASE AgrelhaRestarts
  <2>1. op'[Tick].pc # "roll" /\ \A w \in Worlds : tracker'[w].stream = "none"
    BY <1>0, <1>9, AgrelhaRestartsFacts, IdleIsACall
  <2> QED BY <2>1 DEF NewcomerInv, StreamIsOwn, CountCovers, At
<1> QED BY <1>1, <1>2, <1>3, <1>4, <1>5, <1>6, <1>7, <1>8, <1>9 DEF Next

LEMMA NewcomerInit ==
  ASSUME Init
  PROVE  NewcomerInv
<1>1. Tick \in Procs
  BY DEF Procs
<1>2. op[Tick].pc = "idle" /\ \A w \in Worlds : tracker[w].stream = "none"
  BY <1>1, IdleIsACall DEF Init, Untracked
<1> QED BY <1>2 DEF NewcomerInv, StreamIsOwn, CountCovers, At

(* What tick of queue.go restarts on is never a count that missed somebody  *)
(* it could have included: when a world's own log is read back within the   *)
(* settle time, everyone on the pod at its restart came after the lines the *)
(* player count (Players of tracker.go, or the status endpoint) covered,    *)
(* with streams lost, pods replaced and agrelha restarted in between.       *)
THEOREM OnlyNewcomers == LogsAreFollowedInTime => (Spec => DisconnectsOnlyNewcomers)
<1> SUFFICES ASSUME LogsAreFollowedInTime PROVE Spec => DisconnectsOnlyNewcomers
  OBVIOUS
<1>1. Init => TypeInv /\ NewcomerInv
  BY TypeInit, NewcomerInit
<1>2. TypeInv /\ NewcomerInv /\ [Next]_vars => TypeInv' /\ NewcomerInv'
  BY TypeStep, NewcomerNext
<1>3. NewcomerInv /\ [Next]_vars =>
        [\A w \in Worlds :
           (At(Tick, "roll") /\ op[Tick].w = w /\ op'[Tick].pc = "cancel" /\ pod[w].up)
             => \A i \in Arrivals(pod[w].log) :
                  op[Tick].seen.run = pod[w].startedAt => i > op[Tick].seen.upto]_vars
  BY DEF NewcomerInv, CountCovers
<1> QED BY <1>1, <1>2, <1>3, PTL DEF Spec, DisconnectsOnlyNewcomers

=============================================================================
