-------------------------- MODULE BackgroundProofs --------------------------
(***************************************************************************)
(* Theorems about what runs beside the worlds' life cycle: the backups     *)
(* with their Jobs, prunings and daily pass, the watcher of the worlds'    *)
(* health, the players' presence read from the logs, and the two copies of *)
(* a world's player lists, each for any number of worlds, pages and names; *)
(* Rcon (which packet a connection can carry for the caller that holds it, *)
(* and how often the server can have run a command), ModIndex (how old the *)
(* package index is and what an update check reads) and Capacity (what a   *)
(* boot and an edit do to sizes, settings and tiers), for any number of    *)
(* commands, addresses, restarts, boots and games.                         *)
(***************************************************************************)
EXTENDS Backups, Health, Presence, PlayerLists, Rcon, ModIndex, Capacity, FiniteSetTheorems, WellFoundedInduction, TLAPS

Jobs == [kind : {"backup", "restore"}, world : Worlds, pc : {"pending", "running"}, at : Nat, holds : Nat, tries : {0, 1}]
Archives == [world : Worlds, at : Nat, holds : Nat, mod : Nat]
BackupCalls == [pc : {"idle", "next", "launch", "finish"}, w : Worlds \cup {Scheduler}, quiet : BOOLEAN,
                old : SUBSET Nat, queue : SUBSET Worlds]
Clocks == [day : Nat, four : BOOLEAN, last : Nat, passes : Nat, listed : SUBSET Worlds, tried : SUBSET Worlds]

BackupTypes ==
  /\ server \in [Worlds -> [up : BOOLEAN, saving : BOOLEAN]]
  /\ disk \in [Worlds -> 0 .. version] /\ version \in 0 .. MaxVersions
  /\ shelf \subseteq Archives
  /\ made \in Seq(Worlds) /\ jobs \subseteq Jobs
  /\ call \in [Callers -> BackupCalls] /\ exists \subseteq Worlds /\ clock \in Clocks

(* The archives are named by the write that began them, belong to the world  *)
(* that was then copied, as the last write to them did, and no two have a    *)
(* name in common; so does what a Job of a backup is writing.                *)
ShelfOK == /\ \A a \in shelf : /\ a.at \in 1 .. Len(made) /\ a.world = made[a.at] /\ a.holds <= version
                              /\ a.mod \in a.at .. Len(made) /\ a.world = made[a.mod]
           /\ \A a, b \in shelf : a.at = b.at => a = b
           /\ IsFiniteSet(shelf)
JobOK(j) == /\ j.world \in exists /\ j.holds <= version
            /\ j.kind = "backup" /\ (j.pc = "running" \/ j.tries = 1) => j.at \in 1 .. Len(made) /\ made[j.at] = j.world

(* What a goroutine of Agrelha is doing names a world that exists. *)
CallOK(p) == /\ IF call[p].pc \in {"launch", "finish"} THEN call[p].w \in exists ELSE ~call[p].quiet
             /\ call[p].queue \subseteq exists
             /\ p \in Admins => call[p].queue = {} /\ call[p].pc # "next"

StockInv == BackupTypes /\ ShelfOK /\ (\A j \in jobs : JobOK(j)) /\ (\A p \in Callers : CallOK(p))

LEMMA StockInvImplies == StockInv => BackupsTypeOK
<1> SUFFICES ASSUME StockInv PROVE BackupsTypeOK
  OBVIOUS
<1>1. \A a \in shelf : /\ a.at \in 1 .. Len(made) /\ a.world = made[a.at] /\ a.holds \in 0 .. version
                      /\ a.mod \in a.at .. Len(made) /\ a.world = made[a.mod]
  BY DEF StockInv, BackupTypes, ShelfOK, Archives
<1>2. \A j \in jobs : j.world \in exists /\ j.pc \in {"pending", "running"}
  BY DEF StockInv, BackupTypes, JobOK, Jobs
<1>3. \A p \in Callers : /\ call[p].pc \in {"idle", "next", "launch", "finish"}
                         /\ call[p].pc \in {"launch", "finish"} => call[p].w \in exists
                         /\ p \in Admins => call[p].queue = {} /\ call[p].pc # "next"
  BY DEF StockInv, BackupTypes, CallOK, BackupCalls
<1> QED BY <1>1, <1>2, <1>3 DEF StockInv, BackupTypes, BackupsTypeOK

LEMMA NoCallFacts == NoCall \in BackupCalls /\ NoCall.pc = "idle" /\ ~NoCall.quiet /\ NoCall.queue = {} /\ NoCall.old = {}
BY DEF NoCall, BackupCalls

LEMMA StockInit == InitBackups => StockInv
<1> SUFFICES ASSUME InitBackups PROVE StockInv
  OBVIOUS
<1>1. BackupTypes
  <2>1. made \in Seq(Worlds) /\ Len(made) = 0
    BY DEF InitBackups
  <2>2. disk \in [Worlds -> 0 .. version] /\ version \in 0 .. MaxVersions
    BY BackupsAssumption DEF InitBackups, Torn
  <2>3. clock \in Clocks
    BY DEF InitBackups, Clocks
  <2> QED BY <2>1, <2>2, <2>3, NoCallFacts, BackupsAssumption DEF InitBackups, BackupTypes
<1>2. ShelfOK /\ (\A j \in jobs : JobOK(j)) /\ (\A p \in Callers : CallOK(p))
  BY NoCallFacts, FS_EmptySet DEF InitBackups, ShelfOK, CallOK
<1> QED BY <1>1, <1>2 DEF StockInv

-----------------------------------------------------------------------------
(* What a step may do to the archives and Jobs *)

(* The archives begun are those begun before, and more. *)
MadeGrows == /\ made' \in Seq(Worlds) /\ Len(made) <= Len(made') /\ \A n \in 1 .. Len(made) : made'[n] = made[n]

LEMMA LenMade == BackupTypes => Len(made) \in Nat /\ DOMAIN made = 1 .. Len(made) /\ version \in Nat
BY BackupsAssumption DEF BackupTypes

LEMMA JobKept ==
  ASSUME BackupTypes, NEW j \in Jobs, NEW k \in Jobs, JobOK(j), exists \subseteq exists', MadeGrows,
         version' \in Nat, version' >= version, k.kind = j.kind, k.world = j.world, k.at = j.at,
         k.holds \in {j.holds, Torn}, k.pc = "running" \/ k.tries = 1 => j.pc = "running" \/ j.tries = 1
  PROVE  JobOK(k)'
<1>1. Len(made) \in Nat /\ version \in Nat /\ j.at \in Nat /\ j.holds \in Nat /\ Len(made') \in Nat
  BY LenMade DEF Jobs, MadeGrows
<1> QED BY <1>1 DEF JobOK, MadeGrows, Torn

LEMMA TearFacts ==
  ASSUME NEW w, NEW js \in SUBSET Jobs, NEW k \in Tear(w, js)
  PROVE  \E j \in js : /\ k \in Jobs /\ k.kind = j.kind /\ k.world = j.world /\ k.at = j.at /\ k.pc = j.pc
                       /\ k.tries = j.tries /\ k.holds \in {j.holds, Torn}
<1>1. PICK j \in js : k = IF j.kind = "backup" /\ j.world = w /\ j.pc = "running" THEN [j EXCEPT !.holds = Torn] ELSE j
  BY DEF Tear
<1>2. j \in Jobs
  OBVIOUS
<1> QED BY <1>1, <1>2 DEF Jobs, Torn

LEMMA MadeStays == BackupTypes /\ made' = made => MadeGrows
BY LenMade DEF BackupTypes, MadeGrows

(* The Jobs after a write to w's data. *)
LEMMA JobsTorn ==
  ASSUME version' \in Nat, NEW w, NEW js \in SUBSET Jobs, \A j \in js : JobOK(j)', jobs' = Tear(w, js)
  PROVE  jobs' \subseteq Jobs /\ \A j \in jobs' : JobOK(j)'
<1>1. ASSUME NEW k \in jobs' PROVE k \in Jobs /\ JobOK(k)'
  <2>1. PICK j \in js : /\ k \in Jobs /\ k.kind = j.kind /\ k.world = j.world /\ k.at = j.at /\ k.pc = j.pc
                        /\ k.tries = j.tries /\ k.holds \in {j.holds, Torn}
    BY <1>1, TearFacts
  <2>2. JobOK(j)' /\ j \in Jobs
    OBVIOUS
  <2>3. k.holds <= version'
    BY <2>1, <2>2 DEF JobOK, Torn, Jobs
  <2> QED BY <2>1, <2>2, <2>3 DEF JobOK
<1> QED BY <1>1

(* A step that leaves the archives and the world's records alone. *)
LEMMA StockStays ==
  ASSUME StockInv, UNCHANGED <<shelf, made, exists, version>>
  PROVE  ShelfOK' /\ (\A j \in Jobs : JobOK(j) => JobOK(j)') /\ MadeGrows
<1>1. MadeGrows
  <2>1. made' = made /\ BackupTypes
    BY DEF StockInv
  <2> QED BY <2>1, MadeStays
<1> QED BY <1>1 DEF StockInv, ShelfOK, JobOK

(* A world's data is written. *)
LEMMA WrittenFacts ==
  ASSUME StockInv, NEW w \in Worlds, Written(w), UNCHANGED <<shelf, made, exists>>
  PROVE  /\ version' = version + 1 /\ version' \in 0 .. MaxVersions /\ disk' \in [Worlds -> 0 .. version']
         /\ jobs' \subseteq Jobs /\ (\A j \in jobs' : JobOK(j)') /\ ShelfOK'
<1>1. version \in Nat /\ version < MaxVersions /\ version' = version + 1 /\ BackupTypes /\ MadeGrows
  BY LenMade, MadeStays DEF Written, StockInv
<1>2. version' \in 0 .. MaxVersions
  BY <1>1, BackupsAssumption
<1>3. disk' \in [Worlds -> 0 .. version']
  BY <1>1 DEF Written, StockInv, BackupTypes
<1>4. jobs \in SUBSET Jobs /\ jobs' = Tear(w, jobs) /\ version' \in Nat
  BY <1>1 DEF StockInv, BackupTypes, Written
<1>5. \A j \in jobs : JobOK(j)'
  BY <1>1, <1>4, JobKept DEF StockInv
<1>6. jobs' \subseteq Jobs /\ \A j \in jobs' : JobOK(j)'
  BY <1>4, <1>5, JobsTorn
<1>7. ShelfOK'
  BY <1>1 DEF StockInv, ShelfOK, BackupTypes, Archives
<1> QED BY <1>1, <1>2, <1>3, <1>6, <1>7

LEMMA QuiescedFacts ==
  ASSUME StockInv, NEW w \in Worlds, NEW running \in BOOLEAN, NEW tell \in BOOLEAN, Quiesced(w, running, tell),
         UNCHANGED <<shelf, made, exists>>
  PROVE  /\ server' \in [Worlds -> [up : BOOLEAN, saving : BOOLEAN]]
         /\ version' \in 0 .. MaxVersions /\ disk' \in [Worlds -> 0 .. version']
         /\ jobs' \subseteq Jobs /\ (\A j \in jobs' : JobOK(j)') /\ ShelfOK'
<1>1. server' \in [Worlds -> [up : BOOLEAN, saving : BOOLEAN]]
  <2>1. server \in [Worlds -> [up : BOOLEAN, saving : BOOLEAN]]
    BY DEF StockInv, BackupTypes
  <2> DEFINE s == [server[w] EXCEPT !.saving = @ /\ w \notin Minecraft]
  <2>2. s \in [up : BOOLEAN, saving : BOOLEAN]
    BY <2>1
  <2>3. server' = server \/ server' = [server EXCEPT ![w] = s]
    BY DEF Quiesced
  <2> HIDE DEF s
  <2> QED BY <2>1, <2>2, <2>3
<1>2. CASE Written(w)
  BY <1>1, <1>2, WrittenFacts
<1>3. CASE UNCHANGED <<version, disk, jobs>>
  BY <1>1, <1>3, StockStays DEF StockInv, BackupTypes
<1> QED BY <1>2, <1>3 DEF Quiesced

LEMMA CallChanges ==
  ASSUME BackupTypes, NEW p \in Callers, NEW k \in BackupCalls, call' = [call EXCEPT ![p] = k],
         \A q \in Callers : CallOK(q), exists \subseteq exists',
         IF k.pc \in {"launch", "finish"} THEN k.w \in exists' ELSE ~k.quiet,
         k.queue \subseteq exists', p \in Admins => k.queue = {} /\ k.pc # "next"
  PROVE  call' \in [Callers -> BackupCalls] /\ \A q \in Callers : CallOK(q)'
<1>1. call' \in [Callers -> BackupCalls] /\ call'[p] = k /\ \A q \in Callers \ {p} : call'[q] = call[q]
  BY DEF BackupTypes
<1>2. CallOK(p)'
  BY <1>1 DEF CallOK
<1>3. ASSUME NEW q \in Callers \ {p} PROVE CallOK(q)'
  BY <1>1, <1>3 DEF CallOK
<1> QED BY <1>1, <1>2, <1>3

-----------------------------------------------------------------------------
(* StockInv is kept by every step: servers and Jobs *)

LEMMA StockServer ==
  ASSUME StockInv, NEW w \in Worlds, ServerSaves(w) \/ ServerStops(w) \/ ServerStarts(w)
  PROVE  StockInv'
<1>1. CASE ServerSaves(w)
  <2>1. Written(w) /\ UNCHANGED <<server, shelf, made, asked, call, exists, clock>>
    BY <1>1 DEF ServerSaves
  <2>2. /\ version' \in 0 .. MaxVersions /\ disk' \in [Worlds -> 0 .. version']
        /\ jobs' \subseteq Jobs /\ (\A j \in jobs' : JobOK(j)') /\ ShelfOK'
    BY <2>1, WrittenFacts
  <2> QED BY <2>1, <2>2 DEF StockInv, BackupTypes, CallOK
<1>2. CASE ServerStops(w) \/ ServerStarts(w)
  <2>1. UNCHANGED <<disk, version, shelf, made, jobs, asked, call, exists, clock>>
    BY <1>2 DEF ServerStops, ServerStarts
  <2>2. server \in [Worlds -> [up : BOOLEAN, saving : BOOLEAN]]
    BY DEF StockInv, BackupTypes
  <2>3. server' \in [Worlds -> [up : BOOLEAN, saving : BOOLEAN]]
    <3> DEFINE s == [server[w] EXCEPT !.up = FALSE]
               t == [up |-> TRUE, saving |-> TRUE]
    <3>1. s \in [up : BOOLEAN, saving : BOOLEAN] /\ t \in [up : BOOLEAN, saving : BOOLEAN]
      BY <2>2
    <3>2. server' = [server EXCEPT ![w] = s] \/ server' = [server EXCEPT ![w] = t]
      BY <1>2 DEF ServerStops, ServerStarts
    <3> HIDE DEF s, t
    <3> QED BY <2>2, <3>1, <3>2
  <2>4. ShelfOK' /\ \A j \in Jobs : JobOK(j) => JobOK(j)'
    BY <2>1, StockStays
  <2> QED BY <2>1, <2>3, <2>4 DEF StockInv, BackupTypes, CallOK
<1> QED BY <1>1, <1>2

(* A copy writes: its archive is the one written last. *)
LEMMA MadeMore ==
  ASSUME BackupTypes, NEW w \in Worlds, made' = Append(made, w)
  PROVE  /\ MadeGrows /\ Len(made) \in Nat /\ Len(made') = Len(made) + 1 /\ made'[Len(made) + 1] = w
<1>1. Len(made) \in Nat /\ made \in Seq(Worlds)
  BY LenMade DEF BackupTypes
<1> QED BY <1>1 DEF MadeGrows

LEMMA StockCopyBegins ==
  ASSUME StockInv, NEW j \in jobs, CopyBegins(j)
  PROVE  StockInv'
<1> DEFINE n == IF j.tries = 0 THEN Len(made) + 1 ELSE j.at
           t == Len(made) + 1
           a == [world |-> j.world, at |-> n, holds |-> Torn, mod |-> t]
<1> PICK k : k = [j EXCEPT !.pc = "running", !.at = n, !.holds = disk[j.world]]
  OBVIOUS
<1>1. /\ j.kind = "backup" /\ j.pc = "pending" /\ made' = Append(made, j.world)
      /\ shelf' = {b \in shelf : b.at # n} \cup {a} /\ jobs' = (jobs \ {j}) \cup {k}
      /\ UNCHANGED <<server, disk, version, asked, call, exists, clock>>
  BY DEF CopyBegins
<1>2. j \in Jobs /\ JobOK(j) /\ j.tries \in {0, 1} /\ j.world \in Worlds
  BY DEF StockInv, BackupTypes, Jobs
<1>3. /\ Len(made) \in Nat /\ version \in Nat /\ made \in Seq(Worlds)
      /\ MadeGrows /\ Len(made') = Len(made) + 1 /\ made'[Len(made) + 1] = j.world
  BY <1>1, <1>2, LenMade, MadeMore DEF StockInv, BackupTypes
<1>4. n \in 1 .. Len(made') /\ n \in Nat /\ made'[n] = j.world
  <2>1. CASE j.tries = 0
    BY <1>3, <2>1
  <2>2. CASE j.tries # 0
    <3>1. n = j.at /\ j.at \in 1 .. Len(made) /\ made[j.at] = j.world
      BY <1>1, <1>2, <2>2 DEF JobOK
    <3> QED BY <1>3, <3>1 DEF MadeGrows
  <2> QED BY <2>1, <2>2
<1>5. disk[j.world] \in 0 .. version /\ disk[j.world] \in Nat /\ disk[j.world] <= version
  <2>1. disk[j.world] \in 0 .. version
    BY <1>2 DEF StockInv, BackupTypes
  <2> QED BY <1>3, <2>1
<1>12. t \in Nat /\ t = Len(made) + 1
  BY <1>3
<1> HIDE DEF n, t
<1>6. /\ a \in Archives /\ a.at = n /\ a.world = j.world /\ a.holds = 0 /\ a.mod = t
      /\ k \in Jobs /\ k.at = n /\ k.world = j.world /\ k.holds = disk[j.world]
  BY <1>2, <1>4, <1>5, <1>12 DEF Archives, Jobs, Torn
<1> HIDE DEF a
<1>7. ShelfOK'
  <2>1. \A b \in shelf' : b = a \/ (b \in shelf /\ b.at # n)
    BY <1>1
  <2>2. ASSUME NEW b \in shelf
        PROVE  /\ b.at \in 1 .. Len(made') /\ b.world = made'[b.at] /\ b.holds <= version
               /\ b.mod \in b.at .. Len(made') /\ b.world = made'[b.mod]
    <3>1. /\ b.at \in 1 .. Len(made) /\ b.world = made[b.at] /\ b.holds <= version
          /\ b.mod \in b.at .. Len(made) /\ b.world = made[b.mod]
      BY DEF StockInv, ShelfOK
    <3>2. /\ b.at \in 1 .. Len(made') /\ b.mod \in b.at .. Len(made') /\ b.mod \in 1 .. Len(made)
      BY <1>3, <3>1
    <3>3. made'[b.at] = made[b.at] /\ made'[b.mod] = made[b.mod]
      BY <1>3, <3>1, <3>2 DEF MadeGrows
    <3> QED BY <3>1, <3>2, <3>3
  <2>3. \A b, c \in shelf' : b.at = c.at => b = c
    BY <1>6, <2>1 DEF StockInv, ShelfOK
  <2>4. IsFiniteSet(shelf')
    <3>1. IsFiniteSet({b \in shelf : b.at # n})
      BY FS_Subset DEF StockInv, ShelfOK
    <3> QED BY <1>1, <3>1, FS_AddElement
  <2>5. /\ a.at \in 1 .. Len(made') /\ a.world = made'[a.at] /\ a.holds <= version
        /\ a.mod \in a.at .. Len(made') /\ a.world = made'[a.mod]
    BY <1>3, <1>4, <1>6, <1>12
  <2> QED BY <1>1, <2>1, <2>2, <2>3, <2>4, <2>5 DEF ShelfOK
<1>8. \A i \in jobs' : JobOK(i)'
  <2>1. JobOK(k)'
    BY <1>1, <1>2, <1>4, <1>5, <1>6 DEF JobOK
  <2>2. ASSUME NEW i \in jobs PROVE JobOK(i)'
    <3>1. i \in Jobs /\ JobOK(i)
      BY DEF StockInv, BackupTypes
    <3> QED BY <1>1, <1>3, <3>1 DEF JobOK, MadeGrows, Jobs
  <2> QED BY <1>1, <2>1, <2>2
<1>9. shelf' \subseteq Archives
  BY <1>1, <1>6 DEF StockInv, BackupTypes
<1>10. BackupTypes'
  BY <1>1, <1>3, <1>6, <1>9 DEF StockInv, BackupTypes, MadeGrows
<1>11. \A p \in Callers : CallOK(p)'
  BY <1>1 DEF StockInv, CallOK
<1> QED BY <1>7, <1>8, <1>10, <1>11 DEF StockInv

(* What the end of j's copy makes of an archive. *)
Full(j, a) == IF a.at = j.at THEN [a EXCEPT !.holds = j.holds, !.mod = Len(made) + 1] ELSE a

LEMMA FullFacts ==
  ASSUME StockInv, NEW j \in jobs, NEW a \in shelf
  PROVE  /\ Full(j, a) \in Archives /\ Full(j, a).at = a.at /\ Full(j, a).world = a.world
         /\ Full(j, a).holds \in {a.holds, j.holds}
         /\ Full(j, a).mod = IF a.at = j.at THEN Len(made) + 1 ELSE a.mod
<1> DEFINE t == Len(made) + 1
<1>1. j.holds \in Nat /\ t \in Nat /\ a \in Archives
  BY LenMade DEF StockInv, BackupTypes, Jobs
<1>2. Full(j, a) = IF a.at = j.at THEN [a EXCEPT !.holds = j.holds, !.mod = t] ELSE a
  BY DEF Full
<1> HIDE DEF t
<1>3. /\ Full(j, a) \in Archives /\ Full(j, a).at = a.at /\ Full(j, a).world = a.world
      /\ Full(j, a).holds \in {a.holds, j.holds} /\ Full(j, a).mod = IF a.at = j.at THEN t ELSE a.mod
  BY <1>1, <1>2 DEF Archives
<1> QED BY <1>3 DEF t

LEMMA CopyEndsFacts ==
  ASSUME NEW j \in jobs, CopyEnds(j)
  PROVE  /\ j.kind = "backup" /\ j.pc = "running" /\ made' = Append(made, j.world)
         /\ shelf' = {Full(j, a) : a \in shelf} /\ jobs' = jobs \ {j}
         /\ UNCHANGED <<server, disk, version, asked, call, exists, clock>>
BY DEF CopyEnds, Full

LEMMA StockCopyEnds ==
  ASSUME StockInv, NEW j \in jobs, CopyEnds(j)
  PROVE  StockInv'
<1>1. /\ j.kind = "backup" /\ j.pc = "running" /\ made' = Append(made, j.world)
      /\ shelf' = {Full(j, a) : a \in shelf} /\ jobs' = jobs \ {j}
      /\ UNCHANGED <<server, disk, version, asked, call, exists, clock>>
  BY CopyEndsFacts
<1>2. /\ j \in Jobs /\ j.holds \in Nat /\ j.holds <= version /\ j.world \in Worlds
      /\ j.at \in 1 .. Len(made) /\ made[j.at] = j.world
  BY <1>1 DEF StockInv, BackupTypes, Jobs, JobOK
<1>3. /\ Len(made) \in Nat /\ MadeGrows /\ Len(made') = Len(made) + 1 /\ made'[Len(made) + 1] = j.world
  BY <1>1, <1>2, MadeMore DEF StockInv
<1>4. ShelfOK'
  <2>1. \A b \in shelf' : \E a \in shelf : b = Full(j, a)
    BY <1>1
  <2>2. ASSUME NEW b \in shelf'
        PROVE  /\ b.at \in 1 .. Len(made') /\ b.world = made'[b.at] /\ b.holds <= version'
               /\ b.mod \in b.at .. Len(made') /\ b.world = made'[b.mod]
    <3> PICK a \in shelf : b = Full(j, a)
      BY <2>1
    <3>1. /\ a.at \in 1 .. Len(made) /\ a.world = made[a.at] /\ a.holds <= version
          /\ a.mod \in a.at .. Len(made) /\ a.world = made[a.mod]
      BY DEF StockInv, ShelfOK
    <3>2. /\ b.at = a.at /\ b.world = a.world /\ b.holds \in {a.holds, j.holds}
          /\ b.mod = IF a.at = j.at THEN Len(made) + 1 ELSE a.mod
      BY FullFacts
    <3>3. b.holds <= version' /\ b.at \in 1 .. Len(made)
      BY <1>1, <1>2, <3>1, <3>2
    <3>4. b.world = made'[b.at] /\ b.at \in 1 .. Len(made')
      <4>1. made'[b.at] = made[b.at]
        BY <1>3, <3>3 DEF MadeGrows
      <4>2. b.at \in 1 .. Len(made')
        BY <1>3, <3>3
      <4> QED BY <3>1, <3>2, <4>1, <4>2
    <3>5. CASE a.at = j.at
      <4>1. b.mod = Len(made) + 1 /\ b.world = j.world
        BY <1>2, <3>1, <3>2, <3>5
      <4> QED BY <1>3, <3>3, <3>4, <4>1
    <3>6. CASE a.at # j.at
      <4>1. b.mod = a.mod /\ a.mod \in 1 .. Len(made) /\ a.mod \in b.at .. Len(made')
        BY <1>3, <3>1, <3>2, <3>6
      <4>2. made'[b.mod] = made[b.mod]
        BY <1>3, <4>1 DEF MadeGrows
      <4> QED BY <3>1, <3>2, <3>3, <3>4, <4>1, <4>2
    <3> QED BY <3>5, <3>6
  <2>3. ASSUME NEW b \in shelf', NEW c \in shelf', b.at = c.at PROVE b = c
    <3> PICK x \in shelf : b = Full(j, x)
      BY <2>1
    <3> PICK y \in shelf : c = Full(j, y)
      BY <2>1
    <3>1. x.at = y.at
      BY <2>3, FullFacts
    <3> QED BY <3>1 DEF StockInv, ShelfOK
  <2>4. IsFiniteSet(shelf')
    <3> DEFINE f == [a \in shelf |-> Full(j, a)]
    <3>1. f \in Surjection(shelf, shelf')
      BY <1>1 DEF Surjection
    <3> HIDE DEF f
    <3> QED BY <3>1, FS_Surjection DEF StockInv, ShelfOK
  <2> QED BY <2>2, <2>3, <2>4 DEF ShelfOK
<1>5. shelf' \subseteq Archives
  BY <1>1, FullFacts
<1>6. \A i \in jobs' : JobOK(i)'
  <2>1. ASSUME NEW i \in jobs PROVE JobOK(i)'
    <3>1. i \in Jobs /\ JobOK(i)
      BY DEF StockInv, BackupTypes
    <3> QED BY <1>1, <1>3, <3>1 DEF JobOK, MadeGrows, Jobs
  <2> QED BY <1>1, <2>1
<1>7. BackupTypes' /\ \A p \in Callers : CallOK(p)'
  BY <1>1, <1>3, <1>5 DEF StockInv, BackupTypes, CallOK, MadeGrows
<1> QED BY <1>4, <1>6, <1>7 DEF StockInv

LEMMA StockRestoreBegins ==
  ASSUME StockInv, NEW j \in jobs, RestoreBegins(j)
  PROVE  StockInv'
<1> DEFINE k == [j EXCEPT !.pc = "running"]
           js == (jobs \ {j}) \cup {k}
<1>1. /\ j.kind = "restore" /\ disk' = [disk EXCEPT ![j.world] = Torn] /\ jobs' = Tear(j.world, js)
      /\ UNCHANGED <<server, version, shelf, made, asked, call, exists, clock>>
  BY DEF RestoreBegins
<1>2. j \in Jobs /\ JobOK(j) /\ ShelfOK' /\ (\A i \in Jobs : JobOK(i) => JobOK(i)') /\ version' \in Nat
  BY <1>1, StockStays, LenMade DEF StockInv, BackupTypes
<1>3. k \in Jobs /\ k.kind = "restore" /\ k.world = j.world /\ k.holds = j.holds
  BY <1>1, <1>2 DEF Jobs
<1> HIDE DEF k
<1>4. js \in SUBSET Jobs /\ \A i \in js : JobOK(i)'
  <2>1. JobOK(k)'
    BY <1>1, <1>2, <1>3 DEF JobOK
  <2> QED BY <1>2, <1>3, <2>1 DEF StockInv, BackupTypes
<1> HIDE DEF js
<1>5. jobs' \subseteq Jobs /\ \A i \in jobs' : JobOK(i)'
  BY <1>1, <1>2, <1>4, JobsTorn
<1>6. disk' \in [Worlds -> 0 .. version']
  <2>1. version \in Nat /\ Torn \in 0 .. version
    BY LenMade DEF StockInv, Torn
  <2> QED BY <1>1, <2>1 DEF StockInv, BackupTypes
<1>7. BackupTypes' /\ \A p \in Callers : CallOK(p)'
  BY <1>1, <1>5, <1>6 DEF StockInv, BackupTypes, CallOK
<1> QED BY <1>2, <1>5, <1>7 DEF StockInv

LEMMA StockRestoreEnds ==
  ASSUME StockInv, NEW j \in jobs, RestoreEnds(j)
  PROVE  StockInv'
<1>1. PICK a \in shelf : disk' = [disk EXCEPT ![j.world] = a.holds]
  BY DEF RestoreEnds
<1>2. /\ jobs' = Tear(j.world, jobs \ {j})
      /\ UNCHANGED <<server, version, shelf, made, asked, call, exists, clock>>
  BY DEF RestoreEnds
<1>3. /\ ShelfOK' /\ (\A i \in Jobs : JobOK(i) => JobOK(i)') /\ version' \in Nat
      /\ jobs \ {j} \in SUBSET Jobs /\ \A i \in jobs \ {j} : JobOK(i)
  BY <1>2, StockStays, LenMade DEF StockInv, BackupTypes
<1>4. jobs' \subseteq Jobs /\ \A i \in jobs' : JobOK(i)'
  BY <1>2, <1>3, JobsTorn
<1>5. a.holds \in 0 .. version
  BY DEF StockInv, BackupTypes, ShelfOK, Archives
<1>6. disk' \in [Worlds -> 0 .. version']
  BY <1>1, <1>2, <1>5 DEF StockInv, BackupTypes
<1>7. BackupTypes' /\ \A p \in Callers : CallOK(p)'
  BY <1>2, <1>4, <1>6 DEF StockInv, BackupTypes, CallOK
<1> QED BY <1>3, <1>4, <1>7 DEF StockInv

(* Jobs are added and removed, the rest stays. *)
LEMMA StockJobs ==
  ASSUME StockInv, UNCHANGED <<server, disk, version, shelf, made>>, exists \subseteq exists', exists' \subseteq Worlds,
         NEW new \in SUBSET Jobs, \A j \in new : JobOK(j)', jobs' \subseteq jobs \cup new,
         clock' \in Clocks, call' \in [Callers -> BackupCalls], \A p \in Callers : CallOK(p)'
  PROVE  StockInv'
<1>1. ASSUME NEW j \in jobs PROVE JobOK(j)' /\ j \in Jobs
  <2>1. JobOK(j) /\ j \in Jobs
    BY DEF StockInv, BackupTypes
  <2> QED BY <2>1 DEF JobOK
<1>2. ShelfOK'
  BY DEF StockInv, ShelfOK
<1>3. BackupTypes'
  BY <1>1 DEF StockInv, BackupTypes
<1> QED BY <1>1, <1>2, <1>3 DEF StockInv

LEMMA StockJobFails ==
  ASSUME StockInv, NEW j \in jobs, JobFails(j)
  PROVE  StockInv'
<1> DEFINE k == [j EXCEPT !.pc = "pending", !.tries = 1]
<1>1. /\ jobs' \subseteq jobs \cup {k} /\ j.pc = "running"
      /\ UNCHANGED <<server, disk, version, shelf, made, asked, call, exists, clock>>
  BY DEF JobFails
<1>2. j \in Jobs /\ JobOK(j)
  BY DEF StockInv, BackupTypes
<1>3. k \in Jobs /\ k.kind = j.kind /\ k.world = j.world /\ k.at = j.at /\ k.holds = j.holds
  BY <1>2 DEF Jobs
<1> HIDE DEF k
<1>4. JobOK(k)'
  BY <1>1, <1>2, <1>3 DEF JobOK
<1>5. clock' \in Clocks /\ call' \in [Callers -> BackupCalls] /\ \A p \in Callers : CallOK(p)'
  BY <1>1 DEF StockInv, BackupTypes, CallOK
<1>6. {k} \in SUBSET Jobs /\ (\A i \in {k} : JobOK(i)') /\ exists' \subseteq Worlds /\ exists \subseteq exists'
  BY <1>1, <1>3, <1>4 DEF StockInv, BackupTypes
<1> QED BY <1>1, <1>5, <1>6, StockJobs

-----------------------------------------------------------------------------
(* StockInv is kept by every step: the goroutines of Agrelha *)

LEMMA CallFacts ==
  ASSUME StockInv, NEW p \in Callers
  PROVE  call[p] \in BackupCalls /\ CallOK(p) /\ Scheduler \notin Admins /\ BackupTypes
BY BackupsAssumption DEF StockInv, BackupTypes

LEMMA BegunFacts ==
  ASSUME NEW w \in Worlds, NEW running \in BOOLEAN, NEW q \in SUBSET Worlds
  PROVE  /\ Begun(w, running, q) \in BackupCalls /\ Begun(w, running, q).pc = "launch" /\ Begun(w, running, q).w = w
         /\ Begun(w, running, q).quiet = (running /\ w \in Minecraft) /\ Begun(w, running, q).old = {} /\ Begun(w, running, q).queue = q
BY NoCallFacts DEF Begun, BackupCalls

LEMMA NightlyFacts ==
  ASSUME NEW w \in Worlds, NEW q \in SUBSET Worlds
  PROVE  /\ Begun(w, TRUE, q) \in BackupCalls /\ Begun(w, TRUE, q).pc = "launch" /\ Begun(w, TRUE, q).w = w
         /\ (w \in Minecraft => Begun(w, TRUE, q).quiet) /\ Begun(w, TRUE, q).old = {} /\ Begun(w, TRUE, q).queue = q
BY NoCallFacts DEF Begun, BackupCalls

LEMMA StockCreateBackup ==
  ASSUME StockInv, NEW p \in Admins, NEW w \in Worlds, CreateBackup(p, w)
  PROVE  StockInv'
<1>1. /\ p \in Callers /\ w \in exists /\ Quiesced(w, server[w].up, TRUE)
      /\ call' = [call EXCEPT ![p] = Begun(w, server[w].up, {})] /\ UNCHANGED <<shelf, made, exists, clock>>
  BY DEF CreateBackup, Callers
<1>2. server[w].up \in BOOLEAN
  BY DEF StockInv, BackupTypes
<1> PICK running : running = server[w].up
  OBVIOUS
<1> PICK k : k = Begun(w, running, {})
  OBVIOUS
<1>3. k \in BackupCalls /\ k.pc = "launch" /\ k.w = w /\ k.queue = {}
  BY <1>2, BegunFacts
<1>4. call' \in [Callers -> BackupCalls] /\ \A q \in Callers : CallOK(q)'
  BY <1>1, <1>3, CallChanges DEF StockInv
<1>5. /\ server' \in [Worlds -> [up : BOOLEAN, saving : BOOLEAN]]
      /\ version' \in 0 .. MaxVersions /\ disk' \in [Worlds -> 0 .. version']
      /\ jobs' \subseteq Jobs /\ (\A j \in jobs' : JobOK(j)') /\ ShelfOK'
  BY <1>1, <1>2, QuiescedFacts
<1> QED BY <1>1, <1>4, <1>5 DEF StockInv, BackupTypes

LEMMA ClockTries ==
  ASSUME BackupTypes, NEW p \in Callers, call[p].w \in Worlds,
         clock' = IF p = Scheduler THEN [clock EXCEPT !.tried = @ \cup {call[p].w}] ELSE clock
  PROVE  clock' \in Clocks
BY DEF BackupTypes, Clocks

LEMMA StockLaunch ==
  ASSUME StockInv, NEW p \in Callers, Launch(p)
  PROVE  StockInv'
<1> DEFINE listed == {a.at : a \in Excess(p)}
<1>1. /\ call[p].pc = "launch"
      /\ clock' = IF p = Scheduler THEN [clock EXCEPT !.tried = @ \cup {call[p].w}] ELSE clock
      /\ UNCHANGED <<server, disk, version, shelf, made, asked, exists>>
      /\ jobs' \subseteq jobs \cup {BackupJob(call[p].w)}
      /\ \/ call' = [call EXCEPT ![p].pc = "finish", ![p].old = listed]
         \/ call' = [call EXCEPT ![p].pc = "finish"]
  BY DEF Launch
<1>2. call[p] \in BackupCalls /\ CallOK(p) /\ BackupTypes /\ call[p].w \in exists /\ call[p].w \in Worlds
  BY <1>1, CallFacts DEF CallOK, BackupTypes
<1>3. listed \subseteq Nat
  BY DEF Excess, Matching, StockInv, BackupTypes, Archives
<1>4. PICK k \in BackupCalls : k.pc = "finish" /\ k.w = call[p].w /\ k.queue = call[p].queue /\ call' = [call EXCEPT ![p] = k]
  <2> DEFINE x == [call[p] EXCEPT !.pc = "finish", !.old = listed]
             y == [call[p] EXCEPT !.pc = "finish"]
  <2>1. /\ x \in BackupCalls /\ x.pc = "finish" /\ x.w = call[p].w /\ x.queue = call[p].queue
        /\ y \in BackupCalls /\ y.pc = "finish" /\ y.w = call[p].w /\ y.queue = call[p].queue
    BY <1>2, <1>3 DEF BackupCalls
  <2>2. call' = [call EXCEPT ![p] = x] \/ call' = [call EXCEPT ![p] = y]
    BY <1>1
  <2> QED BY <2>1, <2>2
<1>5. call' \in [Callers -> BackupCalls] /\ \A q \in Callers : CallOK(q)'
  BY <1>1, <1>2, <1>4, CallChanges DEF StockInv, CallOK
<1> PICK j : j = BackupJob(call[p].w)
  OBVIOUS
<1>6. j \in Jobs /\ JobOK(j)'
  <2>1. version \in Nat /\ version' = version /\ exists' = exists
    BY <1>1, <1>2, LenMade
  <2> QED BY <1>2, <2>1 DEF BackupJob, Jobs, JobOK, Torn
<1>7. /\ clock' \in Clocks /\ exists \subseteq exists' /\ exists' \subseteq Worlds
      /\ {j} \in SUBSET Jobs /\ (\A i \in {j} : JobOK(i)') /\ jobs' \subseteq jobs \cup {j}
  BY <1>1, <1>2, <1>6, ClockTries DEF BackupTypes
<1> QED BY <1>1, <1>5, <1>7, StockJobs

LEMMA StockFinish ==
  ASSUME StockInv, NEW p \in Callers, Finish(p)
  PROVE  StockInv'
<1>1. /\ call[p].pc = "finish" /\ shelf' = {a \in shelf : a.at \notin call[p].old}
      /\ SaveOn(p)
      /\ call' = [call EXCEPT ![p] = Returned(p)]
      /\ UNCHANGED <<disk, version, made, jobs, asked, exists, clock>>
  BY DEF Finish
<1>2. call[p] \in BackupCalls /\ CallOK(p) /\ BackupTypes /\ call[p].w \in Worlds /\ Scheduler \notin Admins
  BY <1>1, CallFacts DEF CallOK, BackupTypes
<1> PICK k : k = Returned(p)
  OBVIOUS
<1>3. /\ k \in BackupCalls /\ k.pc = (IF p = Scheduler THEN "next" ELSE "idle") /\ ~k.quiet
      /\ k.queue = call[p].queue
  BY <1>2, NoCallFacts DEF Returned, BackupCalls
<1>4. call' \in [Callers -> BackupCalls] /\ \A q \in Callers : CallOK(q)'
  BY <1>1, <1>2, <1>3, CallChanges DEF StockInv, CallOK
<1>5. server' \in [Worlds -> [up : BOOLEAN, saving : BOOLEAN]]
  <2> PICK w \in Worlds : w = call[p].w
    BY <1>2
  <2>1. server \in [Worlds -> [up : BOOLEAN, saving : BOOLEAN]]
    BY <1>2 DEF BackupTypes
  <2> DEFINE s == [server[w] EXCEPT !.saving = TRUE]
  <2>2. s \in [up : BOOLEAN, saving : BOOLEAN]
    BY <2>1
  <2>3. server' = server \/ server' = [server EXCEPT ![w] = s]
    BY <1>1 DEF SaveOn
  <2> HIDE DEF s
  <2> QED BY <2>1, <2>2, <2>3
<1>6. ShelfOK' /\ \A j \in jobs' : JobOK(j)'
  BY <1>1, FS_Subset DEF StockInv, ShelfOK, JobOK, BackupTypes
<1>7. BackupTypes'
  BY <1>1, <1>4, <1>5, <1>6 DEF StockInv, BackupTypes
<1> QED BY <1>4, <1>6, <1>7 DEF StockInv

(* A request of the backups page that only launches Jobs. *)
LEMMA StockRestores ==
  ASSUME StockInv, NEW p \in Admins, NEW w \in Worlds, NEW a \in shelf, RestoreInPlace(p, w, a) \/ RestoreNew(p, w, a)
  PROVE  StockInv'
<1> PICK b : b = BackupJob(w)
  OBVIOUS
<1> PICK r : r = RestoreJob(w, a.at)
  OBVIOUS
<1>1. /\ UNCHANGED <<server, disk, version, shelf, made, call, clock>>
      /\ jobs' \subseteq jobs \cup {b, r} /\ w \in exists' /\ exists' \in {exists, exists \cup {w}}
  BY DEF RestoreInPlace, RestoreNew
<1>2. BackupTypes /\ version \in Nat /\ a.at \in Nat /\ exists \subseteq exists' /\ exists' \subseteq Worlds
  BY <1>1, LenMade DEF StockInv, BackupTypes, Archives
<1>3. {b, r} \in SUBSET Jobs /\ \A j \in {b, r} : JobOK(j)'
  BY <1>1, <1>2 DEF BackupJob, RestoreJob, Jobs, JobOK, Torn
<1>4. clock' \in Clocks /\ call' \in [Callers -> BackupCalls] /\ \A q \in Callers : CallOK(q)'
  BY <1>1, <1>2 DEF StockInv, BackupTypes, CallOK
<1> QED BY <1>1, <1>2, <1>3, <1>4, StockJobs

LEMMA StockDeleteBackup ==
  ASSUME StockInv, NEW p \in Admins, NEW a \in shelf, DeleteBackup(p, a)
  PROVE  StockInv'
<1>1. shelf' = shelf \ {a} /\ UNCHANGED <<server, disk, version, made, jobs, call, exists, clock>>
  BY DEF DeleteBackup
<1> QED BY <1>1, FS_Subset DEF StockInv, BackupTypes, ShelfOK, JobOK, CallOK

LEMMA RunDailyFacts ==
  ASSUME RunDaily
  PROVE  \E listed \in SUBSET exists :
           /\ clock.four /\ clock.last # clock.day /\ call[Scheduler].pc = "idle"
           /\ clock' = [clock EXCEPT !.last = clock.day, !.passes = @ + 1, !.listed = listed, !.tried = {}]
           /\ call' = [call EXCEPT ![Scheduler] = [NoCall EXCEPT !.pc = "next", !.queue = listed]]
           /\ UNCHANGED <<server, disk, version, shelf, made, jobs, asked, exists>>
BY DEF RunDaily

LEMMA StockDaily ==
  ASSUME StockInv, HourPasses \/ RunDaily \/ ProcessRestarts
  PROVE  StockInv'
<1>1. clock \in Clocks /\ BackupTypes /\ exists \subseteq Worlds
  BY DEF StockInv, BackupTypes
<1>2. CASE HourPasses
  <2>1. clock' \in Clocks
    <3>1. \/ clock' = [clock EXCEPT !.four = FALSE, !.day = clock.day + 1, !.passes = 0]
          \/ clock' = [clock EXCEPT !.four = TRUE]
      BY <1>2 DEF HourPasses
    <3>2. clock.day \in Nat /\ clock \in Clocks
      BY <1>1 DEF Clocks
    <3> PICK d : d = clock.day + 1
      OBVIOUS
    <3>3. d \in Nat
      BY <3>2
    <3>4. [clock EXCEPT !.four = TRUE] \in Clocks
      BY <3>2 DEF Clocks
    <3>5. [clock EXCEPT !.four = FALSE, !.day = d, !.passes = 0] \in Clocks
      BY <3>2, <3>3 DEF Clocks
    <3> QED BY <3>1, <3>4, <3>5
  <2>2. UNCHANGED <<server, disk, version, shelf, made, jobs, asked, call, exists>>
    BY <1>2 DEF HourPasses
  <2> QED BY <1>1, <2>1, <2>2 DEF StockInv, BackupTypes, ShelfOK, JobOK, CallOK
<1>3. CASE RunDaily
  <2>1. PICK listed \in SUBSET exists :
           /\ clock' = [clock EXCEPT !.last = clock.day, !.passes = @ + 1, !.listed = listed, !.tried = {}]
           /\ call' = [call EXCEPT ![Scheduler] = [NoCall EXCEPT !.pc = "next", !.queue = listed]]
           /\ UNCHANGED <<server, disk, version, shelf, made, jobs, asked, exists>>
    BY <1>3, RunDailyFacts
  <2> PICK k : k = [NoCall EXCEPT !.pc = "next", !.queue = listed]
    OBVIOUS
  <2>2. k \in BackupCalls /\ k.pc = "next" /\ ~k.quiet /\ k.queue = listed /\ Scheduler \in Callers
    BY <1>1, NoCallFacts DEF BackupCalls, Callers
  <2>3. call' \in [Callers -> BackupCalls] /\ \A q \in Callers : CallOK(q)'
    BY <1>1, <2>1, <2>2, BackupsAssumption, CallChanges DEF StockInv
  <2>4. clock' \in Clocks
    <3>1. clock.day \in Nat /\ clock.passes \in Nat /\ clock \in Clocks /\ listed \in SUBSET Worlds
      BY <1>1 DEF Clocks
    <3> PICK n, d : n = clock.passes + 1 /\ d = clock.day
      OBVIOUS
    <3>2. n \in Nat /\ d \in Nat
      BY <3>1
    <3>3. clock' = [clock EXCEPT !.last = d, !.passes = n, !.listed = listed, !.tried = {}]
      BY <2>1
    <3> QED BY <3>1, <3>2, <3>3 DEF Clocks
  <2> QED BY <1>1, <2>1, <2>3, <2>4 DEF StockInv, BackupTypes, ShelfOK, JobOK
<1>4. CASE ProcessRestarts
  <2>1. /\ call' = [p \in Callers |-> NoCall] /\ clock' = [clock EXCEPT !.last = 0]
        /\ UNCHANGED <<server, disk, version, shelf, made, jobs, asked, exists>>
    BY <1>4 DEF ProcessRestarts
  <2>2. call' \in [Callers -> BackupCalls] /\ \A q \in Callers : CallOK(q)'
    BY <2>1, NoCallFacts DEF CallOK
  <2>3. clock' \in Clocks
    BY <1>1, <2>1 DEF Clocks
  <2> QED BY <1>1, <2>1, <2>2, <2>3 DEF StockInv, BackupTypes, ShelfOK, JobOK
<1> QED BY <1>2, <1>3, <1>4

(* The next world of a daily pass, if there is one. *)
LEMMA BackupOneFacts ==
  ASSUME StockInv, BackupOne
  PROVE  /\ call[Scheduler].pc = "next" /\ UNCHANGED <<shelf, made, asked, exists, clock>>
         /\ \/ /\ call[Scheduler].queue = {} /\ call' = [call EXCEPT ![Scheduler] = NoCall]
               /\ UNCHANGED <<server, version, disk, jobs>>
            \/ \E w \in call[Scheduler].queue :
                 /\ w \in exists /\ w \in Worlds /\ Quiesced(w, TRUE, FALSE)
                 /\ call' = [call EXCEPT ![Scheduler] = Begun(w, TRUE, call[Scheduler].queue \ {w})]
<1>1. CallOK(Scheduler) /\ exists \subseteq Worlds
  BY CallFacts DEF Callers, BackupTypes
<1> QED BY <1>1 DEF BackupOne, CallOK

LEMMA StockBackupOne ==
  ASSUME StockInv, BackupOne
  PROVE  StockInv'
<1>1. /\ call[Scheduler] \in BackupCalls /\ CallOK(Scheduler) /\ Scheduler \notin Admins /\ BackupTypes
      /\ Scheduler \in Callers /\ UNCHANGED <<shelf, made, asked, exists, clock>>
  BY CallFacts, BackupOneFacts DEF Callers
<1>2. CASE call' = [call EXCEPT ![Scheduler] = NoCall] /\ UNCHANGED <<server, version, disk, jobs>>
  <2>1. call' \in [Callers -> BackupCalls] /\ \A p \in Callers : CallOK(p)'
    BY <1>1, <1>2, NoCallFacts, CallChanges DEF StockInv
  <2> QED BY <1>1, <1>2, <2>1 DEF StockInv, BackupTypes, ShelfOK, JobOK
<1>3. ASSUME NEW w \in Worlds, w \in exists, Quiesced(w, TRUE, FALSE),
             call' = [call EXCEPT ![Scheduler] = Begun(w, TRUE, call[Scheduler].queue \ {w})]
      PROVE  StockInv'
  <2> PICK q : q = call[Scheduler].queue \ {w}
    OBVIOUS
  <2> PICK k : k = Begun(w, TRUE, q)
    OBVIOUS
  <2>1. q \in SUBSET Worlds
    BY <1>1 DEF BackupCalls
  <2>2. k \in BackupCalls /\ k.pc = "launch" /\ k.w = w /\ k.queue = q
    BY <2>1, NightlyFacts
  <2>3. call' \in [Callers -> BackupCalls] /\ \A p \in Callers : CallOK(p)'
    BY <1>1, <1>3, <2>2, CallChanges DEF StockInv, CallOK
  <2>4. /\ server' \in [Worlds -> [up : BOOLEAN, saving : BOOLEAN]]
        /\ version' \in 0 .. MaxVersions /\ disk' \in [Worlds -> 0 .. version']
        /\ jobs' \subseteq Jobs /\ (\A j \in jobs' : JobOK(j)') /\ ShelfOK'
    BY <1>1, <1>3, QuiescedFacts
  <2> QED BY <1>1, <2>3, <2>4 DEF StockInv, BackupTypes
<1> QED BY <1>2, <1>3, BackupOneFacts

LEMMA StockStep == StockInv /\ [BackupsNext]_backupVars => StockInv'
<1> SUFFICES ASSUME StockInv, [BackupsNext]_backupVars PROVE StockInv'
  OBVIOUS
<1>1. ASSUME NEW w \in Worlds, ServerSaves(w) \/ ServerStops(w) \/ ServerStarts(w) PROVE StockInv'
  BY <1>1, StockServer
<1>2. ASSUME NEW j \in jobs, CopyBegins(j) \/ CopyEnds(j) \/ RestoreBegins(j) \/ RestoreEnds(j) \/ JobFails(j)
      PROVE  StockInv'
  BY <1>2, StockCopyBegins, StockCopyEnds, StockRestoreBegins, StockRestoreEnds, StockJobFails
<1>3. ASSUME NEW p \in Callers, Launch(p) \/ Finish(p) PROVE StockInv'
  BY <1>3, StockLaunch, StockFinish
<1>4. ASSUME NEW p \in Admins, NEW w \in Worlds, CreateBackup(p, w) PROVE StockInv'
  BY <1>4, StockCreateBackup
<1>5. ASSUME NEW p \in Admins, NEW a \in shelf, DeleteBackup(p, a) PROVE StockInv'
  BY <1>5, StockDeleteBackup
<1>6. ASSUME NEW p \in Admins, NEW w \in Worlds, NEW a \in shelf, RestoreInPlace(p, w, a) \/ RestoreNew(p, w, a)
      PROVE  StockInv'
  BY <1>6, StockRestores
<1>7. CASE HourPasses \/ RunDaily \/ BackupOne \/ ProcessRestarts
  BY <1>7, StockDaily, StockBackupOne
<1>8. CASE UNCHANGED backupVars
  BY <1>8 DEF backupVars, StockInv, BackupTypes, ShelfOK, JobOK, CallOK
<1> QED BY <1>1, <1>2, <1>3, <1>4, <1>5, <1>6, <1>7, <1>8 DEF BackupsNext

(* The backups are well typed: archives are numbered as they were begun and  *)
(* belong to the world that CreateBackupJob copied, every Job and call is    *)
(* about a world that has a row (CreateBackup, RestoreNew, RunDaily).        *)
THEOREM BackupsTypeCorrect == BackupsSpec => []BackupsTypeOK
<1>1. BackupsSpec => []StockInv
  BY StockInit, StockStep, PTL DEF BackupsSpec
<1> QED BY <1>1, StockInvImplies, PTL
-----------------------------------------------------------------------------
(* A server is told to save again *)

(* What a launch leaves of the calls. *)
LEMMA LaunchFacts ==
  ASSUME StockInv, NEW p \in Callers, Launch(p)
  PROVE  /\ \A q \in Callers : /\ call[q].quiet => call'[q].quiet
                               /\ call'[q].w = call[q].w /\ call'[q].queue = call[q].queue
                               /\ call'[q].old \subseteq call[q].old \cup {a.at : a \in Excess(q)}
         /\ call[p].pc = "launch" /\ call'[p].pc = "finish" /\ \A q \in Callers \ {p} : call'[q] = call[q]
<1> PICK old : old = {a.at : a \in Excess(p)}
  OBVIOUS
<1> PICK k \in BackupCalls : k = call[p]
  BY CallFacts
<1> DEFINE x == [k EXCEPT !.pc = "finish", !.old = old]
           y == [k EXCEPT !.pc = "finish"]
<1>1. call \in [Callers -> BackupCalls] /\ call[p].pc = "launch" /\ k = call[p]
      /\ (call' = [call EXCEPT ![p] = x] \/ call' = [call EXCEPT ![p] = y])
  BY DEF StockInv, BackupTypes, Launch
<1>2. /\ x.pc = "finish" /\ x.w = k.w /\ x.queue = k.queue /\ x.old = old /\ (k.quiet => x.quiet)
      /\ y.pc = "finish" /\ y.w = k.w /\ y.queue = k.queue /\ y.old = k.old /\ (k.quiet => y.quiet)
  BY DEF BackupCalls
<1> HIDE DEF x, y
<1>3. (call'[p] = x \/ call'[p] = y) /\ \A q \in Callers \ {p} : call'[q] = call[q]
  BY <1>1
<1> QED BY <1>1, <1>2, <1>3

(* No /save-on fails and Agrelha does not die in the middle of a backup. *)
CommandsArrive == BackupFaults \cap {"command", "process"} = {}

(* Somebody will tell w to save. *)
Promised(w) == \E p \in Callers : call[p].w = w /\ call[p].quiet
Silent(w) == server[w].up /\ ~server[w].saving

(* The servers are as they were, and the calls that promised still do. *)
LEMMA PromisesKept ==
  ASSUME SavesReturn, NEW w \in Worlds, Silent(w)' => Silent(w),
         \A p \in Callers : call[p].quiet /\ call[p].w = w => call'[p].quiet /\ call'[p].w = w
  PROVE  Silent(w)' => Promised(w)'
BY DEF SavesReturn, Silent, Promised

(* The promise of the call that has just quiesced the server. *)
LEMMA QuiescedSaves ==
  ASSUME StockInv, SavesReturn, NEW p \in Callers, ~call[p].quiet, NEW w \in Worlds, NEW running \in BOOLEAN, NEW tell \in BOOLEAN,
         Quiesced(w, running, tell), NEW k \in BackupCalls, call' = [call EXCEPT ![p] = k],
         k.w = w, running /\ w \in Minecraft => k.quiet
  PROVE  SavesReturn'
<1>1. call \in [Callers -> BackupCalls] /\ server \in [Worlds -> [up : BOOLEAN, saving : BOOLEAN]]
  BY DEF StockInv, BackupTypes
<1>2. call'[p] = k /\ \A q \in Callers \ {p} : call'[q] = call[q]
  BY <1>1
<1>3. ASSUME NEW v \in Worlds, Silent(v)' PROVE Promised(v)'
  <2>1. CASE Silent(v)
    <3>1. \A q \in Callers : call[q].quiet /\ call[q].w = v => call'[q].quiet /\ call'[q].w = v
      BY <1>2
    <3> QED BY <1>3, <2>1, <3>1, PromisesKept
  <2>2. CASE ~Silent(v)
    <3>1. v = w /\ w \in Minecraft /\ running
      BY <1>1, <1>3, <2>2 DEF Quiesced, Silent
    <3> QED BY <1>2, <3>1 DEF Promised
  <2> QED BY <2>1, <2>2
<1> QED BY <1>3 DEF SavesReturn, Silent, Promised

LEMMA SavesAfterFinish ==
  ASSUME StockInv, SavesReturn, CommandsArrive, NEW p \in Callers, Finish(p)
  PROVE  SavesReturn'
<1>1. call[p].pc = "finish" /\ SaveOn(p) /\ call' = [call EXCEPT ![p] = Returned(p)] /\ "command" \notin BackupFaults
  BY DEF Finish, CommandsArrive
<1>2. /\ call \in [Callers -> BackupCalls] /\ server \in [Worlds -> [up : BOOLEAN, saving : BOOLEAN]]
      /\ call[p].w \in Worlds
  BY <1>1, CallFacts DEF StockInv, BackupTypes, CallOK
<1>3. \A q \in Callers \ {p} : call'[q] = call[q]
  BY <1>1, <1>2
<1>4. ASSUME NEW v \in Worlds, Silent(v)' PROVE Promised(v)'
  <2>1. Silent(v)
    BY <1>1, <1>2, <1>4 DEF SaveOn, Silent
  <2>2. ~(call[p].quiet /\ call[p].w = v)
    BY <1>1, <1>2, <1>4 DEF SaveOn, Silent
  <2>3. \A q \in Callers : call[q].quiet /\ call[q].w = v => call'[q].quiet /\ call'[q].w = v
    BY <1>3, <2>2
  <2> QED BY <1>4, <2>1, <2>3, PromisesKept
<1> QED BY <1>4 DEF SavesReturn, Silent, Promised

(* A step that quiets no server and ends no promise. *)
LEMMA SavesKept ==
  ASSUME SavesReturn, \A w \in Worlds : Silent(w)' => Silent(w),
         \A p \in Callers : call[p].quiet => call'[p].quiet /\ call'[p].w = call[p].w
  PROVE  SavesReturn'
BY DEF SavesReturn, Silent

LEMMA SavesStep ==
  ASSUME CommandsArrive, StockInv, SavesReturn, [BackupsNext]_backupVars
  PROVE  SavesReturn'
<1>0. call \in [Callers -> BackupCalls] /\ server \in [Worlds -> [up : BOOLEAN, saving : BOOLEAN]]
  BY DEF StockInv, BackupTypes
<1>1. ASSUME NEW w \in Worlds, ServerSaves(w) \/ ServerStops(w) \/ ServerStarts(w) PROVE SavesReturn'
  <2>1. call' = call /\ \A v \in Worlds : Silent(v)' => Silent(v)
    BY <1>0, <1>1 DEF ServerSaves, ServerStops, ServerStarts, Silent
  <2> QED BY <2>1, SavesKept
<1>2. CASE UNCHANGED <<server, call>>
  BY <1>2, SavesKept DEF Silent
<1>3. ASSUME NEW p \in Callers, Finish(p) PROVE SavesReturn'
  BY <1>3, SavesAfterFinish
<1>4. ASSUME NEW p \in Admins, NEW w \in Worlds, CreateBackup(p, w) PROVE SavesReturn'
  <2>1. p \in Callers /\ call[p].pc = "idle" /\ CallOK(p)
    BY <1>4, CallFacts DEF CreateBackup, Callers
  <2> PICK running : running = server[w].up
    OBVIOUS
  <2> PICK k : k = Begun(w, running, {})
    OBVIOUS
  <2>2. running \in BOOLEAN /\ k \in BackupCalls /\ k.w = w /\ (running /\ w \in Minecraft => k.quiet)
    BY <1>0, BegunFacts
  <2>3. Quiesced(w, running, TRUE) /\ call' = [call EXCEPT ![p] = k]
    BY <1>4 DEF CreateBackup
  <2>4. ~call[p].quiet
    BY <2>1 DEF CallOK
  <2> QED BY <2>1, <2>2, <2>3, <2>4, QuiescedSaves
<1>5. CASE BackupOne
  <2>1. Scheduler \in Callers /\ CallOK(Scheduler) /\ call[Scheduler].pc = "next" /\ call[Scheduler] \in BackupCalls
    BY <1>5, CallFacts, BackupOneFacts DEF Callers
  <2>2. ~call[Scheduler].quiet
    BY <2>1 DEF CallOK
  <2>3. CASE call' = [call EXCEPT ![Scheduler] = NoCall] /\ UNCHANGED <<server, version, disk, jobs>>
    <3>1. server' = server /\ \A p \in Callers : call[p].quiet => call'[p].quiet /\ call'[p].w = call[p].w
      BY <1>0, <2>2, <2>3
    <3> QED BY <3>1, SavesKept DEF Silent
  <2>4. ASSUME NEW w \in Worlds, Quiesced(w, TRUE, FALSE),
               call' = [call EXCEPT ![Scheduler] = Begun(w, TRUE, call[Scheduler].queue \ {w})]
        PROVE  SavesReturn'
    <3> PICK q : q = call[Scheduler].queue \ {w}
      OBVIOUS
    <3> PICK k : k = Begun(w, TRUE, q)
      OBVIOUS
    <3>1. q \in SUBSET Worlds
      BY <2>1 DEF BackupCalls
    <3>2. k \in BackupCalls /\ k.w = w /\ (w \in Minecraft => k.quiet)
      BY <3>1, NightlyFacts
    <3> QED BY <2>1, <2>2, <2>4, <3>2, QuiescedSaves
  <2> QED BY <1>5, <2>3, <2>4, BackupOneFacts
<1>6. CASE RunDaily
  <2>1. Scheduler \in Callers /\ CallOK(Scheduler) /\ call[Scheduler].pc = "idle" /\ server' = server
    BY <1>6, CallFacts, RunDailyFacts DEF Callers
  <2>2. ~call[Scheduler].quiet /\ \A p \in Callers \ {Scheduler} : call'[p] = call[p]
    BY <1>0, <1>6, <2>1, RunDailyFacts DEF CallOK
  <2> QED BY <2>1, <2>2, SavesKept DEF Silent
<1>7. CASE ProcessRestarts
  <2>1. server' = server /\ \A p \in Callers : call[p].pc = "idle" /\ CallOK(p)
    BY <1>7, CallFacts DEF ProcessRestarts, CommandsArrive
  <2>2. \A p \in Callers : ~call[p].quiet
    BY <2>1 DEF CallOK
  <2> QED BY <2>1, <2>2, SavesKept DEF Silent
<1>8. BackupsNext \/ UNCHANGED backupVars
  OBVIOUS
<1>9. CASE UNCHANGED backupVars
  BY <1>2, <1>9 DEF backupVars
<1>10. CASE \/ \E j \in jobs : CopyBegins(j) \/ CopyEnds(j) \/ RestoreBegins(j) \/ RestoreEnds(j) \/ JobFails(j)
            \/ \E p \in Admins, a \in shelf : DeleteBackup(p, a)
            \/ \E p \in Admins, w \in Worlds, a \in shelf : RestoreInPlace(p, w, a) \/ RestoreNew(p, w, a)
            \/ HourPasses
  <2>1. UNCHANGED <<server, call>>
    BY <1>10 DEF CopyBegins, CopyEnds, RestoreBegins, RestoreEnds, JobFails, DeleteBackup, RestoreInPlace, RestoreNew, HourPasses
  <2> QED BY <1>2, <2>1
<1>11. ASSUME NEW p \in Callers, Launch(p) PROVE SavesReturn'
  <2>1. server' = server /\ \A q \in Callers : call[q].quiet => call'[q].quiet /\ call'[q].w = call[q].w
    BY <1>11, LaunchFacts DEF Launch
  <2> QED BY <2>1, SavesKept DEF Silent
<1> QED BY <1>1, <1>3, <1>4, <1>5, <1>6, <1>7, <1>8, <1>9, <1>10, <1>11 DEF BackupsNext

(* As long as its commands reach the servers and Agrelha is only restarted   *)
(* at a quiet moment, a server that runs without saving is one that a backup *)
(* in progress has told so and will tell to save again, whatever fails in    *)
(* between and however many backups overlap (the deferred /save-on of        *)
(* CreateBackup and backupOne).                                              *)
THEOREM BackupsLetServersSave == CommandsArrive => (BackupsSpec => []SavesReturn)
<1> SUFFICES ASSUME CommandsArrive PROVE BackupsSpec => []SavesReturn
  OBVIOUS
<1>1. InitBackups => StockInv /\ SavesReturn
  BY StockInit DEF InitBackups, SavesReturn
<1>2. StockInv /\ SavesReturn /\ [BackupsNext]_backupVars => StockInv' /\ SavesReturn'
  BY StockStep, SavesStep
<1> QED BY <1>1, <1>2, PTL DEF BackupsSpec
-----------------------------------------------------------------------------
(* The daily pass and the archives that are pruned *)

(* Agrelha is only restarted at a quiet moment, the pattern of a world       *)
(* matches its own archives alone, Jobs copy a world one at a time, and no   *)
(* operator deletes an archive while a pruning is removing some.             *)
StaysUp == "process" \notin BackupFaults
OwnPatterns == \A w, v \in Worlds : <<w, v>> \in Globs \cup DailyGlobs => w = v
CopiesApart == "overlap" \notin BackupFaults
DeletesApart == "delete" \notin BackupFaults

(* The pass of the day is noted before it begins, and a world that it listed *)
(* is tried, about to be, or still in the queue.                             *)
DayInv ==
  /\ clock.passes = 0 \/ (clock.passes = 1 /\ clock.last = clock.day /\ clock.four)
  /\ call[Scheduler].pc = "idle" => call[Scheduler].queue = {}
  /\ \A w \in clock.listed : \/ w \in clock.tried \/ w \in call[Scheduler].queue
                             \/ call[Scheduler].pc = "launch" /\ call[Scheduler].w = w

(* The archives of a's world in s that were written after a. *)
LaterIn(s, a) == {b \in s : b.world = a.world /\ b.mod > a.mod}
SparedIn(s, a) == Keep <= Cardinality(LaterIn(s, a))

(* An archive that is listed to be removed is not being written any more,    *)
(* and as long as it is there, so are Keep later ones.                       *)
PruneInv == \A p \in Callers : /\ call[p].old \subseteq 1 .. Len(made)
                               /\ \A j \in jobs : InProgress(j) => j.at \notin call[p].old
                               /\ \A a \in shelf : a.at \in call[p].old => SparedIn(shelf, a)

(* What a Job is writing was written after every other archive of its world, *)
(* and no other Job is writing one.                                          *)
CopyInv == /\ \A i, j \in jobs : InProgress(i) /\ InProgress(j) /\ i.world = j.world => i = j
           /\ \A j \in jobs : InProgress(j) =>
                \A a, b \in shelf : a.at = j.at /\ b.world = a.world /\ b.at # a.at => b.mod < a.mod

LEMMA LaterFinite ==
  ASSUME NEW s, IsFiniteSet(s), NEW a
  PROVE  IsFiniteSet(LaterIn(s, a)) /\ Cardinality(LaterIn(s, a)) \in Nat
<1>1. LaterIn(s, a) \in SUBSET s
  BY DEF LaterIn
<1> QED BY <1>1, FS_Subset, FS_CardinalityType

(* An archive has no fewer later ones when each of those is there, written   *)
(* no earlier, in the directory that follows.                                *)
LEMMA SparedStays ==
  ASSUME NEW s, NEW t \in SUBSET Archives, s \subseteq Archives, IsFiniteSet(t),
         \A b, c \in s : b.at = c.at => b = c,
         NEW a \in s, SparedIn(s, a), NEW c, c.world = a.world, c.mod = a.mod,
         \A b \in LaterIn(s, a) : \E d \in t : d.at = b.at /\ d.world = b.world /\ d.mod >= b.mod
  PROVE  SparedIn(t, c)
<1> DEFINE f == [b \in LaterIn(s, a) |-> CHOOSE d \in t : d.at = b.at /\ d.world = b.world /\ d.mod >= b.mod]
<1>1. ASSUME NEW b \in LaterIn(s, a)
      PROVE  f[b] \in t /\ f[b].at = b.at /\ f[b].world = b.world /\ f[b].mod >= b.mod
  OBVIOUS
<1>2. \A b \in LaterIn(s, a) : b \in s /\ b.world = a.world /\ b.mod > a.mod /\ b.mod \in Nat /\ a.mod \in Nat
  BY DEF LaterIn, Archives
<1> HIDE DEF f
<1>3. \A b \in LaterIn(s, a) : f[b] \in LaterIn(t, c)
  <2> SUFFICES ASSUME NEW b \in LaterIn(s, a) PROVE f[b] \in LaterIn(t, c)
    OBVIOUS
  <2>1. f[b].mod \in Nat /\ f[b].mod >= b.mod /\ b.mod > a.mod /\ b.mod \in Nat /\ a.mod \in Nat
    BY <1>1, <1>2 DEF Archives
  <2> QED BY <1>1, <1>2, <2>1 DEF LaterIn
<1>4. \A b, d \in LaterIn(s, a) : f[b] = f[d] => b = d
  BY <1>1, <1>2
<1>5. f \in [LaterIn(s, a) -> LaterIn(t, c)]
  <2>1. f = [b \in LaterIn(s, a) |-> f[b]]
    BY DEF f
  <2> QED BY <1>3, <2>1
<1>6. f \in Injection(LaterIn(s, a), LaterIn(t, c))
  BY <1>4, <1>5 DEF Injection, IsInjective
<1>7. IsFiniteSet(LaterIn(t, c)) /\ Cardinality(LaterIn(t, c)) \in Nat
  BY LaterFinite
<1>8. /\ IsFiniteSet(LaterIn(s, a)) /\ Cardinality(LaterIn(s, a)) <= Cardinality(LaterIn(t, c))
  BY <1>6, <1>7, FS_Injection
<1>9. Cardinality(LaterIn(s, a)) \in Nat
  BY <1>8, FS_CardinalityType
<1> QED BY <1>7, <1>8, <1>9, BackupsAssumption DEF SparedIn

(* One of some archives was written last. *)
LEMMA WrittenLast ==
  ASSUME NEW r \in SUBSET Archives, r # {}, NEW n \in Nat, \A a \in r : a.mod <= n
  PROVE  \E a \in r : \A b \in r : b.mod <= a.mod
<1> DEFINE ages == {n - a.mod : a \in r}
           R == OpToRel(<, Nat)
<1>1. \A a \in r : a.mod \in Nat /\ n - a.mod \in Nat
  BY DEF Archives
<1>2. ages \subseteq Nat /\ ages # {} /\ IsWellFoundedOn(R, Nat)
  BY <1>1, NatLessThanWellFounded
<1>3. \A i, j \in Nat : i < j => <<i, j>> \in R
  BY DEF OpToRel
<1> HIDE DEF R
<1>4. PICK x \in ages : \A y \in ages : ~ (<<y, x>> \in R)
  BY <1>2, WFMin
<1>5. PICK a \in r : x = n - a.mod
  BY <1>4
<1>6. ASSUME NEW b \in r PROVE b.mod <= a.mod
  <2>1. n - b.mod \in ages /\ n - b.mod \in Nat /\ a.mod \in Nat /\ b.mod \in Nat /\ x \in Nat
    BY <1>1, <1>5
  <2>2. ~ (n - b.mod < x)
    BY <1>3, <1>4, <2>1
  <2> QED BY <1>5, <2>1, <2>2
<1> QED BY <1>6

(* A pruning whose every archive has Keep later ones leaves Keep later ones  *)
(* to each archive that had them: those of the last one it removes are later *)
(* still, and stay.                                                          *)
LEMMA PruningSpares ==
  ASSUME NEW s \in SUBSET Archives, IsFiniteSet(s), NEW n \in Nat, \A a \in s : a.mod <= n,
         NEW r \in SUBSET s, \A a \in r : SparedIn(s, a), NEW a \in s, SparedIn(s, a)
  PROVE  SparedIn(s \ r, a)
<1>1. IsFiniteSet(s \ r)
  BY FS_Subset
<1>2. CASE LaterIn(s, a) \cap r = {}
  <2>1. LaterIn(s \ r, a) = LaterIn(s, a)
    BY <1>2 DEF LaterIn
  <2> QED BY <2>1 DEF SparedIn
<1>3. CASE LaterIn(s, a) \cap r # {}
  <2>1. LaterIn(s, a) \cap r \in SUBSET Archives /\ \A b \in LaterIn(s, a) \cap r : b.mod <= n
    BY DEF LaterIn
  <2>2. PICK c \in LaterIn(s, a) \cap r : \A b \in LaterIn(s, a) \cap r : b.mod <= c.mod
    BY <1>3, <2>1, WrittenLast
  <2>3. SparedIn(s, c) /\ c.world = a.world /\ c.mod > a.mod
    BY <2>2 DEF LaterIn
  <2>4. ASSUME NEW b \in LaterIn(s, c) PROVE b \in LaterIn(s \ r, a)
    <3>1. b \in s /\ b.world = a.world /\ b.mod > c.mod /\ b.mod \in Nat /\ c.mod \in Nat /\ a.mod \in Nat
      BY <2>3 DEF LaterIn, Archives
    <3>2. b \in LaterIn(s, a)
      BY <2>3, <3>1 DEF LaterIn
    <3>3. b \notin r
      BY <2>2, <3>1, <3>2
    <3> QED BY <3>1, <3>2, <3>3 DEF LaterIn
  <2>5. LaterIn(s, c) \in SUBSET LaterIn(s \ r, a)
    BY <2>4
  <2>6. /\ Cardinality(LaterIn(s, c)) \in Nat /\ IsFiniteSet(LaterIn(s \ r, a))
        /\ Cardinality(LaterIn(s \ r, a)) \in Nat
    BY <1>1, LaterFinite
  <2>7. Cardinality(LaterIn(s, c)) <= Cardinality(LaterIn(s \ r, a))
    BY <2>5, <2>6, FS_Subset
  <2> QED BY <2>3, <2>6, <2>7, BackupsAssumption DEF SparedIn
<1> QED BY <1>2, <1>3

(* What is listed to be removed has Keep later archives, and is none that a  *)
(* Job is writing (pruneBackups, PruneBackups).                              *)
LEMMA ExcessSpared ==
  ASSUME StockInv, CopyInv, OwnPatterns, NEW p \in Callers, call[p].w \in Worlds, NEW a \in Excess(p)
  PROVE  a \in shelf /\ SparedIn(shelf, a) /\ \A j \in jobs : InProgress(j) => j.at # a.at
<1>1. \A b \in Matching(p) : b \in shelf /\ b \in Archives /\ b.world = call[p].w
  BY DEF Matching, OwnPatterns, StockInv, BackupTypes, Archives
<1>2. a \in Matching(p) /\ Keep <= Cardinality({b \in Matching(p) : b.mod > a.mod})
  BY DEF Excess
<1>3. {b \in Matching(p) : b.mod > a.mod} = LaterIn(shelf, a)
  BY <1>1, <1>2 DEF LaterIn, Matching
<1>4. SparedIn(shelf, a)
  BY <1>2, <1>3 DEF SparedIn
<1>5. LaterIn(shelf, a) # {}
  BY <1>4, FS_EmptySet, BackupsAssumption DEF SparedIn
<1>6. PICK b \in shelf : b.world = a.world /\ b.mod > a.mod
  BY <1>5 DEF LaterIn
<1>7. b.mod \in Nat /\ a.mod \in Nat /\ a \in shelf
  BY <1>1, <1>2 DEF Archives, StockInv, BackupTypes
<1>8. \A j \in jobs : InProgress(j) => j.at # a.at
  BY <1>6, <1>7 DEF CopyInv, StockInv, ShelfOK
<1> QED BY <1>4, <1>7, <1>8

-----------------------------------------------------------------------------
(* What a step may do to Jobs and listings *)

(* Every Job that is writing was writing before, for the same archive; the   *)
(* archives stay.                                                            *)
WritersStay == \A k \in jobs' : InProgress(k) => \E j \in jobs : InProgress(j) /\ j.at = k.at /\ j.world = k.world

(* No two of the Jobs that write after a step come from one that wrote       *)
(* before.                                                                   *)
WritersApart == \A i, k \in jobs' : InProgress(i) /\ InProgress(k) /\ i.world = k.world => i = k

LEMMA TornWriters ==
  ASSUME NEW w, NEW js \in SUBSET Jobs, jobs' = Tear(w, js),
         \A k \in js : InProgress(k) => k \in jobs,
         CopyInv
  PROVE  WritersStay /\ WritersApart
<1> DEFINE T(j) == IF j.kind = "backup" /\ j.world = w /\ j.pc = "running" THEN [j EXCEPT !.holds = Torn] ELSE j
<1>1. \A k \in jobs' : \E j \in js : k = T(j)
  BY DEF Tear
<1>2. \A j \in js : /\ T(j).kind = j.kind /\ T(j).world = j.world /\ T(j).at = j.at /\ T(j).pc = j.pc
                    /\ T(j).tries = j.tries
  BY DEF Jobs
<1> HIDE DEF T
<1>3. \A j \in js : InProgress(T(j)) => InProgress(j) /\ j \in jobs
  BY <1>2 DEF InProgress
<1>4. WritersStay
  BY <1>1, <1>2, <1>3 DEF WritersStay
<1>5. ASSUME NEW i \in jobs', NEW k \in jobs', InProgress(i), InProgress(k), i.world = k.world PROVE i = k
  <2> PICK x \in js : i = T(x)
    BY <1>1
  <2> PICK y \in js : k = T(y)
    BY <1>1
  <2>1. x = y
    BY <1>2, <1>3, <1>5 DEF CopyInv
  <2> QED BY <2>1
<1> QED BY <1>4, <1>5 DEF WritersApart

(* A step of the servers, the Jobs or the pages that leaves the archives. *)
LEMMA CopyKept ==
  ASSUME CopyInv, WritersStay, WritersApart, shelf' \subseteq shelf
  PROVE  CopyInv'
<1>1. \A i, k \in jobs' : InProgress(i) /\ InProgress(k) /\ i.world = k.world => i = k
  BY DEF WritersApart
<1>2. ASSUME NEW k \in jobs', InProgress(k), NEW a \in shelf', NEW b \in shelf', a.at = k.at, b.world = a.world, b.at # a.at
      PROVE  b.mod < a.mod
  <2>1. PICK j \in jobs : InProgress(j) /\ j.at = k.at
    BY <1>2 DEF WritersStay
  <2>2. a \in shelf /\ b \in shelf
    OBVIOUS
  <2> QED BY <1>2, <2>1, <2>2 DEF CopyInv
<1> QED BY <1>1, <1>2 DEF CopyInv, InProgress

LEMMA PruneKept ==
  ASSUME PruneInv, WritersStay, UNCHANGED <<shelf, made>>, \A p \in Callers : call'[p].old \subseteq call[p].old
  PROVE  PruneInv'
<1> SUFFICES ASSUME NEW p \in Callers
             PROVE  /\ call'[p].old \subseteq 1 .. Len(made')
                    /\ \A j \in jobs' : InProgress(j) => j.at \notin call'[p].old
                    /\ \A a \in shelf' : a.at \in call'[p].old => SparedIn(shelf', a)
  BY DEF PruneInv, InProgress, SparedIn, LaterIn
<1> QED BY DEF PruneInv, WritersStay

(* A step that gives no Job anything to write and lists nothing. *)
LEMMA WriterKept ==
  ASSUME CopyInv, PruneInv, WritersStay, WritersApart, UNCHANGED <<shelf, made>>,
         \A p \in Callers : call'[p].old \subseteq call[p].old
  PROVE  CopyInv' /\ PruneInv'
BY CopyKept, PruneKept

(* Jobs that have not begun write nothing. *)
LEMMA IdleJobs ==
  ASSUME CopyInv, NEW new, \A j \in new : ~InProgress(j), jobs' \subseteq jobs \cup new
  PROVE  WritersStay /\ WritersApart
BY DEF CopyInv, WritersStay, WritersApart

LEMMA SameJobs == CopyInv /\ jobs' = jobs => WritersStay /\ WritersApart
BY DEF CopyInv, WritersStay, WritersApart

LEMMA NewJobs == \A w, n : ~InProgress(BackupJob(w)) /\ ~InProgress(RestoreJob(w, n))
BY DEF InProgress, BackupJob, RestoreJob

-----------------------------------------------------------------------------
(* The steps that touch archives and listings *)

(* Conditions and invariants under which archives are pruned rightly. *)
PruneHyp == OwnPatterns /\ CopiesApart /\ DeletesApart
Stock == StockInv /\ CopyInv /\ PruneInv

LEMMA ShelfFacts ==
  ASSUME StockInv
  PROVE  /\ shelf \subseteq Archives /\ IsFiniteSet(shelf) /\ Len(made) \in Nat
         /\ \A a \in shelf : a.mod <= Len(made) /\ a.mod \in Nat /\ a.at \in 1 .. Len(made) /\ a.world = made[a.at]
         /\ \A a, b \in shelf : a.at = b.at => a = b
BY LenMade DEF StockInv, BackupTypes, ShelfOK, Archives

LEMMA PruneLaunch ==
  ASSUME Stock, OwnPatterns, NEW p \in Callers, Launch(p)
  PROVE  CopyInv' /\ PruneInv'
<1>1. /\ UNCHANGED <<shelf, made>> /\ jobs' \subseteq jobs \cup {BackupJob(call[p].w)} /\ call[p].w \in Worlds
      /\ \A q \in Callers \ {p} : call'[q] = call[q]
      /\ call'[p].old \subseteq call[p].old \cup {a.at : a \in Excess(p)}
  BY CallFacts, LaunchFacts DEF Launch, Stock, CallOK, BackupTypes
<1>2. WritersStay /\ WritersApart
  <2> PICK new : new = {BackupJob(call[p].w)}
    OBVIOUS
  <2>1. jobs' \subseteq jobs \cup new /\ \A j \in new : ~InProgress(j)
    BY <1>1, NewJobs
  <2> QED BY <2>1, IdleJobs DEF Stock
<1>3. CopyInv'
  BY <1>1, <1>2, CopyKept DEF Stock
<1>4. ASSUME NEW q \in Callers, NEW n \in call'[q].old
      PROVE  n \in call[q].old \/ \E a \in Excess(p) : n = a.at /\ q = p
  BY <1>1, <1>4
<1>5. \A a \in Excess(p) : a \in shelf /\ SparedIn(shelf, a) /\ \A j \in jobs : InProgress(j) => j.at # a.at
  BY <1>1, ExcessSpared DEF Stock
<1>6. ASSUME NEW q \in Callers
      PROVE  /\ call'[q].old \subseteq 1 .. Len(made')
             /\ \A j \in jobs' : InProgress(j) => j.at \notin call'[q].old
             /\ \A a \in shelf' : a.at \in call'[q].old => SparedIn(shelf', a)
  <2>1. call'[q].old \subseteq 1 .. Len(made')
    BY <1>1, <1>4, <1>5, ShelfFacts DEF Stock, PruneInv
  <2>2. ASSUME NEW j \in jobs', InProgress(j) PROVE j.at \notin call'[q].old
    <3>1. PICK i \in jobs : InProgress(i) /\ i.at = j.at
      BY <1>2, <2>2 DEF WritersStay
    <3> QED BY <1>4, <1>5, <3>1 DEF Stock, PruneInv
  <2>3. ASSUME NEW a \in shelf', a.at \in call'[q].old PROVE SparedIn(shelf', a)
    <3>1. a \in shelf /\ shelf' = shelf
      BY <1>1
    <3>2. CASE a.at \in call[q].old
      BY <3>1, <3>2 DEF Stock, PruneInv
    <3>3. CASE a.at \notin call[q].old
      <4>1. PICK b \in Excess(p) : a.at = b.at
        BY <1>4, <2>3, <3>3
      <4>2. a = b
        BY <1>5, <3>1, <4>1, ShelfFacts DEF Stock
      <4> QED BY <1>5, <3>1, <4>2
    <3> QED BY <3>2, <3>3
  <2> QED BY <2>1, <2>2, <2>3
<1>7. PruneInv'
  BY <1>6 DEF PruneInv, InProgress, SparedIn, LaterIn
<1> QED BY <1>3, <1>7

LEMMA PruneFinish ==
  ASSUME Stock, NEW p \in Callers, Finish(p)
  PROVE  /\ CopyInv' /\ PruneInv'
         /\ \A a \in shelf \ shelf' : SparedIn(shelf', a)
<1>1. /\ shelf' = {a \in shelf : a.at \notin call[p].old} /\ UNCHANGED <<made, jobs>>
      /\ call \in [Callers -> BackupCalls] /\ call' = [call EXCEPT ![p] = Returned(p)]
  BY DEF Finish, Stock, StockInv, BackupTypes
<1>2. Returned(p).old = {}
  BY NoCallFacts DEF Returned, BackupCalls
<1>3. \A q \in Callers : call'[q].old \subseteq call[q].old
  BY <1>1, <1>2
<1>4. WritersStay /\ WritersApart
  BY <1>1 DEF Stock, CopyInv, WritersStay, WritersApart
<1>5. PICK r : r = {a \in shelf : a.at \in call[p].old}
  OBVIOUS
<1>6. r \in SUBSET shelf /\ shelf' = shelf \ r /\ \A a \in r : SparedIn(shelf, a)
  BY <1>1, <1>5 DEF Stock, PruneInv
<1>7. ASSUME NEW a \in shelf, SparedIn(shelf, a) PROVE SparedIn(shelf', a)
  <2>1. SparedIn(shelf \ r, a)
    BY <1>6, <1>7, ShelfFacts, PruningSpares DEF Stock
  <2> QED BY <1>6, <2>1
<1>8. CopyInv'
  BY <1>4, <1>6, CopyKept DEF Stock
<1>9. ASSUME NEW q \in Callers
      PROVE  /\ call'[q].old \subseteq 1 .. Len(made')
             /\ \A j \in jobs' : InProgress(j) => j.at \notin call'[q].old
             /\ \A a \in shelf' : a.at \in call'[q].old => SparedIn(shelf', a)
  BY <1>1, <1>3, <1>6, <1>7 DEF Stock, PruneInv
<1>10. PruneInv'
  BY <1>9 DEF PruneInv, InProgress, SparedIn, LaterIn
<1> QED BY <1>6, <1>7, <1>8, <1>10

(* A copy that begins or ends writes archive n of world w, which no pruning  *)
(* has listed, and makes it the last one written.                            *)
Writes(n, w) ==
  /\ made' = Append(made, w) /\ call' = call
  /\ \A p \in Callers : n \notin call[p].old
  /\ \A a \in shelf' : \/ a \in shelf /\ a.at # n
                       \/ a.at = n /\ a.world = w /\ a.mod = Len(made) + 1
  /\ \A a \in shelf : \E b \in shelf' : b.at = a.at /\ b.world = a.world /\ (b = a \/ b.mod = Len(made) + 1)

LEMMA PruneWrites ==
  ASSUME Stock, StockInv', NEW n, NEW w \in Worlds, Writes(n, w),
         \A k \in jobs' : InProgress(k) => \/ k.at = n /\ k.world = w
                                           \/ k \in jobs /\ k.world # w,
         WritersApart
  PROVE  CopyInv' /\ PruneInv'
<1>1. /\ made' = Append(made, w) /\ call' = call /\ \A p \in Callers : n \notin call[p].old
      /\ \A a \in shelf' : \/ a \in shelf /\ a.at # n
                           \/ a.at = n /\ a.world = w /\ a.mod = Len(made) + 1
      /\ \A a \in shelf : \E b \in shelf' : b.at = a.at /\ b.world = a.world /\ (b = a \/ b.mod = Len(made) + 1)
  BY DEF Writes
<1>2. Len(made) \in Nat /\ Len(made') = Len(made) + 1
  BY <1>1, MadeMore DEF Stock, StockInv
<1>3. /\ shelf \subseteq Archives /\ shelf' \subseteq Archives /\ IsFiniteSet(shelf')
      /\ \A a \in shelf : a.mod <= Len(made) /\ a.mod \in Nat
      /\ \A a, b \in shelf : a.at = b.at => a = b
  BY ShelfFacts DEF Stock, StockInv, BackupTypes, ShelfOK
<1>4. ASSUME NEW k \in jobs', InProgress(k), NEW a \in shelf', NEW b \in shelf', a.at = k.at, b.world = a.world, b.at # a.at
      PROVE  b.mod < a.mod
  <2>1. CASE k.at = n /\ k.world = w
    BY <1>1, <1>2, <1>3, <1>4, <2>1
  <2>2. CASE k \in jobs /\ k.world # w
    <3>1. made[k.at] = k.world /\ k.at \in 1 .. Len(made)
      BY <1>4, <2>2 DEF Stock, StockInv, JobOK, InProgress
    <3>2. a.world = made'[a.at] /\ made'[k.at] = made[k.at]
      <4>1. a.world = made'[a.at]
        BY DEF StockInv, ShelfOK
      <4>2. made'[k.at] = made[k.at]
        BY <1>1, <3>1, MadeMore DEF MadeGrows, Stock, StockInv
      <4> QED BY <4>1, <4>2
    <3>3. a.world # w
      BY <1>4, <2>2, <3>1, <3>2
    <3>4. a \in shelf /\ b \in shelf
      BY <1>1, <1>4, <3>3
    <3> QED BY <1>4, <2>2, <3>4 DEF Stock, CopyInv
  <2> QED BY <1>4, <2>1, <2>2
<1>5. CopyInv'
  BY <1>4 DEF CopyInv, WritersApart, InProgress
<1>6. ASSUME NEW p \in Callers
      PROVE  /\ call'[p].old \subseteq 1 .. Len(made')
             /\ \A j \in jobs' : InProgress(j) => j.at \notin call'[p].old
             /\ \A a \in shelf' : a.at \in call'[p].old => SparedIn(shelf', a)
  <2>1. call'[p].old \subseteq 1 .. Len(made') /\ \A j \in jobs' : InProgress(j) => j.at \notin call'[p].old
    BY <1>1, <1>2 DEF Stock, PruneInv
  <2>2. ASSUME NEW a \in shelf', a.at \in call'[p].old PROVE SparedIn(shelf', a)
    <3>1. a \in shelf /\ a.at \in call[p].old /\ a.at # n
      BY <1>1, <2>2
    <3>2. SparedIn(shelf, a)
      BY <3>1 DEF Stock, PruneInv
    <3>3. \A b \in LaterIn(shelf, a) : \E d \in shelf' : d.at = b.at /\ d.world = b.world /\ d.mod >= b.mod
      BY <1>1, <1>2, <1>3 DEF LaterIn
    <3> QED BY <1>3, <3>1, <3>2, <3>3, SparedStays
  <2> QED BY <2>1, <2>2
<1>7. PruneInv'
  BY <1>6 DEF PruneInv, InProgress, SparedIn, LaterIn
<1> QED BY <1>5, <1>7

LEMMA PruneCopyBegins ==
  ASSUME Stock, StockInv', CopiesApart, NEW j \in jobs, CopyBegins(j)
  PROVE  CopyInv' /\ PruneInv'
<1> DEFINE n == IF j.tries = 0 THEN Len(made) + 1 ELSE j.at
           a == [world |-> j.world, at |-> n, holds |-> Torn, mod |-> Len(made) + 1]
<1> PICK k : k = [j EXCEPT !.pc = "running", !.at = n, !.holds = disk[j.world]]
  OBVIOUS
<1>1. /\ j.kind = "backup" /\ j.pc = "pending" /\ made' = Append(made, j.world) /\ call' = call
      /\ shelf' = {b \in shelf : b.at # n} \cup {a} /\ jobs' = (jobs \ {j}) \cup {k}
      /\ ~\E i \in jobs \ {j} : InProgress(i) /\ i.world = j.world
  BY DEF CopyBegins, CopiesApart
<1>2. j \in Jobs /\ JobOK(j) /\ j.tries \in {0, 1} /\ j.world \in Worlds /\ Len(made) \in Nat
  BY ShelfFacts DEF Stock, StockInv, BackupTypes, Jobs
<1>3. /\ n = Len(made) + 1 \/ (InProgress(j) /\ n = j.at)
      /\ n \in 1 .. Len(made) => made[n] = j.world
  BY <1>1, <1>2 DEF InProgress, JobOK
<1>4. \A p \in Callers : n \notin call[p].old
  <2> SUFFICES ASSUME NEW p \in Callers PROVE n \notin call[p].old
    OBVIOUS
  <2>1. call[p].old \subseteq 1 .. Len(made) /\ (InProgress(j) => j.at \notin call[p].old)
    BY DEF Stock, PruneInv
  <2> QED BY <1>2, <1>3, <2>1
<1> HIDE DEF n
<1>5. k.kind = "backup" /\ k.at = n /\ k.world = j.world
  BY <1>1, <1>2 DEF Jobs
<1>6. a.at = n /\ a.world = j.world /\ a.mod = Len(made) + 1
  OBVIOUS
<1> HIDE DEF a
<1>7. \A b \in shelf : \E c \in shelf' : c.at = b.at /\ c.world = b.world /\ (c = b \/ c.mod = Len(made) + 1)
  <2> SUFFICES ASSUME NEW b \in shelf
               PROVE  \E c \in shelf' : c.at = b.at /\ c.world = b.world /\ (c = b \/ c.mod = Len(made) + 1)
    OBVIOUS
  <2>1. CASE b.at = n
    <3>1. b.world = j.world
      BY <1>3, <2>1, ShelfFacts DEF Stock
    <3> QED BY <1>1, <1>6, <2>1, <3>1
  <2>2. CASE b.at # n
    BY <1>1, <2>2
  <2> QED BY <2>1, <2>2
<1>8. Writes(n, j.world)
  BY <1>1, <1>4, <1>6, <1>7 DEF Writes
<1>9. \A i \in jobs' : InProgress(i) => (i.at = n /\ i.world = j.world) \/ (i \in jobs /\ i.world # j.world)
  BY <1>1, <1>5
<1>10. WritersApart
  <2>1. ASSUME NEW x \in jobs', NEW y \in jobs', InProgress(x), InProgress(y), x.world = y.world PROVE x = y
    <3>1. CASE x = k \/ y = k
      BY <1>1, <1>5, <2>1, <3>1
    <3>2. CASE x \in jobs /\ y \in jobs
      BY <2>1, <3>2 DEF Stock, CopyInv
    <3> QED BY <1>1, <3>1, <3>2
  <2> QED BY <2>1 DEF WritersApart
<1> QED BY <1>2, <1>8, <1>9, <1>10, PruneWrites

LEMMA PruneCopyEnds ==
  ASSUME Stock, StockInv', NEW j \in jobs, CopyEnds(j)
  PROVE  CopyInv' /\ PruneInv'
<1>1. /\ j.kind = "backup" /\ j.pc = "running" /\ made' = Append(made, j.world) /\ call' = call
      /\ shelf' = {Full(j, a) : a \in shelf} /\ jobs' = jobs \ {j}
  BY CopyEndsFacts
<1>2. InProgress(j) /\ j.world \in Worlds /\ j.at \in 1 .. Len(made) /\ made[j.at] = j.world
  BY <1>1 DEF Stock, StockInv, BackupTypes, Jobs, JobOK, InProgress
<1>3. \A a \in shelf : /\ Full(j, a).at = a.at /\ Full(j, a).world = a.world
                       /\ IF a.at = j.at THEN Full(j, a).mod = Len(made) + 1 /\ a.world = j.world ELSE Full(j, a) = a
  BY <1>2, FullFacts, ShelfFacts DEF Full, Stock
<1>4. Writes(j.at, j.world)
  <2>1. \A p \in Callers : j.at \notin call[p].old
    BY <1>2 DEF Stock, PruneInv
  <2>2. ASSUME NEW b \in shelf' PROVE \/ b \in shelf /\ b.at # j.at
                                      \/ b.at = j.at /\ b.world = j.world /\ b.mod = Len(made) + 1
    BY <1>1, <1>3
  <2>3. ASSUME NEW a \in shelf
        PROVE  \E b \in shelf' : b.at = a.at /\ b.world = a.world /\ (b = a \/ b.mod = Len(made) + 1)
    <3>1. Full(j, a) \in shelf'
      BY <1>1
    <3> QED BY <1>3, <3>1
  <2> QED BY <1>1, <2>1, <2>2, <2>3 DEF Writes
<1>5. \A i \in jobs' : InProgress(i) => (i.at = j.at /\ i.world = j.world) \/ (i \in jobs /\ i.world # j.world)
  BY <1>1, <1>2 DEF Stock, CopyInv
<1>6. WritersApart
  BY <1>1 DEF WritersApart, Stock, CopyInv
<1> QED BY <1>2, <1>4, <1>5, <1>6, PruneWrites

LEMMA PruneJobs ==
  ASSUME Stock, NEW j \in jobs, RestoreBegins(j) \/ RestoreEnds(j) \/ JobFails(j)
  PROVE  CopyInv' /\ PruneInv'
<1>1. UNCHANGED <<shelf, made, call>> /\ jobs \subseteq Jobs /\ j \in Jobs
  BY DEF RestoreBegins, RestoreEnds, JobFails, Stock, StockInv, BackupTypes
<1>2. WritersStay /\ WritersApart
  <2>1. CASE RestoreBegins(j)
    <3> PICK k : k = [j EXCEPT !.pc = "running"]
      OBVIOUS
    <3>1. j.kind = "restore" /\ jobs' = Tear(j.world, (jobs \ {j}) \cup {k})
      BY <2>1 DEF RestoreBegins
    <3>2. k \in Jobs /\ k.kind = "restore"
      BY <1>1, <3>1 DEF Jobs
    <3>3. (jobs \ {j}) \cup {k} \in SUBSET Jobs /\ \A i \in (jobs \ {j}) \cup {k} : InProgress(i) => i \in jobs
      BY <1>1, <3>2 DEF InProgress
    <3> QED BY <3>1, <3>3, TornWriters DEF Stock
  <2>2. CASE RestoreEnds(j)
    <3>1. jobs' = Tear(j.world, jobs \ {j}) /\ jobs \ {j} \in SUBSET Jobs
      BY <1>1, <2>2 DEF RestoreEnds
    <3> QED BY <3>1, TornWriters DEF Stock
  <2>3. CASE JobFails(j)
    <3> PICK k : k = [j EXCEPT !.pc = "pending", !.tries = 1]
      OBVIOUS
    <3>1. j.pc = "running" /\ (jobs' = jobs \ {j} \/ jobs' = (jobs \ {j}) \cup {k})
      BY <2>3 DEF JobFails
    <3>2. k.kind = j.kind /\ k.at = j.at /\ k.world = j.world
      BY <1>1 DEF Jobs
    <3>3. InProgress(k) => InProgress(j)
      BY <3>1, <3>2 DEF InProgress
    <3> QED BY <3>1, <3>2, <3>3 DEF WritersStay, WritersApart, Stock, CopyInv
  <2> QED BY <2>1, <2>2, <2>3
<1> QED BY <1>1, <1>2, WriterKept DEF Stock

(* The steps in which a server writes its world. *)
LEMMA PruneServer ==
  ASSUME Stock, NEW w \in Worlds, ServerSaves(w) \/ ServerStops(w) \/ ServerStarts(w)
  PROVE  CopyInv' /\ PruneInv'
<1>1. UNCHANGED <<shelf, made, call>> /\ jobs \in SUBSET Jobs /\ (jobs' = Tear(w, jobs) \/ jobs' = jobs)
  BY DEF ServerSaves, ServerStops, ServerStarts, Written, Stock, StockInv, BackupTypes
<1>2. WritersStay /\ WritersApart
  <2>1. CASE jobs' = Tear(w, jobs)
    BY <1>1, <2>1, TornWriters DEF Stock
  <2>2. CASE jobs' = jobs
    BY <2>2, SameJobs DEF Stock
  <2> QED BY <1>1, <2>1, <2>2
<1> QED BY <1>1, <1>2, WriterKept DEF Stock

LEMMA PruneQuiesced ==
  ASSUME Stock, NEW w \in Worlds, NEW running, NEW tell, Quiesced(w, running, tell)
  PROVE  WritersStay /\ WritersApart
<1>1. jobs \in SUBSET Jobs /\ (jobs' = Tear(w, jobs) \/ jobs' = jobs)
  BY DEF Quiesced, Written, Stock, StockInv, BackupTypes
<1>2. CASE jobs' = Tear(w, jobs)
  BY <1>1, <1>2, TornWriters DEF Stock
<1>3. CASE jobs' = jobs
  BY <1>3, SameJobs DEF Stock
<1> QED BY <1>1, <1>2, <1>3

LEMMA PruneCalls ==
  ASSUME Stock, \/ \E p \in Admins, w \in Worlds : CreateBackup(p, w)
                \/ RunDaily \/ BackupOne \/ ProcessRestarts \/ HourPasses \/ UNCHANGED backupVars
  PROVE  CopyInv' /\ PruneInv'
<1>1. call \in [Callers -> BackupCalls] /\ jobs \in SUBSET Jobs /\ Scheduler \in Callers /\ Admins \subseteq Callers
  BY DEF Stock, StockInv, BackupTypes, Callers
<1>2. \A w, running, q : Begun(w, running, q).old = {}
  BY NoCallFacts DEF Begun, BackupCalls
<1>3. jobs' = jobs => WritersStay /\ WritersApart
  BY SameJobs DEF Stock
<1>4. UNCHANGED <<shelf, made>>
  BY BackupOneFacts DEF CreateBackup, RunDaily, ProcessRestarts, HourPasses, backupVars, Stock
<1>5. ASSUME NEW p \in Admins, NEW w \in Worlds, CreateBackup(p, w)
      PROVE  WritersStay /\ WritersApart /\ \A q \in Callers : call'[q].old \subseteq call[q].old
  <2> PICK running : running = server[w].up
    OBVIOUS
  <2>1. Quiesced(w, running, TRUE) /\ call' = [call EXCEPT ![p] = Begun(w, running, {})] /\ p \in Callers
    BY <1>1, <1>5 DEF CreateBackup
  <2>2. \A q \in Callers : call'[q].old \subseteq call[q].old
    BY <1>1, <1>2, <2>1
  <2> QED BY <2>1, <2>2, PruneQuiesced
<1>6. CASE RunDaily
  <2>1. PICK listed \in SUBSET exists : call' = [call EXCEPT ![Scheduler] = [NoCall EXCEPT !.pc = "next", !.queue = listed]]
    BY <1>6, RunDailyFacts
  <2>2. [NoCall EXCEPT !.pc = "next", !.queue = listed].old = {}
    BY NoCallFacts DEF BackupCalls
  <2>3. jobs' = jobs /\ \A q \in Callers : call'[q].old \subseteq call[q].old
    BY <1>1, <1>6, <2>1, <2>2, RunDailyFacts
  <2> QED BY <1>3, <1>4, <2>3, WriterKept DEF Stock
<1>7. CASE BackupOne
  <2>1. \/ jobs' = jobs /\ call' = [call EXCEPT ![Scheduler] = NoCall]
        \/ \E w \in Worlds : /\ Quiesced(w, TRUE, FALSE)
                             /\ \E q : call' = [call EXCEPT ![Scheduler] = Begun(w, TRUE, q)]
    BY <1>7, BackupOneFacts DEF Stock
  <2>2. \A q \in Callers : call'[q].old \subseteq call[q].old
    <3>1. CASE call' = [call EXCEPT ![Scheduler] = NoCall]
      BY <1>1, <3>1, NoCallFacts
    <3>2. ASSUME NEW w \in Worlds, NEW q, call' = [call EXCEPT ![Scheduler] = Begun(w, TRUE, q)]
          PROVE  \A c \in Callers : call'[c].old \subseteq call[c].old
      BY <1>1, <1>2, <3>2
    <3> QED BY <2>1, <3>1, <3>2
  <2>3. WritersStay /\ WritersApart
    BY <1>3, <2>1, PruneQuiesced
  <2> QED BY <1>4, <2>2, <2>3, WriterKept DEF Stock
<1>8. CASE ProcessRestarts
  <2>1. jobs' = jobs /\ \A q \in Callers : call'[q].old \subseteq call[q].old
    BY <1>8, NoCallFacts DEF ProcessRestarts
  <2> QED BY <1>3, <1>4, <2>1, WriterKept DEF Stock
<1>9. CASE HourPasses \/ UNCHANGED backupVars
  <2>1. jobs' = jobs /\ call' = call
    BY <1>9 DEF HourPasses, backupVars
  <2> QED BY <1>3, <1>4, <2>1, WriterKept DEF Stock
<1>10. ASSUME NEW p \in Admins, NEW w \in Worlds, CreateBackup(p, w) PROVE CopyInv' /\ PruneInv'
  BY <1>4, <1>5, <1>10, WriterKept DEF Stock
<1> QED BY <1>6, <1>7, <1>8, <1>9, <1>10

LEMMA PrunePages ==
  ASSUME Stock, DeletesApart, NEW p \in Admins, NEW a \in shelf,
         DeleteBackup(p, a) \/ \E w \in Worlds : RestoreInPlace(p, w, a) \/ RestoreNew(p, w, a)
  PROVE  CopyInv' /\ PruneInv'
<1>1. CASE DeleteBackup(p, a)
  <2>1. /\ shelf' \subseteq shelf /\ UNCHANGED <<made, jobs, call>> /\ \A q \in Callers : call[q].old = {}
    BY <1>1 DEF DeleteBackup, DeletesApart
  <2>2. WritersStay /\ WritersApart
    BY <2>1, SameJobs DEF Stock
  <2>3. CopyInv'
    BY <2>1, <2>2, CopyKept DEF Stock
  <2> QED BY <2>1, <2>3 DEF PruneInv
<1>2. ASSUME NEW w \in Worlds, RestoreInPlace(p, w, a) \/ RestoreNew(p, w, a) PROVE CopyInv' /\ PruneInv'
  <2>1. UNCHANGED <<shelf, made, call>> /\ jobs' \subseteq jobs \cup {BackupJob(w), RestoreJob(w, a.at)}
    BY <1>2 DEF RestoreInPlace, RestoreNew
  <2>2. WritersStay /\ WritersApart
    <3> PICK new : new = {BackupJob(w), RestoreJob(w, a.at)}
      OBVIOUS
    <3>1. jobs' \subseteq jobs \cup new /\ \A j \in new : ~InProgress(j)
      BY <2>1, NewJobs
    <3> QED BY <3>1, IdleJobs DEF Stock
  <2> QED BY <2>1, <2>2, WriterKept DEF Stock
<1> QED BY <1>1, <1>2

LEMMA PruneStep ==
  ASSUME PruneHyp, Stock, [BackupsNext]_backupVars
  PROVE  CopyInv' /\ PruneInv'
<1>0. OwnPatterns /\ CopiesApart /\ DeletesApart /\ StockInv'
  BY StockStep DEF PruneHyp, Stock
<1>1. ASSUME NEW w \in Worlds, ServerSaves(w) \/ ServerStops(w) \/ ServerStarts(w) PROVE CopyInv' /\ PruneInv'
  BY <1>1, PruneServer
<1>2. ASSUME NEW j \in jobs, CopyBegins(j) \/ CopyEnds(j) \/ RestoreBegins(j) \/ RestoreEnds(j) \/ JobFails(j)
      PROVE  CopyInv' /\ PruneInv'
  BY <1>0, <1>2, PruneCopyBegins, PruneCopyEnds, PruneJobs
<1>3. ASSUME NEW p \in Callers, Launch(p) \/ Finish(p) PROVE CopyInv' /\ PruneInv'
  BY <1>0, <1>3, PruneLaunch, PruneFinish
<1>4. ASSUME NEW p \in Admins, NEW a \in shelf,
             DeleteBackup(p, a) \/ \E w \in Worlds : RestoreInPlace(p, w, a) \/ RestoreNew(p, w, a)
      PROVE  CopyInv' /\ PruneInv'
  BY <1>0, <1>4, PrunePages
<1>5. CASE \/ \E p \in Admins, w \in Worlds : CreateBackup(p, w)
           \/ RunDaily \/ BackupOne \/ ProcessRestarts \/ HourPasses \/ UNCHANGED backupVars
  BY <1>5, PruneCalls
<1> QED BY <1>1, <1>2, <1>3, <1>4, <1>5 DEF BackupsNext

(* Goroutines act on archives by Finish alone. *)
LEMMA OnlyFinish ==
  ASSUME Stock, [BackupsNext]_backupVars, NEW a \in shelf \ shelf', call' # call
  PROVE  \E p \in Callers : Finish(p)
<1>1. BackupsNext /\ shelf' # shelf
  BY DEF backupVars
<1>2. ASSUME NEW w \in Worlds PROVE ~(ServerSaves(w) \/ ServerStops(w) \/ ServerStarts(w))
  BY <1>1 DEF ServerSaves, ServerStops, ServerStarts
<1>3. ASSUME NEW j \in jobs
      PROVE  ~(CopyBegins(j) \/ CopyEnds(j) \/ RestoreBegins(j) \/ RestoreEnds(j) \/ JobFails(j))
  BY DEF CopyBegins, CopyEnds, RestoreBegins, RestoreEnds, JobFails
<1>4. ASSUME NEW p \in Admins, NEW w \in Worlds, NEW b \in shelf
      PROVE  ~(CreateBackup(p, w) \/ DeleteBackup(p, b) \/ RestoreInPlace(p, w, b) \/ RestoreNew(p, w, b))
  BY <1>1 DEF CreateBackup, DeleteBackup, RestoreInPlace, RestoreNew
<1>5. ASSUME NEW p \in Admins, NEW b \in shelf PROVE ~DeleteBackup(p, b)
  BY DEF DeleteBackup
<1>6. \A p \in Callers : ~Launch(p)
  BY <1>1 DEF Launch
<1>7. ~(HourPasses \/ RunDaily \/ BackupOne \/ ProcessRestarts)
  BY <1>1, BackupOneFacts DEF HourPasses, RunDaily, ProcessRestarts, Stock
<1> QED BY <1>1, <1>2, <1>3, <1>4, <1>5, <1>6, <1>7 DEF BackupsNext

LEMMA PruneSpares ==
  ASSUME Stock, [BackupsNext]_backupVars, NEW a \in shelf \ shelf', call' # call
  PROVE  Keep <= Cardinality({b \in shelf' : b.world = a.world /\ b.mod > a.mod})
<1>1. PICK p \in Callers : Finish(p)
  BY OnlyFinish
<1>2. SparedIn(shelf', a)
  BY <1>1, PruneFinish
<1> QED BY <1>2 DEF SparedIn, LaterIn

LEMMA DayStep ==
  ASSUME StaysUp, StockInv, DayInv, [BackupsNext]_backupVars
  PROVE  DayInv'
<1>0. /\ call \in [Callers -> BackupCalls] /\ Scheduler \in Callers /\ Admins \subseteq Callers /\ Scheduler \notin Admins
      /\ clock \in Clocks
  BY BackupsAssumption DEF StockInv, BackupTypes, Callers
<1>1. CASE UNCHANGED clock /\ call'[Scheduler] = call[Scheduler]
  BY <1>1 DEF DayInv
<1>2. ASSUME NEW p \in Callers, Launch(p) PROVE DayInv'
  <2>1. CASE p = Scheduler
    <3>1. /\ call[Scheduler].pc = "launch" /\ call'[Scheduler].pc = "finish"
          /\ call'[Scheduler].queue = call[Scheduler].queue
      BY <1>2, <2>1, LaunchFacts
    <3>2. clock' = [clock EXCEPT !.tried = clock.tried \cup {call[Scheduler].w}]
      BY <1>2, <2>1 DEF Launch
    <3>3. /\ clock'.passes = clock.passes /\ clock'.last = clock.last /\ clock'.day = clock.day /\ clock'.four = clock.four
          /\ clock'.listed = clock.listed /\ clock'.tried = clock.tried \cup {call[Scheduler].w}
      BY <1>0, <3>2 DEF Clocks
    <3> QED BY <3>1, <3>3 DEF DayInv
  <2>2. CASE p # Scheduler
    BY <1>0, <1>1, <1>2, <2>2, LaunchFacts DEF Launch
  <2> QED BY <2>1, <2>2
<1>3. ASSUME NEW p \in Callers, Finish(p) PROVE DayInv'
  <2>1. call[p].pc = "finish" /\ clock' = clock /\ call' = [call EXCEPT ![p] = Returned(p)]
    BY <1>3 DEF Finish
  <2>2. CASE p = Scheduler
    <3>1. Returned(p).pc = "next" /\ Returned(p).queue = call[p].queue
      BY <2>2, NoCallFacts DEF Returned, BackupCalls
    <3> QED BY <1>0, <2>1, <2>2, <3>1 DEF DayInv
  <2>3. CASE p # Scheduler
    BY <1>0, <1>1, <2>1, <2>3
  <2> QED BY <2>2, <2>3
<1>4. CASE HourPasses
  <2>1. /\ call' = call /\ (clock.four => clock.last = clock.day \/ call[Scheduler].pc # "idle")
        /\ \/ clock.four /\ clock' = [clock EXCEPT !.four = FALSE, !.day = clock.day + 1, !.passes = 0]
           \/ ~clock.four /\ clock' = [clock EXCEPT !.four = TRUE]
    BY <1>4 DEF HourPasses
  <2>2. /\ clock'.listed = clock.listed /\ clock'.tried = clock.tried
        /\ clock'.passes = 0 \/ (~clock.four /\ clock'.passes = clock.passes)
    BY <1>0, <2>1 DEF Clocks
  <2> QED BY <2>1, <2>2 DEF DayInv
<1>5. CASE RunDaily
  <2>1. PICK listed \in SUBSET exists :
           /\ clock.four /\ clock.last # clock.day
           /\ clock' = [clock EXCEPT !.last = clock.day, !.passes = @ + 1, !.listed = listed, !.tried = {}]
           /\ call' = [call EXCEPT ![Scheduler] = [NoCall EXCEPT !.pc = "next", !.queue = listed]]
    BY <1>5, RunDailyFacts
  <2>2. clock.passes = 0
    BY <2>1 DEF DayInv
  <2>3. clock'.passes = 1 /\ clock'.last = clock'.day /\ clock'.four /\ clock'.listed = listed
    BY <1>0, <2>1, <2>2 DEF Clocks
  <2> PICK k : k = [NoCall EXCEPT !.pc = "next", !.queue = listed]
    OBVIOUS
  <2>4. k.pc = "next" /\ k.queue = listed
    BY NoCallFacts DEF BackupCalls
  <2>5. call'[Scheduler] = k
    BY <1>0, <2>1
  <2> QED BY <2>3, <2>4, <2>5 DEF DayInv
<1>6. CASE BackupOne
  <2>1. clock' = clock /\ call[Scheduler].pc = "next"
    BY <1>6, BackupOneFacts
  <2>2. CASE call[Scheduler].queue = {} /\ call' = [call EXCEPT ![Scheduler] = NoCall]
    BY <1>0, <2>1, <2>2, NoCallFacts DEF DayInv
  <2>3. ASSUME NEW w \in Worlds, call' = [call EXCEPT ![Scheduler] = Begun(w, TRUE, call[Scheduler].queue \ {w})]
        PROVE  DayInv'
    <3> PICK q : q = call[Scheduler].queue \ {w}
      OBVIOUS
    <3> PICK k : k = Begun(w, TRUE, q)
      OBVIOUS
    <3>1. q \in SUBSET Worlds
      BY <1>0 DEF BackupCalls
    <3>2. k.pc = "launch" /\ k.w = w /\ k.queue = q
      BY <3>1, NightlyFacts
    <3>3. call'[Scheduler] = k
      BY <1>0, <2>3
    <3> QED BY <2>1, <3>2, <3>3 DEF DayInv
  <2> QED BY <1>6, <2>2, <2>3, BackupOneFacts
<1>7. CASE ProcessRestarts
  <2>1. call[Scheduler].pc = "idle" /\ ~clock.four /\ call'[Scheduler] = NoCall /\ clock' = [clock EXCEPT !.last = 0]
    BY <1>0, <1>7 DEF ProcessRestarts, StaysUp
  <2>2. clock'.passes = clock.passes /\ clock'.listed = clock.listed /\ clock'.tried = clock.tried
    BY <1>0, <2>1 DEF Clocks
  <2> QED BY <2>1, <2>2, NoCallFacts DEF DayInv
<1>8. ASSUME NEW p \in Admins, NEW w \in Worlds, CreateBackup(p, w) PROVE DayInv'
  BY <1>0, <1>1, <1>8 DEF CreateBackup
<1>9. CASE \/ \E w \in Worlds : ServerSaves(w) \/ ServerStops(w) \/ ServerStarts(w)
           \/ \E j \in jobs : CopyBegins(j) \/ CopyEnds(j) \/ RestoreBegins(j) \/ RestoreEnds(j) \/ JobFails(j)
           \/ \E p \in Admins, a \in shelf : DeleteBackup(p, a)
           \/ \E p \in Admins, w \in Worlds, a \in shelf : RestoreInPlace(p, w, a) \/ RestoreNew(p, w, a)
           \/ UNCHANGED backupVars
  <2>1. UNCHANGED <<clock, call>>
    BY <1>9 DEF ServerSaves, ServerStops, ServerStarts, CopyBegins, CopyEnds, RestoreBegins, RestoreEnds, JobFails,
                DeleteBackup, RestoreInPlace, RestoreNew, backupVars
  <2> QED BY <1>1, <2>1
<1>10. BackupsNext \/ UNCHANGED backupVars
  OBVIOUS
<1> QED BY <1>2, <1>3, <1>4, <1>5, <1>6, <1>7, <1>8, <1>9, <1>10 DEF BackupsNext

(* As long as Agrelha is only restarted at a quiet moment there is one pass  *)
(* a day, and it tries every world it listed although the backups of others  *)
(* fail.  As long as, besides, the pattern of a world matches its own        *)
(* archives alone, Jobs copy a world one at a time and no operator deletes   *)
(* an archive while a pruning is removing some, what is pruned leaves Keep   *)
(* others of its world in the directory that were written later, whatever    *)
(* Jobs and other prunings ran between the listing and the removals          *)
(* (RunDaily, backupOne, PruneBackups, pruneBackups).                        *)
THEOREM PassesAreRight == StaysUp /\ PruneHyp => (BackupsSpec => DailyPassIsRight)
<1> SUFFICES ASSUME StaysUp, PruneHyp PROVE BackupsSpec => DailyPassIsRight
  OBVIOUS
<1> DEFINE IInv == Stock /\ DayInv
           Passes == OncePerCalendarDay /\ DailyReachesAll
           Spares == \A a \in shelf \ shelf' : call' # call =>
                       Keep <= Cardinality({b \in shelf' : b.world = a.world /\ b.mod > a.mod})
<1>1. InitBackups => IInv
  <2> SUFFICES ASSUME InitBackups PROVE IInv
    OBVIOUS
  <2>1. StockInv /\ CopyInv /\ DayInv
    BY StockInit, NoCallFacts DEF InitBackups, DayInv, CopyInv, Callers
  <2>2. PruneInv
    BY NoCallFacts DEF InitBackups, PruneInv
  <2> QED BY <2>1, <2>2 DEF Stock
<1>2. IInv /\ [BackupsNext]_backupVars => IInv'
  <2> SUFFICES ASSUME IInv, [BackupsNext]_backupVars PROVE IInv'
    OBVIOUS
  <2>1. StockInv' /\ DayInv'
    BY StockStep, DayStep DEF Stock
  <2>2. CopyInv' /\ PruneInv'
    BY PruneStep
  <2> QED BY <2>1, <2>2 DEF Stock
<1>3. IInv => Passes
  BY DEF DayInv, OncePerCalendarDay, DailyReachesAll
<1>4. IInv /\ [BackupsNext]_backupVars => [Spares]_backupVars
  BY PruneSpares
<1>5. BackupsSpec => [][Spares]_backupVars
  <2> HIDE DEF IInv, Spares
  <2> QED BY <1>1, <1>2, <1>4, PTL DEF BackupsSpec
<1>6. BackupsSpec => []Passes
  <2> HIDE DEF IInv, Passes
  <2> QED BY <1>1, <1>2, <1>3, PTL DEF BackupsSpec
<1> QED BY <1>5, <1>6, PTL DEF DailyPassIsRight, PruneSparesNewest
-----------------------------------------------------------------------------
(* The health watcher *)

Causes == {"none", "server", "setup", "operator"}
Pods == [restarts : Nat, setups : Nat, step : BOOLEAN, finished : Nat, cause : Causes]
Incidents == [at : Nat, restarts : Nat, step : BOOLEAN, of : Nat, cause : Causes, setup : BOOLEAN]

(* An account names a death that has happened, or none at all. *)
PodOK(p) == /\ p \in Pods /\ p.finished <= now /\ p.restarts <= now /\ p.setups <= now
            /\ (p.restarts > 0 \/ p.setups > 0 \/ p.step) => p.finished > 0
            /\ p.finished > 0 => p.cause # "none"

HealthTypes ==
  /\ host \in {"cluster", "docker"} /\ host \in Hosts /\ now \in Nat /\ now <= MaxEvents
  /\ PodOK(pod)
  /\ watcher \in [reading : BOOLEAN, failure : Pods] /\ PodOK(watcher.failure)
  /\ incidents \in Seq(Incidents) /\ quiet \in BOOLEAN

(* What is known of a death is the same whoever looks at it: the pod, the    *)
(* check that is in progress and the rows written of it.                     *)
SameDeath(i, p) == incidents[i].of = p.finished => /\ incidents[i].restarts = RestartCount(p)
                                                   /\ incidents[i].setup = p.step

(* Deaths are read in the order in which they happened: the pod shows none   *)
(* that is older than what a check has read, nor the check one older than    *)
(* what is on record.                                                        *)
WatchInv ==
  /\ watcher.reading => watcher.failure.finished > 0
  /\ watcher.reading /\ pod.finished > 0 => watcher.failure.finished <= pod.finished
  /\ watcher.reading /\ watcher.failure.finished = pod.finished => watcher.failure = pod

RowsInv ==
  \A i \in DOMAIN incidents :
    /\ incidents[i].of > 0 /\ incidents[i].of <= incidents[i].at /\ incidents[i].at <= now /\ ~incidents[i].step
    /\ pod.finished > 0 => incidents[i].of <= pod.finished /\ SameDeath(i, pod)
    /\ watcher.reading => incidents[i].of <= watcher.failure.finished /\ SameDeath(i, watcher.failure)
    /\ \A j \in DOMAIN incidents :
         i < j => /\ incidents[i].of <= incidents[j].of
                  /\ incidents[i].of = incidents[j].of => incidents[i].setup /\ incidents[j].setup

HealthInv == HealthTypes /\ WatchInv /\ RowsInv

LEMMA HealthInvImplies == HealthInv => HealthTypeOK /\ DeathsRecordedOnce
<1> SUFFICES ASSUME HealthInv PROVE HealthTypeOK /\ DeathsRecordedOnce
  OBVIOUS
<1>1. \A i \in DOMAIN incidents : incidents[i] \in Incidents /\ i \in Nat
  BY DEF HealthInv, HealthTypes
<1>2. DeathsRecordedOnce
  <2> SUFFICES ASSUME NEW i \in DOMAIN incidents, NEW j \in DOMAIN incidents,
                      incidents[i].of = incidents[j].of, ~incidents[i].setup, i # j
               PROVE  FALSE
    BY DEF DeathsRecordedOnce
  <2>1. i < j \/ j < i
    BY <1>1
  <2> QED BY <2>1 DEF HealthInv, RowsInv
<1>3. HealthTypeOK
  <2>1. \A i \in DOMAIN incidents : incidents[i].at \in 0 .. now /\ incidents[i].of \in 1 .. now
    BY <1>1 DEF HealthInv, HealthTypes, RowsInv, Incidents
  <2>2. /\ pod.restarts \in 0 .. now /\ pod.setups \in 0 .. now /\ pod.finished \in 0 .. now
        /\ (pod.finished > 0 => pod.cause \in {"server", "setup", "operator"})
        /\ watcher.failure.finished \in 0 .. now
    BY DEF HealthInv, HealthTypes, PodOK, Pods, Causes
  <2> QED BY <2>1, <2>2, HealthAssumption DEF HealthInv, HealthTypes, HealthTypeOK
<1> QED BY <1>2, <1>3

LEMMA HealthInitial == InitHealth => HealthInv
<1> SUFFICES ASSUME InitHealth PROVE HealthInv
  OBVIOUS
<1>1. NoPod \in Pods /\ NoPod.finished = 0 /\ NoPod.restarts = 0 /\ NoPod.setups = 0 /\ ~NoPod.step
  BY DEF NoPod, Pods, Causes
<1>2. pod = NoPod /\ watcher = Idle /\ incidents = <<>> /\ now = 0 /\ host \in Hosts /\ quiet = FALSE
  BY DEF InitHealth
<1>3. Idle \in [reading : BOOLEAN, failure : Pods] /\ ~Idle.reading /\ Idle.failure = NoPod
  BY <1>1 DEF Idle
<1>4. PodOK(pod) /\ PodOK(watcher.failure)
  BY <1>1, <1>2, <1>3 DEF PodOK
<1>5. HealthTypes
  <2>1. host \in {"cluster", "docker"} /\ host \in Hosts /\ now \in Nat /\ now <= MaxEvents
    BY <1>2, HealthAssumption
  <2>2. incidents \in Seq(Incidents) /\ watcher \in [reading : BOOLEAN, failure : Pods]
    BY <1>2, <1>3
  <2>3. quiet \in BOOLEAN
    BY <1>2
  <2> QED BY <1>4, <2>1, <2>2, <2>3 DEF HealthTypes
<1>6. WatchInv /\ RowsInv
  BY <1>2, <1>3 DEF WatchInv, RowsInv
<1> QED BY <1>5, <1>6 DEF HealthInv

(* Something happens to the server: its account is new, or goes on with a    *)
(* death that is later than all others.                                      *)
EventOK(p, n) == /\ p \in Pods /\ Happens(p) /\ p.finished \in {0, n} /\ p.restarts <= n /\ p.setups <= n
                 /\ (p.restarts > 0 \/ p.setups > 0 \/ p.step) => p.finished > 0
                 /\ p.finished > 0 => p.cause # "none"

LEMMA HappensKeeps ==
  ASSUME HealthInv, NEW p, EventOK(p, now + 1)
  PROVE  HealthInv' /\ ~quiet'
<1>0. /\ p \in Pods /\ Happens(p) /\ p.finished \in {0, now + 1} /\ p.restarts <= now + 1 /\ p.setups <= now + 1
      /\ (p.restarts > 0 \/ p.setups > 0 \/ p.step) => p.finished > 0
      /\ p.finished > 0 => p.cause # "none"
  BY DEF EventOK
<1>1. /\ now' = now + 1 /\ now < MaxEvents /\ pod' = p /\ UNCHANGED <<host, incidents, watcher>> /\ ~quiet' /\ quiet' \in BOOLEAN
  BY <1>0 DEF Happens
<1>2. now \in Nat /\ now' \in Nat /\ now' <= MaxEvents /\ MaxEvents \in Nat
  BY <1>1, HealthAssumption DEF HealthInv, HealthTypes
<1>3. PodOK(pod)'
  BY <1>0, <1>1, <1>2 DEF PodOK, Pods
<1>4. PodOK(watcher.failure)'
  BY <1>1, <1>2 DEF HealthInv, HealthTypes, PodOK, Pods
<1>5. HealthTypes'
  BY <1>1, <1>2, <1>3, <1>4 DEF HealthInv, HealthTypes
<1>6. watcher.failure \in Pods /\ watcher.failure.finished \in Nat /\ watcher.failure.finished <= now
  BY DEF HealthInv, HealthTypes, PodOK, Pods
<1>7. WatchInv'
  BY <1>0, <1>1, <1>2, <1>6 DEF HealthInv, WatchInv
<1>8. \A i \in DOMAIN incidents : incidents[i].of \in Nat /\ incidents[i].at \in Nat
  <2>1. \A i \in DOMAIN incidents : incidents[i] \in Incidents
    BY DEF HealthInv, HealthTypes
  <2> QED BY <2>1 DEF Incidents
<1>9. RowsInv'
  <2>1. ASSUME NEW i \in DOMAIN incidents, p.finished > 0 PROVE incidents[i].of < p.finished
    BY <1>0, <1>2, <1>8, <2>1 DEF HealthInv, RowsInv
  <2> QED BY <1>0, <1>1, <1>2, <1>8, <2>1 DEF HealthInv, RowsInv, SameDeath
<1> QED BY <1>1, <1>5, <1>7, <1>9 DEF HealthInv
LEMMA HealthEvents ==
  ASSUME HealthInv, ServerDies \/ SetupStepFails \/ PodReplaced \/ OperatorStops
  PROVE  \E p : EventOK(p, now + 1)
<1>1. PodOK(pod) /\ pod \in Pods /\ now \in Nat
  BY DEF HealthInv, HealthTypes, PodOK
<1>2. PICK n \in Nat : n = now + 1
  BY <1>1
<1>3. PICK r \in Nat, s \in Nat : r = pod.restarts + 1 /\ s = pod.setups + 1
  BY <1>1 DEF Pods
<1>4. r <= n /\ s <= n /\ pod.restarts <= n /\ pod.setups <= n /\ n > 0
  BY <1>1, <1>2, <1>3 DEF PodOK, Pods
<1>5. CASE ServerDies
  <2> PICK p : p = [pod EXCEPT !.restarts = r, !.finished = n, !.cause = "server"]
    OBVIOUS
  <2>1. Happens(p)
    BY <1>2, <1>3, <1>5 DEF ServerDies
  <2>2. p \in Pods /\ p.finished = n /\ p.restarts = r /\ p.setups = pod.setups /\ p.cause = "server"
    BY <1>1, <1>3 DEF Pods, Causes
  <2> QED BY <1>2, <1>4, <2>1, <2>2 DEF EventOK
<1>6. CASE SetupStepFails
  <2> PICK p : p = [pod EXCEPT !.setups = s, !.step = TRUE, !.finished = n, !.cause = "setup"]
    OBVIOUS
  <2>1. Happens(p)
    BY <1>2, <1>3, <1>6 DEF SetupStepFails
  <2>2. p \in Pods /\ p.finished = n /\ p.setups = s /\ p.restarts = pod.restarts /\ p.cause = "setup"
    BY <1>1, <1>3 DEF Pods, Causes
  <2> QED BY <1>2, <1>4, <2>1, <2>2 DEF EventOK
<1>7. CASE Happens(NoPod)
  <2>1. NoPod \in Pods /\ NoPod.finished = 0 /\ NoPod.restarts = 0 /\ NoPod.setups = 0 /\ ~NoPod.step
    BY DEF NoPod, Pods, Causes
  <2> QED BY <1>2, <1>4, <1>7, <2>1 DEF EventOK
<1>8. CASE OperatorStops /\ host # "cluster"
  <2> PICK p : p = [pod EXCEPT !.finished = n, !.cause = "operator"]
    OBVIOUS
  <2>1. Happens(p)
    BY <1>2, <1>8 DEF OperatorStops
  <2>2. /\ p \in Pods /\ p.finished = n /\ p.setups = pod.setups /\ p.restarts = pod.restarts /\ p.cause = "operator"
    BY <1>1 DEF Pods, Causes
  <2> QED BY <1>2, <1>4, <2>1, <2>2 DEF EventOK
<1> QED BY <1>5, <1>6, <1>7, <1>8 DEF PodReplaced, OperatorStops

(* A check reads the account. *)
LEMMA CheckReads ==
  ASSUME HealthInv, CheckBegins
  PROVE  HealthInv'
<1>1. /\ ~watcher.reading /\ UNCHANGED <<host, pod, now, incidents>> /\ quiet' \in BOOLEAN
      /\ \/ watcher' = watcher
         \/ Crashed(pod) /\ watcher' = [reading |-> TRUE, failure |-> pod]
  <2>1. Crashed(Reported) => Reported = pod
    BY DEF Crashed, Reported, NoPod
  <2> QED BY <2>1 DEF CheckBegins, HealthInv, HealthTypes
<1>2. PodOK(pod) /\ pod \in Pods /\ (Crashed(pod) => pod.finished > 0)
  BY DEF HealthInv, HealthTypes, PodOK, Crashed
<1>3. HealthTypes' /\ WatchInv' /\ RowsInv'
  <2>1. CASE watcher' = watcher
    BY <1>1, <2>1 DEF HealthInv, HealthTypes, WatchInv, RowsInv, PodOK, SameDeath
  <2>2. CASE Crashed(pod) /\ watcher' = [reading |-> TRUE, failure |-> pod]
    <3>1. watcher' \in [reading : BOOLEAN, failure : Pods] /\ watcher'.failure = pod /\ watcher'.reading
      BY <1>2, <2>2
    <3>2. HealthTypes'
      BY <1>1, <1>2, <3>1 DEF HealthInv, HealthTypes, PodOK
    <3>3. WatchInv'
      BY <1>1, <1>2, <2>2, <3>1, Z3 DEF WatchInv, Pods
    <3>4. RowsInv'
      BY <1>1, <1>2, <2>2, <3>1 DEF HealthInv, RowsInv, SameDeath
    <3> QED BY <3>2, <3>3, <3>4
  <2> QED BY <1>1, <2>1, <2>2
<1> QED BY <1>3 DEF HealthInv
(* A failure that is on record is not new, unless a setup step had failed. *)
LEMMA NotNewAgain ==
  ASSUME HealthInv, watcher.reading, IsNew(watcher.failure), NEW i \in DOMAIN incidents,
         incidents[i].of = watcher.failure.finished
  PROVE  watcher.failure.step /\ incidents[i].setup
<1> DEFINE f == watcher.failure
           l == Len(incidents)
<1>1. /\ l \in Nat /\ DOMAIN incidents = 1 .. l /\ incidents \in Seq(Incidents)
      /\ i \in Nat /\ i <= l /\ l \in DOMAIN incidents /\ (i = l \/ i < l)
  BY DEF HealthInv, HealthTypes
<1>2. /\ incidents[l] \in Incidents /\ incidents[i] \in Incidents /\ f \in Pods /\ PodOK(f) /\ RestartCount(f) \in Nat
  BY <1>1 DEF HealthInv, HealthTypes, RestartCount, Pods
<1>3. /\ incidents[i].of \in Nat /\ incidents[l].of \in Nat /\ incidents[l].at \in Nat /\ f.finished \in Nat
      /\ incidents[l].restarts \in Nat
  BY <1>2 DEF Incidents, Pods
<1>4. /\ incidents[i].of <= incidents[l].of /\ incidents[l].of <= f.finished /\ incidents[l].of <= incidents[l].at
      /\ ~incidents[l].step
  BY <1>1, <1>3 DEF HealthInv, RowsInv
<1>5. SameDeath(l, f) /\ SameDeath(i, f)
  BY <1>1 DEF HealthInv, RowsInv
<1> HIDE DEF f, l
<1>6. incidents[l].of = f.finished
  BY <1>3, <1>4 DEF f
<1>7. incidents[l].restarts = RestartCount(f) /\ incidents[i].setup = f.step
  BY <1>5, <1>6 DEF SameDeath, f
<1>8. ~(f.finished > incidents[l].at) /\ ~(RestartCount(f) > incidents[l].restarts)
  BY <1>2, <1>3, <1>4, <1>6, <1>7
<1>9. IsNew(f) => f.step # incidents[l].step
  BY <1>1, <1>8 DEF IsNew, LastIncident, l
<1>10. f.step # incidents[l].step
  BY <1>9 DEF f
<1>11. f.step \in BOOLEAN /\ incidents[l].step \in BOOLEAN /\ incidents[i].setup \in BOOLEAN
  BY <1>2 DEF Pods, Incidents
<1>12. f.step = TRUE
  BY <1>4, <1>10, <1>11
<1> QED BY <1>7, <1>11, <1>12 DEF f

LEMMA CheckRecords ==
  ASSUME HealthInv, CheckEnds
  PROVE  HealthInv'
<1> PICK f : f = watcher.failure
  OBVIOUS
<1> PICK e : e = Incident(f)
  OBVIOUS
<1>1. /\ watcher.reading /\ watcher' = Idle /\ UNCHANGED <<host, pod, now>> /\ quiet' \in BOOLEAN
      /\ \/ IsNew(f) /\ incidents' = Append(incidents, e)
         \/ incidents' = incidents
  BY DEF CheckEnds, HealthInv, HealthTypes
<1>2. /\ Idle \in [reading : BOOLEAN, failure : Pods] /\ ~Idle.reading /\ Idle.failure = NoPod
      /\ NoPod \in Pods /\ NoPod.finished = 0 /\ NoPod.restarts = 0 /\ NoPod.setups = 0 /\ ~NoPod.step
  BY DEF Idle, NoPod, Pods, Causes
<1>3. f \in Pods /\ PodOK(f) /\ PodOK(pod) /\ f.finished \in Nat /\ f.finished > 0 /\ f.finished <= now /\ now \in Nat
  BY <1>1 DEF HealthInv, HealthTypes, WatchInv, PodOK, Pods
<1>4. RestartCount(f) \in Nat
  BY <1>3 DEF RestartCount, Pods
<1>5. /\ e \in Incidents /\ e.at = now /\ e.of = f.finished /\ e.restarts = RestartCount(f) /\ ~e.step /\ e.setup = f.step
  BY <1>3, <1>4 DEF Incident, Incidents, Pods
<1>6. incidents' \in Seq(Incidents)
  BY <1>1, <1>5 DEF HealthInv, HealthTypes
<1>7. PodOK(pod)' /\ PodOK(watcher.failure)'
  BY <1>1, <1>2, <1>3 DEF PodOK
<1>8. HealthTypes'
  BY <1>1, <1>2, <1>6, <1>7 DEF HealthInv, HealthTypes
<1>9. WatchInv'
  BY <1>1, <1>2 DEF WatchInv
<1>10. CASE incidents' = incidents
  BY <1>1, <1>2, <1>8, <1>9, <1>10 DEF HealthInv, RowsInv, SameDeath
<1>11. CASE IsNew(f) /\ incidents' = Append(incidents, e)
  <2> PICK l : l = Len(incidents)
    OBVIOUS
  <2>1. incidents \in Seq(Incidents) /\ l \in Nat /\ DOMAIN incidents = 1 .. l
    BY DEF HealthInv, HealthTypes
  <2>2. DOMAIN incidents' = 1 .. l + 1 /\ incidents'[l + 1] = e /\ \A i \in 1 .. l : incidents'[i] = incidents[i]
    BY <1>5, <1>11, <2>1
  <2>3. \A i \in 1 .. l : /\ incidents[i].of <= f.finished
                          /\ incidents[i].of = f.finished => f.step /\ incidents[i].setup
    BY <1>1, <1>11, <2>1, NotNewAgain DEF HealthInv, RowsInv
  <2>4. pod.finished > 0 => f.finished <= pod.finished /\ (f.finished = pod.finished => f = pod)
    BY <1>1 DEF HealthInv, WatchInv
  <2>5. RowsInv'
    <3>1. ASSUME NEW i \in 1 .. l
          PROVE  /\ incidents'[i].of > 0 /\ incidents'[i].of <= incidents'[i].at /\ incidents'[i].at <= now' /\ ~incidents'[i].step
                 /\ pod'.finished > 0 => incidents'[i].of <= pod'.finished /\ SameDeath(i, pod)'
                 /\ \A j \in 1 .. l : i < j => /\ incidents'[i].of <= incidents'[j].of
                                               /\ incidents'[i].of = incidents'[j].of => incidents'[i].setup /\ incidents'[j].setup
                 /\ incidents'[i].of <= e.of /\ (incidents'[i].of = e.of => incidents'[i].setup /\ e.setup)
      BY <1>1, <1>5, <2>1, <2>2, <2>3 DEF HealthInv, RowsInv, SameDeath
    <3>2. /\ e.of > 0 /\ e.of <= e.at /\ e.at <= now' /\ ~e.step
          /\ pod'.finished > 0 => e.of <= pod'.finished /\ SameDeath(l + 1, pod)'
      BY <1>1, <1>3, <1>5, <2>2, <2>4 DEF SameDeath
    <3>3. ~watcher'.reading
      BY <1>1, <1>2
    <3>4. \A i \in DOMAIN incidents' : i \in 1 .. l \/ i = l + 1
      BY <2>1, <2>2
    <3>5. \A i, j \in DOMAIN incidents' : i < j => i \in 1 .. l
      BY <2>1, <2>2
    <3> QED BY <2>2, <3>1, <3>2, <3>3, <3>4, <3>5 DEF RowsInv
  <2> QED BY <1>8, <1>9, <2>5 DEF HealthInv
<1> QED BY <1>1, <1>10, <1>11

LEMMA HealthStep == HealthInv /\ [HealthNext]_healthVars => HealthInv'
<1> SUFFICES ASSUME HealthInv, [HealthNext]_healthVars PROVE HealthInv'
  OBVIOUS
<1>1. CASE UNCHANGED healthVars
  BY <1>1 DEF healthVars, HealthInv, HealthTypes, WatchInv, RowsInv, SameDeath, PodOK
<1>2. CASE ServerDies \/ SetupStepFails \/ PodReplaced \/ OperatorStops
  BY <1>2, HealthEvents, HappensKeeps
<1> QED BY <1>1, <1>2, CheckReads, CheckRecords DEF HealthNext

(* The watcher's records are well formed. *)
THEOREM HealthTypeCorrect == HealthSpec => []HealthTypeOK
<1>1. HealthSpec => []HealthInv
  BY HealthInitial, HealthStep, PTL DEF HealthSpec
<1> QED BY <1>1, HealthInvImplies, PTL
-----------------------------------------------------------------------------
(* No death is missed *)

(* Nothing happens to the server while a check looks at it. *)
ChecksAreQuick == ~SlowChecks

(* What a check has read is still so; a death of this pod that is older than *)
(* a row was on record with that row; and quiet means what it says.          *)
MissInv ==
  /\ watcher.reading => watcher.failure = Reported /\ watcher.failure = pod
  /\ \A i \in DOMAIN incidents : pod.finished > 0 /\ pod.finished <= incidents[i].at => incidents[i].of = pod.finished
  /\ NoDeathMissed

LEMMA MissStep ==
  ASSUME ChecksAreQuick, HealthInv, HealthInv', MissInv, [HealthNext]_healthVars
  PROVE  MissInv'
<1>1. \A i \in DOMAIN incidents : i \in Nat /\ incidents[i].of \in Nat /\ incidents[i].at \in Nat /\ incidents[i].at <= now
  <2>1. \A i \in DOMAIN incidents : incidents[i] \in Incidents /\ i \in Nat
    BY DEF HealthInv, HealthTypes
  <2> QED BY <2>1 DEF Incidents, HealthInv, RowsInv
<1>2. PodOK(pod) /\ pod \in Pods /\ pod.finished \in Nat /\ now \in Nat /\ pod.finished <= now
  BY DEF HealthInv, HealthTypes, PodOK, Pods
<1>3. CASE UNCHANGED healthVars
  BY <1>3 DEF MissInv, NoDeathMissed, Recorded, Reported, Crashed, healthVars
<1>4. CASE ServerDies \/ SetupStepFails \/ PodReplaced \/ OperatorStops
  <2>1. PICK p : EventOK(p, now + 1)
    BY <1>4, HealthEvents
  <2>2. /\ pod' = p /\ p.finished \in {0, now + 1} /\ ~quiet' /\ ~watcher.reading /\ UNCHANGED <<incidents, watcher>>
    BY <2>1 DEF EventOK, Happens, ChecksAreQuick
  <2> QED BY <1>1, <1>2, <2>2 DEF MissInv, NoDeathMissed
<1>5. CASE CheckBegins
  <2>1. /\ ~watcher.reading /\ UNCHANGED <<host, pod, now, incidents>>
        /\ \/ watcher' = [reading |-> TRUE, failure |-> Reported] /\ quiet' = quiet /\ Crashed(Reported)
           \/ ~Crashed(Reported) /\ watcher' = watcher
    BY <1>5 DEF CheckBegins
  <2>2. Reported' = Reported /\ (Crashed(Reported) => Reported = pod)
    BY <2>1 DEF Reported, Crashed, NoPod
  <2>3. NoDeathMissed'
    BY <2>1, <2>2 DEF MissInv, NoDeathMissed, Recorded
  <2>4. watcher'.reading => watcher'.failure = Reported' /\ watcher'.failure = pod'
    BY <2>1, <2>2
  <2> QED BY <2>1, <2>3, <2>4 DEF MissInv
<1>6. CASE CheckEnds
  <2> PICK f : f = watcher.failure
    OBVIOUS
  <2> PICK e : e = Incident(f)
    OBVIOUS
  <2>1. /\ watcher.reading /\ watcher' = Idle /\ UNCHANGED <<host, pod, now>>
        /\ \/ incidents' = IF IsNew(f) THEN Append(incidents, e) ELSE incidents
           \/ UNCHANGED <<incidents, quiet>>
    BY <1>6 DEF CheckEnds
  <2>2. f = Reported /\ f = pod /\ f.finished > 0 /\ Reported' = Reported /\ ~Idle.reading
    BY <2>1 DEF MissInv, HealthInv, WatchInv, Reported, Idle
  <2>3. RestartCount(f) \in Nat /\ f.finished \in Nat
    BY <1>2, <2>2 DEF RestartCount, Pods
  <2>4. e.of = f.finished /\ e.at = now
    BY DEF Incident
  <2>5. incidents \in Seq(Incidents)
    BY DEF HealthInv, HealthTypes
  <2>6. CASE UNCHANGED <<incidents, quiet>>
    BY <2>1, <2>2, <2>6 DEF MissInv, NoDeathMissed, Recorded
  <2>7. CASE IsNew(f) /\ incidents' = Append(incidents, e)
    <3> PICK l : l = Len(incidents)
      OBVIOUS
    <3>1. e \in Incidents
      <4>1. incidents' \in Seq(Incidents) /\ Len(incidents') = l + 1 /\ l \in Nat /\ incidents'[l + 1] = e
        BY <2>5, <2>7 DEF HealthInv, HealthTypes
      <4> QED BY <4>1
    <3>2. DOMAIN incidents = 1 .. l /\ l \in Nat /\ DOMAIN incidents' = 1 .. l + 1 /\ incidents'[l + 1] = e
          /\ \A i \in 1 .. l : incidents'[i] = incidents[i]
      BY <2>5, <2>7, <3>1
    <3>3. Recorded(pod.finished)'
      BY <2>1, <2>2, <2>4, <3>2 DEF Recorded
    <3>4. \A i \in DOMAIN incidents' : pod'.finished > 0 /\ pod'.finished <= incidents'[i].at => incidents'[i].of = pod'.finished
      BY <2>1, <2>2, <2>4, <3>2 DEF MissInv
    <3> QED BY <2>1, <2>2, <3>3, <3>4 DEF MissInv, NoDeathMissed
  <2>8. CASE ~IsNew(f) /\ incidents' = incidents
    <3> PICK l : l = Len(incidents)
      OBVIOUS
    <3>1. incidents # <<>> /\ ~(f.finished > incidents[l].at)
      BY <2>8 DEF IsNew, LastIncident
    <3>2. l \in DOMAIN incidents
      BY <2>5, <3>1
    <3>3. incidents[l].of = pod.finished
      BY <1>1, <2>2, <2>3, <3>1, <3>2 DEF MissInv
    <3>4. Recorded(pod.finished)'
      BY <2>1, <2>8, <3>2, <3>3 DEF Recorded
    <3> QED BY <2>1, <2>2, <2>8, <3>4 DEF MissInv, NoDeathMissed
  <2> QED BY <2>1, <2>6, <2>7, <2>8
<1> QED BY <1>3, <1>4, <1>5, <1>6 DEF HealthNext

(* As long as nothing happens to a server while it is looked at, the last    *)
(* death that the runtime knows of is on record after every check, and none  *)
(* is recorded twice, however often it is looked at and however the counts   *)
(* of a replaced pod begin again (checkOne, isNew).                          *)
THEOREM EveryDeathIsRecorded == ChecksAreQuick => (HealthSpec => []DeathsRecorded)
<1> SUFFICES ASSUME ChecksAreQuick PROVE HealthSpec => []DeathsRecorded
  OBVIOUS
<1>1. InitHealth => HealthInv /\ MissInv
  BY HealthInitial DEF InitHealth, MissInv, NoDeathMissed, Idle
<1>2. HealthInv /\ MissInv /\ [HealthNext]_healthVars => HealthInv' /\ MissInv'
  BY HealthStep, MissStep
<1>3. HealthInv /\ MissInv => DeathsRecorded
  BY HealthInvImplies DEF MissInv, DeathsRecorded
<1> QED BY <1>1, <1>2, <1>3, PTL DEF HealthSpec
-----------------------------------------------------------------------------
(* Who is online on a Valheim world *)

PlayerLines == [who : Players, kind : {"connection", "closing"}]
Workers == [id : Nat \ {0}, pc : {"enter", "entered", "open", "read", "row", "drain", "left"}, at : Nat,
            old : Seq(PlayerLines), told : BOOLEAN, owe : SUBSET PlayerLines]
Budgets == [lines : Nat, breaks : Nat, stops : Nat]

PresenceTypes ==
  /\ up \subseteq Numbers /\ lines \in [Numbers -> Seq(PlayerLines)] /\ follower \in [Numbers -> Nat]
  /\ work \in [Numbers -> SUBSET Workers] /\ astray \in [Numbers -> SUBSET Players]
  /\ onWorld \in [Numbers -> SUBSET Players] /\ roster \subseteq Players /\ unsure \subseteq Players
  /\ deleting \subseteq Numbers /\ budget \in Budgets /\ budget.lines <= MaxLines

(* The next worker of a world starts when the one before has ended. *)
WorkersTakeTurns == ~Overlap

(* A worker: it shows nobody when it has cleared, and has the statement on   *)
(* one player to make when it has written their row.                         *)
WorkerOK(n, g) ==
  /\ g.at <= Len(lines[n])
  /\ g.pc \in {"enter", "entered", "open", "drain", "left"} => g.at = 0
  /\ g.pc = "left" => g.told /\ onWorld[n] = {}
  /\ g.pc = "row" => \E l \in PlayerLines : g.owe = {l}
  /\ ~g.told => follower[n] = g.id

(* A world has one worker; when it has none, the rows that it left have lost *)
(* their server, or could not be cleared.                                    *)
WorldInv(n) ==
  /\ \A g, h \in work[n] : g = h
  /\ \A g \in work[n] : WorkerOK(n, g)
  /\ n \notin up => lines[n] = <<>>
  /\ work[n] = {} => onWorld[n] \subseteq astray[n]
  /\ Len(lines[n]) <= budget.lines
  /\ follower[n] # NoWorker => \E g \in work[n] : g.id = follower[n] /\ ~g.told

PresenceInv == PresenceTypes /\ \A n \in Numbers : WorldInv(n)

LEMMA PresenceInvImplies == PresenceInv => PresenceTypeOK
<1> SUFFICES ASSUME PresenceInv PROVE PresenceTypeOK
  OBVIOUS
<1>1. ASSUME NEW n \in Numbers
      PROVE  /\ onWorld[n] \subseteq Players /\ astray[n] \subseteq Players
             /\ \A g \in work[n] : g.pc \in {"enter", "entered", "open", "read", "row", "drain", "left"} /\ g.at <= MaxLines
             /\ follower[n] # NoWorker => \E g \in work[n] : g.id = follower[n] /\ ~g.told
  <2>1. lines[n] \in Seq(PlayerLines) /\ Len(lines[n]) \in Nat /\ budget.lines \in Nat /\ budget.lines <= MaxLines
        /\ Len(lines[n]) <= budget.lines /\ MaxLines \in Nat
    BY PresenceAssumption DEF PresenceInv, PresenceTypes, WorldInv, Budgets
  <2>2. ASSUME NEW g \in work[n]
        PROVE  g.pc \in {"enter", "entered", "open", "read", "row", "drain", "left"} /\ g.at <= MaxLines
    <3>1. g \in Workers /\ g.at <= Len(lines[n])
      BY DEF PresenceInv, PresenceTypes, WorldInv, WorkerOK
    <3>2. g.at \in Nat /\ g.pc \in {"enter", "entered", "open", "read", "row", "drain", "left"}
      BY <3>1 DEF Workers
    <3> QED BY <2>1, <3>1, <3>2
  <2> QED BY <2>2 DEF PresenceInv, PresenceTypes, WorldInv
<1> QED BY <1>1 DEF PresenceInv, PresenceTypes, PresenceTypeOK

LEMMA PresenceInit == InitPresence => PresenceInv
<1> SUFFICES ASSUME InitPresence PROVE PresenceInv
  OBVIOUS
<1>1. lines \in [Numbers -> Seq(PlayerLines)] /\ \A n \in Numbers : lines[n] = <<>>
  BY DEF InitPresence
<1>2. PresenceTypes
  BY <1>1, PresenceAssumption DEF InitPresence, PresenceTypes, NoWorker, Budgets
<1>3. \A n \in Numbers : WorldInv(n)
  BY <1>1 DEF InitPresence, WorldInv, NoWorker
<1> QED BY <1>2, <1>3 DEF PresenceInv

(* A step on world n leaves the others alone. *)
Local(n) == /\ \A m \in Numbers \ {n} : /\ m \in up' <=> m \in up
                                        /\ lines'[m] = lines[m] /\ follower'[m] = follower[m]
                                        /\ work'[m] = work[m] /\ onWorld'[m] = onWorld[m] /\ astray'[m] = astray[m]
            /\ budget.lines \in Nat /\ budget'.lines \in Nat /\ budget.lines <= budget'.lines

LEMMA LocalKeeps ==
  ASSUME PresenceInv, NEW n \in Numbers, Local(n), NEW m \in Numbers \ {n}
  PROVE  WorldInv(m)'
<1>1. Len(lines[m]) \in Nat /\ WorldInv(m)
  BY DEF PresenceInv, PresenceTypes
<1>2. /\ m \in up' <=> m \in up
      /\ lines'[m] = lines[m] /\ follower'[m] = follower[m] /\ work'[m] = work[m]
      /\ onWorld'[m] = onWorld[m] /\ astray'[m] = astray[m]
      /\ budget.lines \in Nat /\ budget'.lines \in Nat /\ budget.lines <= budget'.lines
  BY DEF Local
<1> QED BY <1>1, <1>2 DEF WorldInv, WorkerOK
-----------------------------------------------------------------------------
(* PresenceInv is kept by every step *)

(* What the steps on a world need to know of it. *)
LEMMA WorldFacts ==
  ASSUME PresenceInv, NEW n \in Numbers
  PROVE  /\ WorldInv(n) /\ PresenceTypes /\ work[n] \subseteq Workers /\ onWorld[n] \subseteq Players /\ astray[n] \subseteq Players
         /\ lines[n] \in Seq(PlayerLines) /\ Len(lines[n]) \in Nat /\ budget.lines \in Nat /\ follower[n] \in Nat
BY DEF PresenceInv, PresenceTypes, Budgets

(* A step of worker g, the only one of n: hs is what is left of it. *)
LEMMA OnlyWorker ==
  ASSUME PresenceInv, NEW n \in Numbers, NEW g \in work[n], NEW hs, Becomes(n, g, hs)
  PROVE  /\ work' = [work EXCEPT ![n] = hs] /\ work'[n] = hs /\ (\A m \in Numbers \ {n} : work'[m] = work[m])
         /\ g \in Workers /\ WorkerOK(n, g)
<1>1. \A h \in work[n] : g = h
  BY WorldFacts DEF WorldInv
<1>2. work[n] \ {g} = {}
  BY <1>1
<1>3. (work[n] \ {g}) \cup hs = hs
  BY <1>2
<1>4. work' = [work EXCEPT ![n] = hs]
  BY <1>3 DEF Becomes
<1> QED BY <1>4, WorldFacts DEF WorldInv, PresenceTypes

(* Steps that change the world's own values and stay within the types. *)
LEMMA WorldStep ==
  ASSUME PresenceInv, NEW n \in Numbers, Local(n), PresenceTypes', WorldInv(n)'
  PROVE  PresenceInv'
BY LocalKeeps DEF PresenceInv

(* A count that a step adds to. *)
LEMMA FailsCounts ==
  ASSUME budget \in Budgets, Fails \/ UNCHANGED budget
  PROVE  budget' \in Budgets /\ budget'.lines = budget.lines
<1>1. CASE Fails
  <2> PICK b \in Nat : b = budget.breaks + 1
    BY DEF Budgets
  <2>1. budget' = [budget EXCEPT !.breaks = b]
    BY <1>1 DEF Fails
  <2> QED BY <2>1 DEF Budgets
<1> QED BY <1>1

LEMMA StopsCount ==
  ASSUME budget \in Budgets, budget' = [budget EXCEPT !.stops = @ + 1]
  PROVE  budget' \in Budgets /\ budget'.lines = budget.lines
<1> PICK b \in Nat : b = budget.stops + 1
  BY DEF Budgets
<1>1. budget' = [budget EXCEPT !.stops = b]
  OBVIOUS
<1> QED BY <1>1 DEF Budgets

LEMMA NoLines == \E e \in Seq(PlayerLines) : e = <<>>
<1>1. <<>> \in Seq(PlayerLines)
  OBVIOUS
<1> QED BY <1>1
(* What the steps of a worker that goes on do to it, to its world (o and s,  *)
(* whom it shows and who is astray) and to the roster.                       *)
Start(n) == IF Len(lines[n]) > TailLines THEN Len(lines[n]) - TailLines ELSE 0
RosterSame == roster' = roster /\ unsure' = unsure
Counted == \/ roster' = Recount(Players) /\ unsure' = {}
           \/ roster' = roster /\ unsure' = unsure \cup roster
Told(n, l) == \/ roster' = RosterAfter(l) /\ unsure' = IF l.kind = "connection" /\ l.who \notin onWorld[n]
                                                        THEN unsure \cup {l.who} ELSE unsure \ {l.who}
              \/ roster' = roster /\ unsure' = unsure \cup {l.who}
Shows(n, o, s) == o = onWorld[n] /\ s = astray[n]
Reads(n, g, h, o, s, l, lost) ==
  /\ RosterSame
  /\ \/ h.pc = "row" /\ h.owe = {l} /\ o = Rows(n, l) /\ s = (astray[n] \ {l.who}) \cup lost
     \/ h.pc = g.pc /\ o = onWorld[n] /\ s = astray[n] \cup {l.who}

MoveKinds(n, g, h, o, s) ==
  \/ g.pc \in {"enter", "open", "read", "drain"} /\ h.pc \in {"entered", "left"} /\ h.at = 0
     /\ (h.pc = "left" => g.told) /\ o = {} /\ s = {} /\ RosterSame
  \/ g.pc = "enter" /\ h.pc = "open" /\ h.at = 0 /\ o = onWorld[n] /\ s = astray[n] \cup onWorld[n] /\ RosterSame
  \/ g.pc = "entered" /\ h.pc = "open" /\ h.at = 0 /\ Shows(n, o, s) /\ Counted
  \/ g.pc = "open" /\ h.pc = "read" /\ h.at = Start(n) /\ Shows(n, o, s) /\ RosterSame
  \/ g.pc \in {"read", "drain"} /\ h.pc = "open" /\ h.at = 0 /\ Shows(n, o, s) /\ RosterSame
  \/ g.pc = "read" /\ g.at < Len(lines[n]) /\ h.at = g.at + 1 /\ Reads(n, g, h, o, s, lines[n][g.at + 1], {})
  \/ g.pc = "drain" /\ h.at = 0 /\ \E l \in PlayerLines : Reads(n, g, h, o, s, l, IF l.kind = "connection" THEN {l.who} ELSE {})
  \/ g.pc = "row" /\ h.pc = (IF g.at = 0 THEN "drain" ELSE "read") /\ h.at = g.at /\ Shows(n, o, s) /\ Told(n, CHOOSE x \in g.owe : TRUE)

Moves(n, g, h, o, s) ==
  /\ Becomes(n, g, {h}) /\ UNCHANGED <<up, lines, follower, deleting>>
  /\ budget' \in Budgets /\ budget'.lines = budget.lines
  /\ onWorld' = [onWorld EXCEPT ![n] = o] /\ astray' = [astray EXCEPT ![n] = s]
  /\ h.id = g.id /\ h.told = g.told /\ MoveKinds(n, g, h, o, s)

(* The end of a worker that was told to stop. *)
Ends(n, g) ==
  /\ g.told /\ Becomes(n, g, {}) /\ UNCHANGED <<up, lines, follower, deleting, onWorld>>
  /\ budget' \in Budgets /\ budget'.lines = budget.lines
  /\ \/ g.pc = "left" /\ UNCHANGED astray /\ Counted
     \/ g.pc \in {"open", "read", "drain"} /\ astray' = [astray EXCEPT ![n] = astray[n] \cup onWorld[n]] /\ RosterSame

(* A line that is read: its row is written, or the statement fails. *)
LEMMA ConsumeMoves ==
  ASSUME PresenceInv, NEW n \in Numbers, NEW g \in work[n], NEW l \in PlayerLines, NEW lost \in SUBSET Players,
         NEW i \in Workers, Consume(n, g, l, lost, i), i.id = g.id, i.told = g.told, i.pc = g.pc
  PROVE  \E h \in Workers, o \in SUBSET Players, s \in SUBSET Players :
           /\ Becomes(n, g, {h}) /\ UNCHANGED <<up, lines, follower, deleting>>
           /\ budget' \in Budgets /\ budget'.lines = budget.lines
           /\ onWorld' = [onWorld EXCEPT ![n] = o] /\ astray' = [astray EXCEPT ![n] = s]
           /\ h.id = g.id /\ h.told = g.told /\ h.at = i.at /\ Reads(n, g, h, o, s, l, lost)
<1>1. /\ PresenceTypes /\ onWorld[n] \in SUBSET Players /\ astray[n] \in SUBSET Players /\ l.who \in Players
      /\ onWorld = [onWorld EXCEPT ![n] = onWorld[n]]
  BY WorldFacts DEF PresenceTypes, PlayerLines
<1>2. budget' \in Budgets /\ budget'.lines = budget.lines /\ UNCHANGED <<up, lines, follower, deleting, roster, unsure>>
  BY <1>1, FailsCounts DEF Consume, PresenceTypes
<1>3. CASE /\ onWorld' = [onWorld EXCEPT ![n] = Rows(n, l)] /\ Becomes(n, g, {[i EXCEPT !.pc = "row", !.owe = {l}]})
           /\ astray' = [astray EXCEPT ![n] = (astray[n] \ {l.who}) \cup lost]
  <2> PICK h : h = [i EXCEPT !.pc = "row", !.owe = {l}]
    OBVIOUS
  <2>1. h \in Workers /\ h.id = g.id /\ h.told = g.told /\ h.at = i.at /\ h.pc = "row" /\ h.owe = {l}
    BY DEF Workers
  <2>2. Rows(n, l) \in SUBSET Players /\ (astray[n] \ {l.who}) \cup lost \in SUBSET Players
    BY <1>1 DEF Rows
  <2> QED BY <1>2, <1>3, <2>1, <2>2 DEF Reads, RosterSame
<1>4. CASE onWorld' = onWorld /\ Becomes(n, g, {i}) /\ astray' = [astray EXCEPT ![n] = astray[n] \cup {l.who}]
  <2>1. astray[n] \cup {l.who} \in SUBSET Players
    BY <1>1
  <2> QED BY <1>1, <1>2, <1>4, <2>1 DEF Reads, RosterSame
<1> QED BY <1>3, <1>4 DEF Consume

(* The stream has nothing to lose of a server that is there. *)
LEMMA ConsumeNew ==
  ASSUME PresenceInv, NEW n \in Numbers, NEW g \in work[n], NEW l \in PlayerLines,
         NEW i \in Workers, Consume(n, g, l, {}, i), i.id = g.id, i.told = g.told, i.pc = g.pc
  PROVE  \E h \in Workers, o \in SUBSET Players, s \in SUBSET Players :
           /\ Becomes(n, g, {h}) /\ UNCHANGED <<up, lines, follower, deleting>>
           /\ budget' \in Budgets /\ budget'.lines = budget.lines
           /\ onWorld' = [onWorld EXCEPT ![n] = o] /\ astray' = [astray EXCEPT ![n] = s]
           /\ h.id = g.id /\ h.told = g.told /\ h.at = i.at /\ Reads(n, g, h, o, s, l, {})
<1>1. {} \in SUBSET Players
  OBVIOUS
<1> QED BY <1>1, ConsumeMoves

LEMMA StepsAreMoves ==
  ASSUME PresenceInv, NEW n \in Numbers, NEW g \in work[n],
         \/ Enter(n, g) \/ Leave(n, g) \/ ClearRoster(n, g) \/ OpenStream(n, g) \/ StreamEnds(n, g)
         \/ ReadLine(n, g) \/ ReadOld(n, g) \/ WriteRoster(n, g) \/ StreamBreaks(n, g)
  PROVE  Ends(n, g) \/ \E h \in Workers, o \in SUBSET Players, s \in SUBSET Players : Moves(n, g, h, o, s)
<1>1. /\ PresenceTypes /\ g \in Workers /\ WorkerOK(n, g) /\ onWorld[n] \in SUBSET Players /\ astray[n] \in SUBSET Players
      /\ Len(lines[n]) \in Nat /\ lines[n] \in Seq(PlayerLines)
  BY WorldFacts DEF WorldInv
<1>2. /\ budget \in Budgets /\ g.at \in Nat /\ {} \in SUBSET Players /\ astray[n] \cup onWorld[n] \in SUBSET Players
      /\ onWorld = [onWorld EXCEPT ![n] = onWorld[n]] /\ astray = [astray EXCEPT ![n] = astray[n]]
  BY <1>1 DEF PresenceTypes, Workers
<1>3. CASE Enter(n, g)
  <2>1. CASE budget' = budget /\ ClearRows(n) /\ astray' = [astray EXCEPT ![n] = {}]
             /\ Becomes(n, g, {[g EXCEPT !.pc = "entered", !.at = 0, !.old = <<>>]})
    <3> PICK e \in Seq(PlayerLines) : e = <<>>
      BY NoLines
    <3> PICK h : h = [g EXCEPT !.pc = "entered", !.at = 0, !.old = e]
      OBVIOUS
    <3>1. h \in Workers /\ h.id = g.id /\ h.told = g.told /\ h.pc = "entered" /\ h.at = 0
      BY <1>1 DEF Workers
    <3> QED BY <1>2, <1>3, <2>1, <3>1 DEF Enter, Clear, ClearRows, Moves, MoveKinds, RosterSame
  <2>2. CASE Fails /\ astray' = [astray EXCEPT ![n] = astray[n] \cup onWorld[n]] /\ Becomes(n, g, {[g EXCEPT !.pc = "open"]})
             /\ onWorld' = onWorld
    <3> PICK h : h = [g EXCEPT !.pc = "open"]
      OBVIOUS
    <3>1. h \in Workers /\ h.id = g.id /\ h.told = g.told /\ h.pc = "open" /\ h.at = 0
      BY <1>1, <1>3 DEF Workers, WorkerOK, Enter
    <3>2. budget' \in Budgets /\ budget'.lines = budget.lines
      BY <1>2, <2>2, FailsCounts
    <3> QED BY <1>2, <1>3, <2>2, <3>1, <3>2 DEF Enter, Clear, Moves, MoveKinds, RosterSame
  <2> QED BY <1>3, <2>1, <2>2 DEF Enter, Clear
<1>4. CASE Leave(n, g)
  <2>1. CASE budget' = budget /\ ClearRows(n) /\ astray' = [astray EXCEPT ![n] = {}]
             /\ Becomes(n, g, {[g EXCEPT !.pc = "left", !.at = 0, !.old = <<>>]})
    <3> PICK e \in Seq(PlayerLines) : e = <<>>
      BY NoLines
    <3> PICK h : h = [g EXCEPT !.pc = "left", !.at = 0, !.old = e]
      OBVIOUS
    <3>1. h \in Workers /\ h.id = g.id /\ h.told = g.told /\ h.pc = "left" /\ h.at = 0
      BY <1>1 DEF Workers
    <3> QED BY <1>2, <1>4, <2>1, <3>1 DEF Leave, Clear, ClearRows, Moves, MoveKinds, RosterSame
  <2>2. CASE Fails /\ astray' = [astray EXCEPT ![n] = astray[n] \cup onWorld[n]] /\ Becomes(n, g, {}) /\ onWorld' = onWorld
    <3>1. budget' \in Budgets /\ budget'.lines = budget.lines
      BY <1>2, <2>2, FailsCounts
    <3> QED BY <1>2, <1>4, <2>2, <3>1 DEF Leave, Clear, Ends, RosterSame
  <2> QED BY <1>4, <2>1, <2>2 DEF Leave, Clear
<1>5. CASE ClearRoster(n, g)
  <2>1. Counted /\ budget' \in Budgets /\ budget'.lines = budget.lines /\ UNCHANGED <<up, lines, follower, onWorld, deleting, astray>>
    BY <1>2, <1>5, FailsCounts DEF ClearRoster, CountAll, Counted
  <2>2. CASE g.pc = "left"
    BY <1>1, <1>5, <2>1, <2>2 DEF ClearRoster, Ends, WorkerOK
  <2>3. CASE g.pc = "entered"
    <3> PICK h : h = [g EXCEPT !.pc = "open"]
      OBVIOUS
    <3>1. h \in Workers /\ h.id = g.id /\ h.told = g.told /\ h.pc = "open" /\ h.at = 0
      BY <1>1, <2>3 DEF Workers, WorkerOK
    <3> QED BY <1>1, <1>2, <1>5, <2>1, <2>3, <3>1 DEF ClearRoster, Moves, MoveKinds, Shows
  <2> QED BY <1>5, <2>2, <2>3 DEF ClearRoster
<1>6. CASE OpenStream(n, g)
  <2> PICK k : k = Start(n)
    OBVIOUS
  <2> PICK h : h = [g EXCEPT !.pc = "read", !.at = k]
    OBVIOUS
  <2>1. k \in Nat
    BY <1>1, PresenceAssumption DEF Start
  <2>2. h \in Workers /\ h.id = g.id /\ h.told = g.told /\ h.pc = "read" /\ h.at = k
    BY <1>1, <2>1 DEF Workers
  <2>3. Becomes(n, g, {h}) /\ g.pc = "open" /\ UNCHANGED <<up, lines, follower, onWorld, roster, deleting, astray, unsure, budget>>
    BY <1>6 DEF OpenStream, Start
  <2> QED BY <1>1, <1>2, <2>2, <2>3 DEF Moves, MoveKinds, Shows, RosterSame
<1>7. CASE StreamBreaks(n, g)
  <2> PICK h : h = [g EXCEPT !.pc = "open", !.at = 0]
    OBVIOUS
  <2>1. h \in Workers /\ h.id = g.id /\ h.told = g.told /\ h.pc = "open" /\ h.at = 0
    BY <1>1 DEF Workers
  <2>2. Becomes(n, g, {h}) /\ g.pc = "read" /\ UNCHANGED <<up, lines, follower, onWorld, roster, deleting, astray, unsure>>
    BY <1>7 DEF StreamBreaks
  <2>3. budget' \in Budgets /\ budget'.lines = budget.lines
    BY <1>2, <1>7, FailsCounts DEF StreamBreaks
  <2> QED BY <1>1, <1>2, <2>1, <2>2, <2>3 DEF Moves, MoveKinds, Shows, RosterSame
<1>8. CASE StreamEnds(n, g)
  <2> PICK e \in Seq(PlayerLines) : e = <<>>
    BY NoLines
  <2> PICK h : h = [g EXCEPT !.pc = "open", !.old = e]
    OBVIOUS
  <2>1. h \in Workers /\ h.id = g.id /\ h.told = g.told /\ h.pc = "open" /\ h.at = 0
    BY <1>1, <1>8 DEF Workers, WorkerOK, StreamEnds
  <2> QED BY <1>1, <1>2, <1>8, <2>1 DEF StreamEnds, Moves, MoveKinds, Shows, RosterSame
<1>9. CASE ReadLine(n, g)
  <2> PICK k : k = g.at + 1
    OBVIOUS
  <2> PICK l : l = lines[n][k]
    OBVIOUS
  <2> PICK i : i = [g EXCEPT !.at = k]
    OBVIOUS
  <2>1. g.pc = "read" /\ g.at < Len(lines[n]) /\ k \in Nat
    BY <1>2, <1>9 DEF ReadLine
  <2>2. l \in PlayerLines
    <3>1. k \in 1 .. Len(lines[n]) /\ l = lines[n][k]
      BY <1>1, <1>2, <2>1
    <3> QED BY <1>1, <3>1
  <2>3. i \in Workers /\ i.id = g.id /\ i.told = g.told /\ i.pc = g.pc /\ i.at = k
    BY <1>1, <2>1 DEF Workers
  <2>4. Consume(n, g, l, {}, i)
    BY <1>9 DEF ReadLine
  <2>5. PICK h \in Workers, o \in SUBSET Players, s \in SUBSET Players :
           /\ Becomes(n, g, {h}) /\ UNCHANGED <<up, lines, follower, deleting>>
           /\ budget' \in Budgets /\ budget'.lines = budget.lines
           /\ onWorld' = [onWorld EXCEPT ![n] = o] /\ astray' = [astray EXCEPT ![n] = s]
           /\ h.id = g.id /\ h.told = g.told /\ h.at = i.at /\ Reads(n, g, h, o, s, l, {})
    BY <2>2, <2>3, <2>4, ConsumeNew
  <2>6. MoveKinds(n, g, h, o, s)
    BY <2>1, <2>3, <2>5 DEF MoveKinds
  <2> QED BY <2>5, <2>6 DEF Moves
<1>10. CASE ReadOld(n, g)
  <2> PICK l : l = Head(g.old)
    OBVIOUS
  <2> PICK lost : lost = IF l.kind = "connection" THEN {l.who} ELSE {}
    OBVIOUS
  <2> PICK i : i = [g EXCEPT !.old = Tail(g.old)]
    OBVIOUS
  <2>1. g.pc = "drain" /\ g.old # <<>> /\ g.old \in Seq(PlayerLines) /\ g.at = 0
    BY <1>1, <1>10 DEF ReadOld, Workers, WorkerOK
  <2>2. l \in PlayerLines /\ Tail(g.old) \in Seq(PlayerLines)
    BY <2>1
  <2>3. i \in Workers /\ i.id = g.id /\ i.told = g.told /\ i.pc = g.pc /\ i.at = 0
    BY <1>1, <2>1, <2>2 DEF Workers
  <2>4. Consume(n, g, l, lost, i) /\ lost \in SUBSET Players
    BY <1>10, <2>2 DEF ReadOld, PlayerLines
  <2>5. PICK h \in Workers, o \in SUBSET Players, s \in SUBSET Players :
           /\ Becomes(n, g, {h}) /\ UNCHANGED <<up, lines, follower, deleting>>
           /\ budget' \in Budgets /\ budget'.lines = budget.lines
           /\ onWorld' = [onWorld EXCEPT ![n] = o] /\ astray' = [astray EXCEPT ![n] = s]
           /\ h.id = g.id /\ h.told = g.told /\ h.at = i.at /\ Reads(n, g, h, o, s, l, lost)
    BY <2>2, <2>3, <2>4, ConsumeMoves
  <2>6. MoveKinds(n, g, h, o, s)
    BY <2>1, <2>2, <2>3, <2>5 DEF MoveKinds
  <2> QED BY <2>5, <2>6 DEF Moves
<1>11. CASE WriteRoster(n, g)
  <2> PICK pc : pc = IF g.at = 0 THEN "drain" ELSE "read"
    OBVIOUS
  <2> PICK h : h = [g EXCEPT !.pc = pc, !.owe = {}]
    OBVIOUS
  <2>1. h \in Workers /\ h.id = g.id /\ h.told = g.told /\ h.pc = pc /\ h.at = g.at
    BY <1>1 DEF Workers
  <2> PICK l : l = CHOOSE x \in g.owe : TRUE
    OBVIOUS
  <2>2. g.pc = "row" /\ Becomes(n, g, {h}) /\ UNCHANGED <<up, lines, follower, onWorld, deleting, astray>>
    BY <1>11 DEF WriteRoster
  <2>3. Told(n, l) /\ (Fails \/ UNCHANGED budget)
    BY <1>11 DEF WriteRoster, Told
  <2>4. budget' \in Budgets /\ budget'.lines = budget.lines
    BY <1>2, <2>3, FailsCounts
  <2>5. MoveKinds(n, g, h, onWorld[n], astray[n])
    BY <2>1, <2>2, <2>3 DEF MoveKinds, Shows
  <2> QED BY <1>1, <1>2, <2>1, <2>2, <2>4, <2>5 DEF Moves
<1> QED BY <1>3, <1>4, <1>5, <1>6, <1>7, <1>8, <1>9, <1>10, <1>11
LEMMA StartBound ==
  ASSUME PresenceInv, NEW n \in Numbers
  PROVE  Start(n) \in Nat /\ Start(n) <= Len(lines[n])
BY WorldFacts, PresenceAssumption DEF Start

LEMMA MovesKeep ==
  ASSUME PresenceInv, NEW n \in Numbers, NEW g \in work[n], NEW h \in Workers,
         NEW o \in SUBSET Players, NEW s \in SUBSET Players, Moves(n, g, h, o, s)
  PROVE  PresenceInv'
<1>1. /\ PresenceTypes /\ WorldInv(n) /\ g \in Workers /\ WorkerOK(n, g)
      /\ Len(lines[n]) \in Nat /\ lines[n] \in Seq(PlayerLines) /\ g.at \in Nat /\ h.at \in Nat
  BY WorldFacts DEF WorldInv, Workers, PresenceTypes
<1>2. /\ Becomes(n, g, {h}) /\ UNCHANGED <<up, lines, follower, deleting>>
      /\ budget' \in Budgets /\ budget'.lines = budget.lines
      /\ onWorld' = [onWorld EXCEPT ![n] = o] /\ astray' = [astray EXCEPT ![n] = s]
      /\ h.id = g.id /\ h.told = g.told /\ MoveKinds(n, g, h, o, s) /\ onWorld'[n] = o
  BY <1>1 DEF Moves, PresenceTypes
<1>3. /\ work' = [work EXCEPT ![n] = {h}] /\ work'[n] = {h} /\ (\A m \in Numbers \ {n} : work'[m] = work[m])
  BY <1>2, OnlyWorker
<1>4. roster' \subseteq Players /\ unsure' \subseteq Players
  <2>1. /\ roster \subseteq Players /\ unsure \subseteq Players /\ Recount(Players) \subseteq Players
        /\ \A l \in PlayerLines : RosterAfter(l) \subseteq Players /\ l.who \in Players
    BY <1>1 DEF PresenceTypes, Recount, RosterAfter, PlayerLines
  <2>2. g.pc = "row" => (CHOOSE x \in g.owe : TRUE) \in PlayerLines
    BY <1>1 DEF WorkerOK
  <2>3. CASE RosterSame \/ Counted
    BY <2>1, <2>3 DEF RosterSame, Counted
  <2>4. CASE g.pc = "row" /\ Told(n, CHOOSE x \in g.owe : TRUE)
    BY <2>1, <2>2, <2>4 DEF Told
  <2> QED BY <1>2, <2>3, <2>4 DEF MoveKinds, Reads
<1>5. WorkerOK(n, h)'
  <2>1. h.at <= Len(lines[n])
    BY <1>1, <1>2, StartBound DEF MoveKinds, WorkerOK
  <2>2. h.pc \in {"enter", "entered", "open", "drain", "left"} => h.at = 0
    BY <1>1, <1>2 DEF MoveKinds, WorkerOK, Reads
  <2>3. h.pc = "left" => h.told /\ o = {}
    BY <1>1, <1>2 DEF MoveKinds, WorkerOK, Reads
  <2>4. h.pc = "row" => \E l \in PlayerLines : h.owe = {l}
    <3>1. g.at < Len(lines[n]) => lines[n][g.at + 1] \in PlayerLines
      BY <1>1
    <3> QED BY <1>2, <3>1 DEF MoveKinds, Reads
  <2> QED BY <1>1, <1>2, <2>1, <2>2, <2>3, <2>4 DEF WorkerOK
<1>6. PresenceTypes'
  BY <1>1, <1>2, <1>3, <1>4 DEF PresenceTypes
<1>7. Local(n)
  BY <1>1, <1>2, <1>3 DEF Local, PresenceTypes, Budgets
<1>8. \A i \in work[n] : i = g
  BY <1>1 DEF WorldInv
<1>9. WorldInv(n)'
  BY <1>1, <1>2, <1>3, <1>5, <1>8 DEF WorldInv
<1> QED BY <1>6, <1>7, <1>9, WorldStep

(* The worker that was told to stop ends. *)
LEMMA EndsKeep ==
  ASSUME PresenceInv, NEW n \in Numbers, NEW g \in work[n], Ends(n, g)
  PROVE  PresenceInv'
<1>1. /\ g.told /\ Becomes(n, g, {}) /\ UNCHANGED <<up, lines, follower, deleting, onWorld>>
      /\ budget' \in Budgets /\ budget'.lines = budget.lines
  BY DEF Ends
<1>2. /\ work' = [work EXCEPT ![n] = {}] /\ work'[n] = {} /\ (\A m \in Numbers \ {n} : work'[m] = work[m])
      /\ g \in Workers /\ WorkerOK(n, g)
  BY <1>1, OnlyWorker
<1>3. PresenceTypes /\ WorldInv(n) /\ astray[n] \cup onWorld[n] \in SUBSET Players
  BY WorldFacts
<1>4. roster' \subseteq Players /\ unsure' \subseteq Players
  BY <1>3 DEF Ends, RosterSame, Counted, Recount, PresenceTypes
<1>5. astray' \in [Numbers -> SUBSET Players] /\ onWorld[n] \subseteq astray'[n] /\ \A m \in Numbers \ {n} : astray'[m] = astray[m]
  BY <1>2, <1>3 DEF Ends, PresenceTypes, WorkerOK
<1>6. PresenceTypes'
  BY <1>1, <1>2, <1>3, <1>4, <1>5 DEF PresenceTypes
<1>7. Local(n)
  BY <1>1, <1>2, <1>3, <1>5 DEF Local, PresenceTypes, Budgets
<1>8. WorldInv(n)'
  <2>1. \A h \in work[n] : h = g
    BY <1>3 DEF WorldInv
  <2>2. follower[n] = NoWorker
    BY <1>1, <1>3, <2>1 DEF WorldInv
  <2> QED BY <1>1, <1>2, <1>3, <1>5, <2>2 DEF WorldInv
<1> QED BY <1>6, <1>7, <1>8, WorldStep

(* The server goes: no worker has read a line of the next. *)
Left(n, g, h) ==
  /\ h \in Workers /\ h.id = g.id /\ h.told = g.told /\ h.owe = g.owe /\ h.at = 0
  /\ h.pc = IF g.pc = "read" THEN "drain" ELSE g.pc

LEMMA AbandonedLeaves ==
  ASSUME PresenceInv, NEW n \in Numbers, NEW g \in work[n]
  PROVE  Left(n, g, Abandoned(n, g))
<1>1. /\ g \in Workers /\ WorkerOK(n, g) /\ lines[n] \in Seq(PlayerLines)
      /\ Len(lines[n]) \in Nat /\ g.at \in Nat /\ g.at <= Len(lines[n])
  BY WorldFacts DEF WorldInv, Workers, PresenceTypes, WorkerOK
<1>2. PICK e \in Seq(PlayerLines) : e = SubSeq(lines[n], g.at + 1, Len(lines[n]))
  <2>1. \A i \in g.at + 1 .. Len(lines[n]) : lines[n][i] \in PlayerLines
    BY <1>1
  <2>2. SubSeq(lines[n], g.at + 1, Len(lines[n])) \in Seq(PlayerLines)
    BY <1>1, <2>1
  <2> QED BY <2>2
<1>3. CASE g.pc = "read"
  <2> PICK h : h = [g EXCEPT !.pc = "drain", !.at = 0, !.old = e]
    OBVIOUS
  <2>1. h \in Workers /\ h.id = g.id /\ h.told = g.told /\ h.owe = g.owe /\ h.at = 0 /\ h.pc = "drain"
    BY <1>1 DEF Workers
  <2>2. h = Abandoned(n, g)
    BY <1>1, <1>2, <1>3 DEF Abandoned, Workers
  <2> QED BY <1>3, <2>1, <2>2 DEF Left
<1>4. CASE g.pc = "row" /\ g.at > 0
  <2> PICK h : h = [g EXCEPT !.pc = "row", !.at = 0, !.old = e]
    OBVIOUS
  <2>1. h \in Workers /\ h.id = g.id /\ h.told = g.told /\ h.owe = g.owe /\ h.at = 0 /\ h.pc = "row"
    BY <1>1 DEF Workers
  <2>2. h = Abandoned(n, g)
    BY <1>1, <1>2, <1>4 DEF Abandoned, Workers
  <2> QED BY <1>4, <2>1, <2>2 DEF Left
<1>5. CASE ~(g.pc = "read" \/ (g.pc = "row" /\ g.at > 0))
  <2>1. g.at = 0 /\ Abandoned(n, g) = g
    BY <1>1, <1>5 DEF WorkerOK, Workers, Abandoned
  <2> QED BY <1>1, <1>5, <2>1 DEF Left
<1> QED BY <1>3, <1>4, <1>5

LEMMA ServerLeaves ==
  ASSUME PresenceInv, NEW n \in Numbers, NEW g \in work[n], ServerGoes(n)
  PROVE  \E h \in Workers : work' = [work EXCEPT ![n] = {h}] /\ Left(n, g, h)
<1>1. \A i \in work[n] : i = g
  BY WorldFacts DEF WorldInv
<1>2. work' = [work EXCEPT ![n] = {Abandoned(n, g)}]
  <2>1. {Abandoned(n, i) : i \in work[n]} = {Abandoned(n, g)}
    BY <1>1
  <2> QED BY <2>1 DEF ServerGoes
<1> QED BY <1>2, AbandonedLeaves DEF Left

LEMMA LogsBeginAgain ==
  ASSUME PresenceInv, NEW n \in Numbers, ServerGoes(n),
         up' \subseteq Numbers, \A m \in Numbers \ {n} : m \in up' <=> m \in up,
         budget' \in Budgets, budget'.lines = budget.lines,
         UNCHANGED <<follower, onWorld, roster, deleting, unsure>>
  PROVE  /\ PresenceInv' /\ lines'[n] = <<>> /\ onWorld[n] \subseteq astray'[n]
         /\ \A m \in Numbers \ {n} : lines'[m] = lines[m] /\ work'[m] = work[m] /\ astray'[m] = astray[m]
<1>1. /\ PresenceTypes /\ WorldInv(n) /\ work[n] \in SUBSET Workers /\ astray[n] \cup onWorld[n] \in SUBSET Players
  BY WorldFacts
<1>2. /\ lines' = [lines EXCEPT ![n] = <<>>] /\ astray' = [astray EXCEPT ![n] = astray[n] \cup onWorld[n]]
      /\ \E gs : work' = [work EXCEPT ![n] = gs]
  BY DEF ServerGoes
<1>3. /\ lines'[n] = <<>> /\ Len(lines'[n]) = 0 /\ onWorld[n] \subseteq astray'[n] /\ lines' \in [Numbers -> Seq(PlayerLines)]
      /\ astray' \in [Numbers -> SUBSET Players]
      /\ \A m \in Numbers \ {n} : lines'[m] = lines[m] /\ work'[m] = work[m] /\ astray'[m] = astray[m]
  BY <1>1, <1>2 DEF PresenceTypes
<1>4. Local(n)
  BY <1>1, <1>3 DEF Local, PresenceTypes, Budgets
<1>5. budget'.lines \in Nat
  BY DEF Budgets
<1>6. CASE work[n] = {}
  <2>1. work'[n] = {}
    BY <1>1, <1>6 DEF ServerGoes, PresenceTypes
  <2>2. work' \in [Numbers -> SUBSET Workers]
    BY <1>1, <1>2, <2>1 DEF PresenceTypes
  <2>3. PresenceTypes'
    BY <1>1, <1>3, <2>2 DEF PresenceTypes
  <2>4. WorldInv(n)'
    BY <1>1, <1>3, <1>5, <1>6, <2>1 DEF WorldInv
  <2> QED BY <1>3, <1>4, <2>3, <2>4, WorldStep
<1>7. ASSUME NEW g \in work[n] PROVE PresenceInv'
  <2>1. PICK h \in Workers : work' = [work EXCEPT ![n] = {h}] /\ Left(n, g, h)
    BY ServerLeaves
  <2>2. \A i \in work[n] : i = g
    BY <1>1 DEF WorldInv
  <2>3. work'[n] = {h} /\ work' \in [Numbers -> SUBSET Workers] /\ g \in Workers /\ WorkerOK(n, g)
    BY <1>1, <2>1 DEF PresenceTypes, WorldInv
  <2>4. PresenceTypes'
    BY <1>1, <1>3, <2>3 DEF PresenceTypes
  <2>5. WorkerOK(n, h)'
    BY <1>3, <2>1, <2>3 DEF WorkerOK, Left
  <2>6. WorldInv(n)'
    BY <1>1, <1>3, <1>5, <2>1, <2>2, <2>3, <2>5 DEF WorldInv, Left
  <2> QED BY <1>4, <2>4, <2>6, WorldStep
<1> QED BY <1>3, <1>6, <1>7

LEMMA WorldStopsKeeps ==
  ASSUME PresenceInv, NEW n \in Numbers, WorldStops(n) \/ ServerRestarts(n)
  PROVE  /\ PresenceInv' /\ ServerGoes(n) /\ UNCHANGED <<follower, onWorld, roster, deleting, unsure>>
         /\ lines'[n] = <<>> /\ onWorld[n] \subseteq astray'[n]
         /\ \A m \in Numbers \ {n} : lines'[m] = lines[m] /\ work'[m] = work[m] /\ astray'[m] = astray[m]
<1>1. PresenceTypes
  BY WorldFacts
<1>2. /\ ServerGoes(n) /\ up' \subseteq Numbers /\ (\A m \in Numbers \ {n} : m \in up' <=> m \in up)
      /\ UNCHANGED <<follower, onWorld, roster, deleting, unsure>>
  BY <1>1 DEF WorldStops, ServerRestarts, PresenceTypes
<1>3. budget' \in Budgets /\ budget'.lines = budget.lines
  BY <1>1, StopsCount DEF WorldStops, ServerRestarts, PresenceTypes
<1> QED BY <1>2, <1>3, LogsBeginAgain

LEMMA WorldStartsKeeps ==
  ASSUME PresenceInv, NEW n \in Numbers, WorldStarts(n)
  PROVE  PresenceInv' /\ UNCHANGED <<lines, follower, work, onWorld, roster, deleting, astray, unsure, budget>>
<1>1. PresenceTypes /\ WorldInv(n)
  BY WorldFacts
<1>2. /\ n \notin up /\ up' = up \cup {n} /\ lines' = [lines EXCEPT ![n] = <<>>]
      /\ UNCHANGED <<follower, work, onWorld, roster, deleting, astray, unsure, budget>>
  BY DEF WorldStarts
<1>3. lines' = lines
  BY <1>1, <1>2 DEF WorldInv, PresenceTypes
<1>4. PresenceTypes' /\ Local(n)
  BY <1>1, <1>2, <1>3 DEF PresenceTypes, Local, Budgets
<1>5. WorldInv(n)'
  BY <1>1, <1>2, <1>3 DEF WorldInv, WorkerOK
<1> QED BY <1>2, <1>3, <1>4, <1>5, WorldStep

LEMMA PlayerLineKeeps ==
  ASSUME PresenceInv, NEW n \in Numbers, NEW a \in Players, PlayerLine(n, a)
  PROVE  /\ PresenceInv' /\ UNCHANGED <<up, follower, work, onWorld, roster, deleting, astray, unsure>>
         /\ (\A m \in Numbers \ {n} : lines'[m] = lines[m])
         /\ Len(lines'[n]) = Len(lines[n]) + 1 /\ \A i \in 1 .. Len(lines[n]) : lines'[n][i] = lines[n][i]
<1> PICK l : l = [who |-> a, kind |-> IF a \in Connected(n) THEN "closing" ELSE "connection"]
  OBVIOUS
<1>1. l \in PlayerLines
  BY DEF PlayerLines
<1>2. /\ n \in up /\ budget.lines < MaxLines /\ lines' = [lines EXCEPT ![n] = Append(lines[n], l)]
      /\ budget' = [budget EXCEPT !.lines = budget.lines + 1]
      /\ UNCHANGED <<up, follower, work, onWorld, roster, deleting, astray, unsure>>
  BY DEF PlayerLine
<1>3. PresenceTypes /\ WorldInv(n) /\ lines[n] \in Seq(PlayerLines) /\ Len(lines[n]) \in Nat /\ budget.lines \in Nat
  BY WorldFacts
<1>4. /\ lines'[n] \in Seq(PlayerLines) /\ Len(lines'[n]) = Len(lines[n]) + 1
      /\ (\A i \in 1 .. Len(lines[n]) : lines'[n][i] = lines[n][i])
      /\ lines' \in [Numbers -> Seq(PlayerLines)] /\ (\A m \in Numbers \ {n} : lines'[m] = lines[m])
  BY <1>1, <1>2, <1>3 DEF PresenceTypes
<1>5. budget' \in Budgets /\ budget'.lines = budget.lines + 1
  <2> PICK b \in Nat : b = budget.lines + 1
    BY <1>3
  <2>1. budget' = [budget EXCEPT !.lines = b]
    BY <1>2
  <2> QED BY <1>3, <2>1 DEF PresenceTypes, Budgets
<1>6. budget'.lines <= MaxLines
  BY <1>2, <1>3, <1>5, PresenceAssumption
<1>7. PresenceTypes'
  BY <1>2, <1>3, <1>4, <1>5, <1>6 DEF PresenceTypes
<1>8. Local(n)
  BY <1>2, <1>3, <1>4, <1>5 DEF Local
<1>9. ASSUME NEW g \in work[n] PROVE WorkerOK(n, g)'
  <2>1. g \in Workers /\ WorkerOK(n, g)
    BY <1>3 DEF WorldInv, PresenceTypes
  <2>2. g.at \in Nat
    BY <2>1 DEF Workers
  <2>3. g.at <= Len(lines'[n]) /\ onWorld' = onWorld /\ follower' = follower
    BY <1>2, <1>3, <1>4, <2>1, <2>2 DEF WorkerOK
  <2> QED BY <2>1, <2>3 DEF WorkerOK
<1>10. WorldInv(n)'
  BY <1>2, <1>3, <1>4, <1>5, <1>9 DEF WorldInv
<1> QED BY <1>2, <1>4, <1>7, <1>8, <1>10, WorldStep

(* Reconcile starts a worker: it has read nothing. *)
LEMMA StartWorkerKeeps ==
  ASSUME WorkersTakeTurns, PresenceInv, NEW n \in Numbers, StartWorker(n)
  PROVE  /\ PresenceInv' /\ UNCHANGED <<up, lines, onWorld, roster, deleting, astray, unsure, budget>> /\ work[n] = {}
         /\ \E g \in Workers : work' = [work EXCEPT ![n] = {g}] /\ g.at = 0 /\ g.pc = "enter"
<1>1. PresenceTypes /\ WorldInv(n) /\ Len(lines[n]) \in Nat
  BY WorldFacts
<1> PICK i : i = IF \E g \in work[n] : g.id = 1 THEN 2 ELSE 1
  OBVIOUS
<1> PICK g : g = Reader(i)
  OBVIOUS
<1>2. work[n] = {} /\ UNCHANGED <<up, lines, onWorld, roster, deleting, astray, unsure, budget>>
  BY DEF StartWorker, Free, WorkersTakeTurns
<1>3. follower' = [follower EXCEPT ![n] = i] /\ work' = [work EXCEPT ![n] = work[n] \cup {g}]
  BY DEF StartWorker
<1>4. i \in {1, 2} /\ i \in Nat \ {0}
  OBVIOUS
<1>5. g \in Workers /\ g.id = i /\ g.pc = "enter" /\ g.at = 0 /\ ~g.told /\ g.owe = {}
  BY <1>4, NoLines DEF Reader, Workers
<1>6. work' = [work EXCEPT ![n] = {g}] /\ work'[n] = {g} /\ follower'[n] = i /\ follower' \in [Numbers -> Nat]
      /\ \A m \in Numbers \ {n} : work'[m] = work[m] /\ follower'[m] = follower[m]
  BY <1>1, <1>2, <1>3, <1>4 DEF PresenceTypes
<1>7. PresenceTypes' /\ Local(n)
  BY <1>1, <1>2, <1>5, <1>6 DEF PresenceTypes, Local, Budgets
<1>8. WorldInv(n)'
  <2>1. WorkerOK(n, g)'
    BY <1>1, <1>2, <1>5, <1>6 DEF WorkerOK
  <2> QED BY <1>1, <1>2, <1>5, <1>6, <2>1 DEF WorldInv
<1> QED BY <1>2, <1>5, <1>6, <1>7, <1>8, WorldStep

(* Reconcile tells the worker of a stopped world to stop. *)
LEMMA StopWorkerKeeps ==
  ASSUME PresenceInv, NEW n \in Numbers, StopWorker(n)
  PROVE  /\ PresenceInv' /\ UNCHANGED <<up, lines, onWorld, roster, deleting, astray, unsure, budget>>
         /\ \E g \in work[n], h \in Workers : /\ work' = [work EXCEPT ![n] = {h}] /\ h.at = g.at /\ h.pc = g.pc
                                              /\ h.owe = g.owe /\ h.told
<1>1. PresenceTypes /\ WorldInv(n) /\ Len(lines[n]) \in Nat /\ work[n] \subseteq Workers
  BY WorldFacts
<1>2. /\ n \notin up /\ follower[n] # NoWorker /\ follower' = [follower EXCEPT ![n] = NoWorker]
      /\ UNCHANGED <<up, lines, onWorld, roster, deleting, astray, unsure, budget>>
      /\ work' = [work EXCEPT ![n] = {IF g.id = follower[n] THEN [g EXCEPT !.told = TRUE] ELSE g : g \in work[n]}]
  BY DEF StopWorker
<1>3. PICK g \in work[n] : g.id = follower[n] /\ WorkerOK(n, g) /\ \A h \in work[n] : h = g
  BY <1>1, <1>2 DEF WorldInv
<1> PICK h : h = [g EXCEPT !.told = TRUE]
  OBVIOUS
<1>4. work' = [work EXCEPT ![n] = {h}]
  BY <1>2, <1>3
<1>5. h \in Workers /\ h.id = g.id /\ h.at = g.at /\ h.pc = g.pc /\ h.owe = g.owe /\ h.told = TRUE
  BY <1>1 DEF Workers
<1>6. work'[n] = {h} /\ follower'[n] = NoWorker /\ follower' \in [Numbers -> Nat]
      /\ \A m \in Numbers \ {n} : work'[m] = work[m] /\ follower'[m] = follower[m]
  BY <1>1, <1>2, <1>4 DEF PresenceTypes, NoWorker
<1>7. PresenceTypes' /\ Local(n)
  <2>1. h \in Workers
    BY <1>5
  <2>2. work' \in [Numbers -> SUBSET Workers]
    BY <1>1, <1>4, <2>1 DEF PresenceTypes
  <2>3. PresenceTypes'
    BY <1>1, <1>2, <1>6, <2>2 DEF PresenceTypes
  <2> QED BY <1>1, <1>2, <1>6, <2>3 DEF PresenceTypes, Local, Budgets
<1>8. WorldInv(n)'
  <2>1. WorkerOK(n, h)'
    BY <1>2, <1>3, <1>5 DEF WorkerOK
  <2> QED BY <1>1, <1>2, <1>6, <2>1 DEF WorldInv
<1> QED BY <1>2, <1>4, <1>5, <1>7, <1>8, WorldStep

(* A delete's hook: it only takes rows away. *)
LEMMA HooksKeep ==
  ASSUME PresenceInv, NEW n \in Numbers, HookRows(n) \/ HookRoster(n)
  PROVE  /\ PresenceInv' /\ UNCHANGED <<up, lines, follower, work>> /\ (\A m \in Numbers : onWorld'[m] \subseteq onWorld[m])
         /\ \A m \in Numbers, a \in Players : a \notin astray'[m] => a \notin astray[m] /\ (a \in onWorld'[m] <=> a \in onWorld[m])
<1>1. PresenceTypes /\ WorldInv(n) /\ astray[n] \cup onWorld[n] \in SUBSET Players /\ Len(lines[n]) \in Nat /\ budget \in Budgets
  BY WorldFacts DEF PresenceTypes
<1>2. UNCHANGED <<up, lines, follower, work>> /\ budget' \in Budgets /\ budget'.lines = budget.lines
  BY <1>1, FailsCounts, StopsCount DEF HookRows, HookRoster, CountAll
<1>3. /\ onWorld' \in [Numbers -> SUBSET Players] /\ astray' \in [Numbers -> SUBSET Players]
      /\ \A m \in Numbers \ {n} : onWorld'[m] = onWorld[m] /\ astray'[m] = astray[m]
      /\ \/ onWorld'[n] = onWorld[n] /\ astray'[n] = astray[n]
         \/ onWorld'[n] = {} /\ astray'[n] = astray[n] \cup onWorld[n]
  BY <1>1 DEF HookRows, HookRoster, ClearRows, PresenceTypes
<1>4. roster' \subseteq Players /\ unsure' \subseteq Players /\ deleting' \subseteq Numbers
  BY <1>1 DEF HookRows, HookRoster, CountAll, Recount, PresenceTypes
<1>5. PresenceTypes' /\ Local(n)
  BY <1>1, <1>2, <1>3, <1>4 DEF PresenceTypes, Local, Budgets
<1>6. \A g \in work[n] : WorkerOK(n, g)'
  BY <1>1, <1>2, <1>3 DEF WorldInv, WorkerOK
<1>7. WorldInv(n)'
  BY <1>1, <1>2, <1>3, <1>6 DEF WorldInv
<1> QED BY <1>2, <1>3, <1>5, <1>7, WorldStep

(* A worker's steps are moves, and its end. *)
LEMMA WorkCases ==
  ASSUME PresenceInv, NEW n \in Numbers, Work(n) \/ \E g \in work[n] : StreamBreaks(n, g)
  PROVE  \/ \E g \in work[n] : Ends(n, g)
         \/ \E g \in work[n], h \in Workers, o \in SUBSET Players, s \in SUBSET Players : Moves(n, g, h, o, s)
<1> PICK g \in work[n] : \/ Enter(n, g) \/ Leave(n, g) \/ ClearRoster(n, g) \/ OpenStream(n, g) \/ StreamEnds(n, g)
                         \/ ReadLine(n, g) \/ ReadOld(n, g) \/ WriteRoster(n, g) \/ StreamBreaks(n, g)
  BY DEF Work
<1> QED BY StepsAreMoves

LEMMA PresenceStep ==
  ASSUME WorkersTakeTurns, PresenceInv, [PresenceNext]_presenceVars
  PROVE  PresenceInv'
<1>1. CASE UNCHANGED presenceVars
  <2>1. UNCHANGED <<up, lines, follower, work, onWorld, roster, deleting, astray, unsure, budget>>
    BY <1>1 DEF presenceVars
  <2>2. PresenceTypes'
    BY <2>1 DEF PresenceInv, PresenceTypes
  <2>3. \A n \in Numbers : WorldInv(n) => WorldInv(n)'
    BY <2>1 DEF WorldInv, WorkerOK
  <2> QED BY <2>2, <2>3 DEF PresenceInv
<1>2. ASSUME NEW n \in Numbers, Work(n) \/ \E g \in work[n] : StreamBreaks(n, g) PROVE PresenceInv'
  BY <1>2, WorkCases, MovesKeep, EndsKeep
<1> QED BY <1>1, <1>2, WorldStartsKeeps, WorldStopsKeeps, PlayerLineKeeps, StartWorkerKeeps, StopWorkerKeeps, HooksKeep DEF PresenceNext
-----------------------------------------------------------------------------
(* The roster agrees with the worlds *)

Online(a) == \E m \in Numbers : a \in onWorld[m]

(* A worker that has written a player's row and not the roster, and the      *)
(* clearing of a world, which counts everybody who is in the roster.         *)
Owes(g, a) == g.pc = "row" /\ \E l \in g.owe : l.who = a
Clearing == deleting # {} \/ \E n \in Numbers : \E g \in work[n] : g.pc \in {"entered", "left"}

(* The roster is right about a player, or somebody is about to put it right. *)
RosterRight(a) == a \in roster <=> Online(a)
RosterOwed(a) == (a \in roster /\ Clearing) \/ \E n \in Numbers : \E g \in work[n] : Owes(g, a)
RosterInv == \A a \in Players \ unsure : RosterRight(a) \/ RosterOwed(a)

(* Who has a row to follow up has it still. *)
RowsKept == \A m \in Numbers : \A g \in work[m] : g.pc = "row" => \E h \in work'[m] : h.pc = "row" /\ h.owe = g.owe

LEMMA RosterKept ==
  ASSUME RosterInv, RosterSame, RowsKept, \A m \in Numbers : onWorld'[m] = onWorld[m], Clearing => Clearing'
  PROVE  RosterInv'
BY DEF RosterInv, RosterRight, RosterOwed, Online, Owes, RosterSame, RowsKept

LEMMA RosterCounted ==
  ASSUME RosterInv, Counted, RowsKept, \A m \in Numbers : onWorld'[m] = onWorld[m]
  PROVE  RosterInv'
<1>1. \A a : Online(a)' <=> Online(a)
  BY DEF Online
<1>2. CASE roster' = Recount(Players) /\ unsure' = {}
  BY <1>1, <1>2 DEF RosterInv, RosterRight, Recount, Online
<1>3. CASE roster' = roster /\ unsure' = unsure \cup roster
  <2>1. ASSUME NEW a \in Players \ unsure' PROVE RosterRight(a)' \/ RosterOwed(a)'
    <3>1. a \in Players \ unsure /\ a \notin roster
      BY <1>3, <2>1
    <3>2. RosterRight(a) \/ \E n \in Numbers : \E g \in work[n] : Owes(g, a)
      BY <3>1 DEF RosterInv, RosterOwed
    <3> QED BY <1>1, <1>3, <3>2 DEF RosterRight, RosterOwed, RowsKept, Owes
  <2> QED BY <2>1 DEF RosterInv
<1> QED BY <1>2, <1>3 DEF Counted

LEMMA RosterCleared ==
  ASSUME RosterInv, RosterSame, RowsKept, Clearing', \A m \in Numbers : onWorld'[m] \subseteq onWorld[m]
  PROVE  RosterInv'
<1>1. ASSUME NEW a \in Players \ unsure PROVE RosterRight(a)' \/ RosterOwed(a)'
  <2>1. CASE a \in roster
    BY <2>1 DEF RosterSame, RosterOwed
  <2>2. CASE a \notin roster /\ RosterRight(a)
    BY <2>2 DEF RosterSame, RosterRight, Online
  <2>3. CASE \E n \in Numbers : \E g \in work[n] : Owes(g, a)
    BY <2>3 DEF RosterOwed, RowsKept, Owes
  <2> QED BY <2>1, <2>2, <2>3 DEF RosterInv, RosterOwed
<1> QED BY <1>1 DEF RosterInv, RosterSame

(* A worker of n that has no row to follow up. *)
LEMMA RowsKeptBy ==
  ASSUME PresenceInv, NEW n \in Numbers, NEW g \in work[n], g.pc # "row", \A m \in Numbers \ {n} : work'[m] = work[m]
  PROVE  RowsKept
<1>1. \A h \in work[n] : h = g
  BY WorldFacts DEF WorldInv
<1> QED BY <1>1 DEF RowsKept

(* One player's row or place in the roster: the others are as they were. *)
LEMMA RosterOfOne ==
  ASSUME PresenceInv, RosterInv, NEW n \in Numbers, NEW g \in work[n], g.pc \in {"read", "drain", "row"}, NEW w, NEW a \in Players \ {w},
         g.pc = "row" => \A l \in g.owe : l.who = w,
         \A m \in Numbers \ {n} : work'[m] = work[m], UNCHANGED deleting,
         a \in roster' <=> a \in roster, a \in unsure' <=> a \in unsure, Online(a)' <=> Online(a), a \notin unsure'
  PROVE  RosterRight(a)' \/ RosterOwed(a)'
<1>1. \A h \in work[n] : h = g
  BY WorldFacts DEF WorldInv
<1>2. ~Owes(g, a)
  BY DEF Owes
<1>3. RosterRight(a) \/ RosterOwed(a)
  BY DEF RosterInv
<1>4. CASE RosterRight(a)
  BY <1>4 DEF RosterRight
<1>5. CASE a \in roster /\ Clearing
  <2>1. Clearing'
    BY <1>1, <1>5 DEF Clearing
  <2> QED BY <1>5, <2>1 DEF RosterOwed
<1>6. ASSUME NEW m \in Numbers, NEW h \in work[m], Owes(h, a) PROVE RosterOwed(a)'
  <2>1. m # n
    BY <1>1, <1>2, <1>6
  <2> QED BY <1>6, <2>1 DEF RosterOwed, Owes
<1> QED BY <1>3, <1>4, <1>5, <1>6 DEF RosterOwed

LEMMA RosterMoves ==
  ASSUME PresenceInv, RosterInv, NEW n \in Numbers, NEW g \in work[n], NEW h \in Workers,
         NEW o \in SUBSET Players, NEW s \in SUBSET Players, Moves(n, g, h, o, s)
  PROVE  RosterInv'
<1>1. /\ work'[n] = {h} /\ (\A m \in Numbers \ {n} : work'[m] = work[m]) /\ WorkerOK(n, g) /\ UNCHANGED deleting
  BY OnlyWorker DEF Moves
<1>2. onWorld \in [Numbers -> SUBSET Players] /\ onWorld' = [onWorld EXCEPT ![n] = o] /\ MoveKinds(n, g, h, o, s)
  BY WorldFacts DEF PresenceTypes, Moves
<1>3. onWorld'[n] = o /\ \A m \in Numbers \ {n} : onWorld'[m] = onWorld[m]
  BY <1>2
<1>4. \A i \in work[n] : i = g
  BY WorldFacts DEF WorldInv
<1>5. ASSUME NEW a \in Players, a \in o <=> a \in onWorld[n] PROVE Online(a)' <=> Online(a)
  BY <1>3, <1>5 DEF Online
<1>6. CASE g.pc # "row" /\ h.pc \in {"entered", "left"} /\ o = {} /\ RosterSame
  <2>1. Clearing' /\ \A m \in Numbers : onWorld'[m] \subseteq onWorld[m]
    BY <1>1, <1>3, <1>6 DEF Clearing
  <2> QED BY <1>1, <1>6, <2>1, RowsKeptBy, RosterCleared
<1>7. CASE g.pc # "row" /\ o = onWorld[n] /\ Counted
  BY <1>1, <1>3, <1>7, RowsKeptBy, RosterCounted
<1>8. CASE g.pc \in {"enter", "open", "read", "drain"} /\ o = onWorld[n] /\ RosterSame
  <2>1. Clearing => Clearing'
    BY <1>1, <1>4, <1>8 DEF Clearing
  <2> QED BY <1>1, <1>3, <1>8, <2>1, RowsKeptBy, RosterKept
<1>9. ASSUME g.pc \in {"read", "drain"}, RosterSame, h.pc = "row", NEW l, h.owe = {l}, o = Rows(n, l) PROVE RosterInv'
  <2>1. ASSUME NEW a \in Players \ unsure PROVE RosterRight(a)' \/ RosterOwed(a)'
    <3>1. CASE a = l.who
      BY <1>1, <1>9, <3>1 DEF RosterOwed, Owes
    <3>2. CASE a # l.who
      <4>1. a \in o <=> a \in onWorld[n]
        BY <1>9, <3>2 DEF Rows
      <4>2. Online(a)' <=> Online(a)
        BY <1>5, <4>1
      <4> QED BY <1>1, <1>9, <3>2, <4>2, RosterOfOne DEF RosterSame
    <3> QED BY <3>1, <3>2
  <2> QED BY <1>9, <2>1 DEF RosterInv, RosterSame
<1>10. CASE g.pc = "row" /\ o = onWorld[n] /\ Told(n, CHOOSE x \in g.owe : TRUE)
  <2>1. PICK l \in PlayerLines : g.owe = {l}
    BY <1>1, <1>10 DEF WorkerOK
  <2>2. (CHOOSE x \in g.owe : TRUE) = l
    BY <2>1
  <2>3. Told(n, l) /\ \A a \in Players : Online(a)' <=> Online(a)
    BY <1>5, <1>10, <2>2
  <2>4. ASSUME NEW a \in Players \ unsure' PROVE RosterRight(a)' \/ RosterOwed(a)'
    <3>1. CASE a = l.who
      BY <2>3, <2>4, <3>1 DEF Told, RosterRight, RosterAfter, Recount, Online
    <3>2. CASE a # l.who
      <4>1. (a \in roster' <=> a \in roster) /\ (a \in unsure' <=> a \in unsure)
        BY <2>3, <3>2 DEF Told, RosterAfter, Recount
      <4> QED BY <1>1, <1>10, <2>1, <2>3, <2>4, <3>2, <4>1, RosterOfOne
    <3> QED BY <3>1, <3>2
  <2> QED BY <2>4 DEF RosterInv
<1> QED BY <1>2, <1>6, <1>7, <1>8, <1>9, <1>10 DEF MoveKinds, Shows, Reads

LEMMA RosterEnds ==
  ASSUME PresenceInv, RosterInv, NEW n \in Numbers, NEW g \in work[n], Ends(n, g)
  PROVE  RosterInv'
<1>1. /\ work'[n] = {} /\ (\A m \in Numbers \ {n} : work'[m] = work[m]) /\ UNCHANGED <<onWorld, deleting>>
  BY OnlyWorker DEF Ends
<1>2. \A i \in work[n] : i = g
  BY WorldFacts DEF WorldInv
<1>3. RowsKept
  BY <1>1, RowsKeptBy DEF Ends
<1>4. CASE Counted
  BY <1>1, <1>3, <1>4, RosterCounted
<1>5. CASE g.pc \in {"open", "read", "drain"} /\ RosterSame
  <2>1. Clearing => Clearing'
    BY <1>1, <1>2, <1>5 DEF Clearing
  <2> QED BY <1>1, <1>3, <1>5, <2>1, RosterKept
<1> QED BY <1>4, <1>5 DEF Ends

LEMMA RosterStep ==
  ASSUME WorkersTakeTurns, PresenceInv, RosterInv, [PresenceNext]_presenceVars
  PROVE  RosterInv'
<1>1. CASE UNCHANGED <<work, onWorld, roster, deleting, unsure>>
  BY <1>1, RosterKept DEF RosterSame, RowsKept, Clearing
<1>2. CASE UNCHANGED presenceVars
  BY <1>1, <1>2 DEF presenceVars
<1>3. ASSUME NEW n \in Numbers, Work(n) \/ \E g \in work[n] : StreamBreaks(n, g) PROVE RosterInv'
  BY <1>3, WorkCases, RosterMoves, RosterEnds
<1>4. ASSUME NEW n \in Numbers, WorldStarts(n) \/ \E a \in Players : PlayerLine(n, a) PROVE RosterInv'
  BY <1>1, <1>4 DEF WorldStarts, PlayerLine
<1>5. ASSUME NEW n \in Numbers, WorldStops(n) \/ ServerRestarts(n) PROVE RosterInv'
  <2>1. ServerGoes(n) /\ RosterSame /\ UNCHANGED <<onWorld, deleting>> /\ \A m \in Numbers \ {n} : work'[m] = work[m]
    BY <1>5, WorldStopsKeeps DEF RosterSame
  <2>2. ASSUME NEW g \in work[n]
        PROVE  \E h \in work'[n] : h.owe = g.owe /\ (g.pc \in {"entered", "left", "row"} => h.pc = g.pc)
    <3>1. PICK h \in Workers : work' = [work EXCEPT ![n] = {h}] /\ Left(n, g, h)
      BY <2>1, ServerLeaves
    <3>2. h \in work'[n]
      BY <3>1, WorldFacts DEF PresenceTypes
    <3> QED BY <3>1, <3>2 DEF Left
  <2>3. RowsKept /\ (Clearing => Clearing')
    BY <2>1, <2>2 DEF RowsKept, Clearing
  <2> QED BY <2>1, <2>3, RosterKept
<1>6. ASSUME NEW n \in Numbers, StartWorker(n) PROVE RosterInv'
  <2>1. RosterSame /\ UNCHANGED <<onWorld, deleting>> /\ work[n] = {} /\ \E k : work' = [work EXCEPT ![n] = k]
    BY <1>6, StartWorkerKeeps DEF RosterSame
  <2>2. \A m \in Numbers \ {n} : work'[m] = work[m]
    BY <2>1, WorldFacts DEF PresenceTypes
  <2>3. RowsKept /\ (Clearing => Clearing')
    BY <2>1, <2>2 DEF RowsKept, Clearing
  <2> QED BY <2>1, <2>3, RosterKept
<1>7. ASSUME NEW n \in Numbers, StopWorker(n) PROVE RosterInv'
  <2>1. PICK g \in work[n], h \in Workers : work' = [work EXCEPT ![n] = {h}] /\ h.pc = g.pc /\ h.owe = g.owe
    BY <1>7, StopWorkerKeeps
  <2>2. RosterSame /\ UNCHANGED <<onWorld, deleting>> /\ \A i \in work[n] : i = g
    BY <1>7, WorldFacts DEF StopWorker, WorldInv, RosterSame
  <2>3. work'[n] = {h} /\ \A m \in Numbers \ {n} : work'[m] = work[m]
    BY <2>1, WorldFacts DEF PresenceTypes
  <2>4. RowsKept /\ (Clearing => Clearing')
    BY <2>1, <2>2, <2>3 DEF RowsKept, Clearing
  <2> QED BY <2>2, <2>4, RosterKept
<1>8. ASSUME NEW n \in Numbers, HookRows(n) PROVE RosterInv'
  <2>1. RosterSame /\ UNCHANGED work /\ deleting' # {} /\ \A m \in Numbers : onWorld'[m] \subseteq onWorld[m]
    BY <1>8, HooksKeep DEF HookRows, RosterSame
  <2>2. RowsKept /\ Clearing'
    BY <2>1 DEF RowsKept, Clearing
  <2> QED BY <2>1, <2>2, RosterCleared
<1>9. ASSUME NEW n \in Numbers, HookRoster(n) PROVE RosterInv'
  <2>1. Counted /\ UNCHANGED <<work, onWorld>>
    BY <1>9 DEF HookRoster, CountAll, Counted
  <2> QED BY <2>1, RosterCounted DEF RowsKept
<1> QED BY <1>2, <1>3, <1>4, <1>5, <1>6, <1>7, <1>8, <1>9 DEF PresenceNext

LEMMA RosterInvImplies == RosterInv => RosterAgrees
<1> SUFFICES ASSUME RosterInv, RosterSettled, NEW a \in Players \ unsure PROVE a \in roster <=> a \in OnAWorld
  BY DEF RosterAgrees
<1>1. ~Clearing /\ ~\E n \in Numbers : \E g \in work[n] : Owes(g, a)
  BY DEF RosterSettled, Clearing, Owes, Busy
<1>2. RosterRight(a)
  BY <1>1 DEF RosterInv, RosterOwed
<1> QED BY <1>2 DEF RosterRight, Online, OnAWorld

(* As long as a worker starts when the one before it has ended, the roster   *)
(* is right whenever nobody is between two statements, in whatever order the *)
(* worlds' workers and the deletes' hooks wrote the same player's row, about *)
(* everybody whom no failed statement and no connection without a row has    *)
(* left unsettled (SetOnline, ClearPresence).                                *)
THEOREM RosterIsRight == WorkersTakeTurns => (PresenceSpec => [](PresenceTypeOK /\ RosterAgrees))
<1> SUFFICES ASSUME WorkersTakeTurns PROVE PresenceSpec => [](PresenceTypeOK /\ RosterAgrees)
  OBVIOUS
<1>1. InitPresence => PresenceInv /\ RosterInv
  BY PresenceInit DEF InitPresence, RosterInv, RosterRight, Online
<1>2. PresenceInv /\ RosterInv /\ [PresenceNext]_presenceVars => PresenceInv' /\ RosterInv'
  BY PresenceStep, RosterStep
<1>3. PresenceInv /\ RosterInv => PresenceTypeOK /\ RosterAgrees
  BY PresenceInvImplies, RosterInvImplies
<1> QED BY <1>1, <1>2, <1>3, PTL DEF PresenceSpec
-----------------------------------------------------------------------------
(* A world shows who its log says is connected *)

(* A stream repeats all of the log. *)
StreamsRepeatAll == MaxLines <= TailLines

Mine(n, a, i) == lines[n][i].who = a

(* Up to where the worker has read: the last line about a player decides; a  *)
(* player whom it has not met yet is shown only if an earlier reading of the *)
(* same log met them.                                                        *)
ReadOf(n, g, a) ==
  \/ /\ \A i \in 1 .. g.at : ~Mine(n, a, i)
     /\ a \in onWorld[n] => \E i \in 1 .. Len(lines[n]) : Mine(n, a, i)
  \/ \E i \in 1 .. g.at : /\ Mine(n, a, i) /\ \A j \in i + 1 .. g.at : ~Mine(n, a, j)
                          /\ a \in onWorld[n] <=> lines[n][i].kind = "connection"
ShownInv == \A n \in Numbers : \A g \in work[n] : \A a \in Players \ astray[n] : ReadOf(n, g, a)

(* A line that is read about somebody else. *)
LEMMA ReadOn ==
  ASSUME NEW n \in Numbers, NEW g, NEW h, NEW a, ReadOf(n, g, a), UNCHANGED lines, a \in onWorld'[n] <=> a \in onWorld[n],
         g.at \in Nat, h.at = g.at + 1, ~Mine(n, a, g.at + 1)
  PROVE  ReadOf(n, h, a)'
<1> PICK k : k = g.at + 1
  OBVIOUS
<1>1. k \in Nat /\ h.at = k /\ ~Mine(n, a, k) /\ \A i \in 1 .. h.at : i \in 1 .. g.at \/ i = k
  OBVIOUS
<1>2. \A i : Mine(n, a, i)' <=> Mine(n, a, i)
  BY DEF Mine
<1>3. CASE /\ \A i \in 1 .. g.at : ~Mine(n, a, i)
           /\ a \in onWorld[n] => \E i \in 1 .. Len(lines[n]) : Mine(n, a, i)
  BY <1>1, <1>2, <1>3 DEF ReadOf
<1>4. ASSUME NEW i \in 1 .. g.at, Mine(n, a, i), \A j \in i + 1 .. g.at : ~Mine(n, a, j),
             a \in onWorld[n] <=> lines[n][i].kind = "connection"
      PROVE  ReadOf(n, h, a)'
  <2>1. i \in 1 .. h.at /\ \A j \in i + 1 .. h.at : j \in i + 1 .. g.at \/ j = k
    BY <1>1
  <2> QED BY <1>1, <1>2, <1>4, <2>1 DEF ReadOf
<1> QED BY <1>3, <1>4 DEF ReadOf

LEMMA ShownMoves ==
  ASSUME StreamsRepeatAll, PresenceInv, PresenceInv', NEW n \in Numbers, NEW g \in work[n], NEW h \in Workers,
         NEW o \in SUBSET Players, NEW s \in SUBSET Players, Moves(n, g, h, o, s),
         NEW a \in Players \ s, a \notin astray[n] => ReadOf(n, g, a)
  PROVE  ReadOf(n, h, a)'
<1>1. /\ work'[n] = {h} /\ WorkerOK(n, g) /\ WorkerOK(n, h)' /\ g \in Workers
  BY OnlyWorker DEF Moves, PresenceInv, WorldInv
<1>2. /\ onWorld'[n] = o /\ MoveKinds(n, g, h, o, s) /\ lines' = lines
  BY WorldFacts DEF PresenceTypes, Moves
<1>3. /\ Len(lines[n]) \in Nat /\ g.at \in Nat /\ h.at \in Nat /\ g.at <= Len(lines[n]) /\ h.at <= Len(lines[n])
      /\ \A i : Mine(n, a, i)' <=> Mine(n, a, i)
  BY <1>1, <1>2, WorldFacts DEF WorkerOK, Workers, Mine
<1>4. CASE h.at = g.at /\ a \notin astray[n] /\ (a \in o <=> a \in onWorld[n])
  BY <1>2, <1>3, <1>4 DEF ReadOf
<1>5. CASE h.at = 0 /\ a \notin o
  BY <1>2, <1>3, <1>5 DEF ReadOf
<1>6. CASE h.at = 0 /\ a \notin astray[n] /\ (a \in o <=> a \in onWorld[n])
  <2>1. a \in onWorld[n] => \E i \in 1 .. Len(lines[n]) : Mine(n, a, i)
    BY <1>3, <1>6 DEF ReadOf
  <2> QED BY <1>2, <1>3, <1>6, <2>1 DEF ReadOf
<1>7. ASSUME g.at < Len(lines[n]), h.at = g.at + 1, NEW l, l = lines[n][g.at + 1], Reads(n, g, h, o, s, l, {}) PROVE ReadOf(n, h, a)'
  <2> PICK k : k = g.at + 1
    OBVIOUS
  <2>1. k \in 1 .. Len(lines[n]) /\ k \in Nat /\ h.at = k /\ l = lines[n][k]
    BY <1>3, <1>7
  <2>2. CASE a = l.who
    <3>1. o = Rows(n, l)
      BY <1>7, <2>2 DEF Reads
    <3>2. k \in 1 .. h.at /\ Mine(n, a, k)' /\ \A j \in k + 1 .. h.at : ~Mine(n, a, j)'
      BY <1>2, <2>1, <2>2 DEF Mine
    <3>3. a \in onWorld'[n] <=> lines'[n][k].kind = "connection"
      BY <1>2, <2>1, <2>2, <3>1 DEF Rows
    <3> QED BY <3>2, <3>3 DEF ReadOf
  <2>3. CASE a # l.who
    <3>1. (a \in o <=> a \in onWorld[n]) /\ a \notin astray[n]
      BY <1>7, <2>3 DEF Rows, Reads
    <3>2. ReadOf(n, g, a) /\ (a \in onWorld'[n] <=> a \in onWorld[n]) /\ ~Mine(n, a, g.at + 1)
      BY <1>2, <1>7, <2>3, <3>1 DEF Mine
    <3> QED BY <1>2, <1>3, <1>7, <3>2, ReadOn
  <2> QED BY <2>2, <2>3
<1>8. ASSUME g.pc = "drain", h.at = 0, NEW l \in PlayerLines, Reads(n, g, h, o, s, l, IF l.kind = "connection" THEN {l.who} ELSE {})
      PROVE  ReadOf(n, h, a)'
  <2>1. CASE a = l.who
    <3>1. o = Rows(n, l) /\ l.kind # "connection"
      BY <1>8, <2>1 DEF Reads
    <3>2. a \notin o
      BY <2>1, <3>1 DEF Rows
    <3> QED BY <1>5, <1>8, <3>2
  <2>2. CASE a # l.who
    <3>1. (a \in o <=> a \in onWorld[n]) /\ a \notin astray[n]
      BY <1>8, <2>2 DEF Rows, Reads
    <3> QED BY <1>6, <1>8, <3>1
  <2> QED BY <2>1, <2>2
<1>9. CASE g.pc = "open" /\ h.at = Start(n) /\ Shows(n, o, s)
  <2>1. Len(lines[n]) <= TailLines
    BY <1>3, WorldFacts, PresenceAssumption DEF StreamsRepeatAll, WorldInv, PresenceTypes, Budgets
  <2>2. h.at = 0
    BY <1>3, <1>9, <2>1, PresenceAssumption DEF Start
  <2> QED BY <1>6, <1>9, <2>2 DEF Shows
<1>10. CASE h.at = 0 /\ o = {}
  BY <1>5, <1>10
<1>11. CASE h.at = 0 /\ o = onWorld[n] /\ s = astray[n] \cup onWorld[n]
  BY <1>6, <1>11
<1>12. CASE h.at = 0 /\ Shows(n, o, s)
  BY <1>6, <1>12 DEF Shows
<1>13. CASE h.at = g.at /\ Shows(n, o, s)
  BY <1>4, <1>13 DEF Shows
<1> QED BY <1>2, <1>7, <1>8, <1>9, <1>10, <1>11, <1>12, <1>13 DEF MoveKinds

(* The other worlds show what they showed. *)
LEMMA ShownElsewhere ==
  ASSUME ShownInv, NEW n \in Numbers,
         \A m \in Numbers \ {n} : lines'[m] = lines[m] /\ work'[m] = work[m] /\ onWorld'[m] = onWorld[m] /\ astray'[m] = astray[m],
         \A g \in work'[n] : \A a \in Players \ astray'[n] : ReadOf(n, g, a)'
  PROVE  ShownInv'
<1> SUFFICES ASSUME NEW m \in Numbers, NEW g \in work'[m], NEW a \in Players \ astray'[m] PROVE ReadOf(m, g, a)'
  BY DEF ShownInv
<1>1. CASE m = n
  BY <1>1
<1>2. CASE m # n
  BY <1>2 DEF ShownInv, ReadOf, Mine
<1> QED BY <1>1, <1>2

LEMMA ShownStep ==
  ASSUME WorkersTakeTurns, StreamsRepeatAll, PresenceInv, PresenceInv', ShownInv, [PresenceNext]_presenceVars
  PROVE  ShownInv'
<1>0. /\ lines \in [Numbers -> Seq(PlayerLines)] /\ work \in [Numbers -> SUBSET Workers]
      /\ onWorld \in [Numbers -> SUBSET Players] /\ astray \in [Numbers -> SUBSET Players]
  BY DEF PresenceInv, PresenceTypes
<1>1. CASE UNCHANGED <<lines, work, onWorld, astray>>
  BY <1>1 DEF ShownInv, ReadOf, Mine
<1>2. CASE UNCHANGED presenceVars
  BY <1>1, <1>2 DEF presenceVars
<1>3. ASSUME NEW n \in Numbers, Work(n) \/ \E g \in work[n] : StreamBreaks(n, g) PROVE ShownInv'
  <2>1. ASSUME NEW g \in work[n], NEW h \in Workers, NEW o \in SUBSET Players, NEW s \in SUBSET Players, Moves(n, g, h, o, s) PROVE ShownInv'
    <3>1. /\ work'[n] = {h} /\ (\A m \in Numbers \ {n} : work'[m] = work[m] /\ onWorld'[m] = onWorld[m] /\ astray'[m] = astray[m])
          /\ UNCHANGED lines /\ astray'[n] = s
      BY <1>0, <2>1, OnlyWorker DEF Moves
    <3>2. ASSUME NEW a \in Players \ s PROVE ReadOf(n, h, a)'
      <4>1. a \notin astray[n] => ReadOf(n, g, a)
        BY DEF ShownInv
      <4> QED BY <2>1, <4>1, ShownMoves
    <3> QED BY <3>1, <3>2, ShownElsewhere
  <2>2. ASSUME NEW g \in work[n], Ends(n, g) PROVE ShownInv'
    <3>1. /\ work'[n] = {} /\ UNCHANGED <<lines, onWorld>>
          /\ \A m \in Numbers \ {n} : work'[m] = work[m] /\ astray'[m] = astray[m]
      BY <1>0, <2>2, OnlyWorker DEF Ends
    <3> QED BY <3>1, ShownElsewhere
  <2> QED BY <1>3, <2>1, <2>2, WorkCases
<1>4. ASSUME NEW n \in Numbers, WorldStarts(n) PROVE ShownInv'
  BY <1>1, <1>4, WorldStartsKeeps
<1>5. ASSUME NEW n \in Numbers, WorldStops(n) \/ ServerRestarts(n) PROVE ShownInv'
  <2>1. /\ lines'[n] = <<>> /\ onWorld[n] \subseteq astray'[n] /\ UNCHANGED onWorld
        /\ \A m \in Numbers \ {n} : lines'[m] = lines[m] /\ work'[m] = work[m] /\ astray'[m] = astray[m]
    BY <1>5, WorldStopsKeeps
  <2>2. ASSUME NEW g \in work'[n], NEW a \in Players \ astray'[n] PROVE ReadOf(n, g, a)'
    <3>1. g \in Workers /\ WorkerOK(n, g)'
      BY DEF PresenceInv, PresenceTypes, WorldInv
    <3>2. g.at \in Nat /\ g.at <= 0
      BY <2>1, <3>1 DEF WorkerOK, Workers
    <3>3. 1 .. g.at = {} /\ a \notin onWorld'[n]
      BY <2>1, <3>2
    <3> QED BY <3>3 DEF ReadOf
  <2> QED BY <2>1, <2>2, ShownElsewhere
<1>6. ASSUME NEW n \in Numbers, NEW a \in Players, PlayerLine(n, a) PROVE ShownInv'
  <2>1. /\ UNCHANGED <<work, onWorld, astray>> /\ (\A m \in Numbers \ {n} : lines'[m] = lines[m])
        /\ Len(lines'[n]) = Len(lines[n]) + 1 /\ \A i \in 1 .. Len(lines[n]) : lines'[n][i] = lines[n][i]
    BY <1>6, PlayerLineKeeps
  <2>2. ASSUME NEW g \in work[n], NEW b \in Players \ astray[n] PROVE ReadOf(n, g, b)'
    <3>1. ReadOf(n, g, b) /\ g \in Workers /\ WorkerOK(n, g) /\ Len(lines[n]) \in Nat
      BY <2>2, WorldFacts DEF ShownInv, WorldInv
    <3>2. g.at \in Nat /\ g.at <= Len(lines[n])
      BY <3>1 DEF Workers, WorkerOK
    <3>3. \A i \in 1 .. Len(lines[n]) : Mine(n, b, i)' <=> Mine(n, b, i)
      BY <2>1 DEF Mine
    <3>4. (1 .. g.at) \subseteq (1 .. Len(lines[n])) /\ (1 .. Len(lines[n])) \subseteq (1 .. Len(lines'[n]))
      BY <2>1, <3>1, <3>2
    <3>5. CASE /\ \A i \in 1 .. g.at : ~Mine(n, b, i)
               /\ b \in onWorld[n] => \E i \in 1 .. Len(lines[n]) : Mine(n, b, i)
      BY <2>1, <3>3, <3>4, <3>5 DEF ReadOf
    <3>6. ASSUME NEW i \in 1 .. g.at, Mine(n, b, i), \A j \in i + 1 .. g.at : ~Mine(n, b, j),
                 b \in onWorld[n] <=> lines[n][i].kind = "connection"
          PROVE  ReadOf(n, g, b)'
      <4>1. \A j \in i + 1 .. g.at : j \in 1 .. Len(lines[n])
        BY <3>1, <3>2
      <4>2. lines'[n][i] = lines[n][i] /\ Mine(n, b, i)' /\ \A j \in i + 1 .. g.at : ~Mine(n, b, j)'
        BY <2>1, <3>3, <3>4, <3>6, <4>1
      <4> QED BY <2>1, <3>6, <4>2 DEF ReadOf
    <3> QED BY <3>1, <3>5, <3>6 DEF ReadOf
  <2> QED BY <2>1, <2>2, ShownElsewhere
<1>7. ASSUME NEW n \in Numbers, StartWorker(n) PROVE ShownInv'
  <2>1. PICK g \in Workers : work' = [work EXCEPT ![n] = {g}] /\ g.at = 0
    BY <1>7, StartWorkerKeeps
  <2>2. UNCHANGED <<lines, onWorld, astray>> /\ work[n] = {} /\ onWorld[n] \subseteq astray[n]
    BY <1>7, StartWorkerKeeps, WorldFacts DEF WorldInv
  <2>3. work'[n] = {g} /\ \A m \in Numbers \ {n} : work'[m] = work[m]
    BY <1>0, <2>1
  <2>4. \A a \in Players \ astray'[n] : ReadOf(n, g, a)'
    BY <2>1, <2>2 DEF ReadOf
  <2> QED BY <2>2, <2>3, <2>4, ShownElsewhere
<1>8. ASSUME NEW n \in Numbers, StopWorker(n) PROVE ShownInv'
  <2>1. PICK g \in work[n], h \in Workers : work' = [work EXCEPT ![n] = {h}] /\ h.at = g.at
    BY <1>8, StopWorkerKeeps
  <2>2. UNCHANGED <<lines, onWorld, astray>> /\ work'[n] = {h} /\ \A m \in Numbers \ {n} : work'[m] = work[m]
    BY <1>0, <1>8, <2>1 DEF StopWorker
  <2>3. \A a \in Players \ astray'[n] : ReadOf(n, h, a)'
    BY <2>1, <2>2 DEF ShownInv, ReadOf, Mine
  <2> QED BY <2>2, <2>3, ShownElsewhere
<1>9. ASSUME NEW n \in Numbers, HookRows(n) \/ HookRoster(n) PROVE ShownInv'
  <2>1. /\ UNCHANGED <<lines, work>>
        /\ \A m \in Numbers, a \in Players : a \notin astray'[m] => a \notin astray[m] /\ (a \in onWorld'[m] <=> a \in onWorld[m])
    BY <1>9, HooksKeep
  <2> QED BY <2>1 DEF ShownInv, ReadOf, Mine
<1> QED BY <1>2, <1>3, <1>4, <1>5, <1>6, <1>7, <1>8, <1>9 DEF PresenceNext

(* The last line about a player is what Last says, once it has been read. *)
LEMMA ReadIsConnected ==
  ASSUME NEW n \in Numbers, lines[n] \in Seq(PlayerLines), NEW g, g.at = Len(lines[n]), NEW a \in Players, ReadOf(n, g, a)
  PROVE  a \in onWorld[n] <=> a \in Connected(n)
<1>1. Len(lines[n]) \in Nat /\ DOMAIN lines[n] = 1 .. Len(lines[n])
  OBVIOUS
<1>2. CASE \A i \in 1 .. Len(lines[n]) : ~Mine(n, a, i)
  <2>1. {i \in DOMAIN lines[n] : lines[n][i].who = a} = {}
    BY <1>1, <1>2 DEF Mine
  <2>2. Last(n, a) = "none"
    BY <2>1 DEF Last
  <2>3. a \notin onWorld[n]
    BY <1>2 DEF ReadOf
  <2> QED BY <2>2, <2>3 DEF Connected
<1>3. ASSUME NEW i \in 1 .. Len(lines[n]), Mine(n, a, i), \A j \in i + 1 .. Len(lines[n]) : ~Mine(n, a, j),
             a \in onWorld[n] <=> lines[n][i].kind = "connection"
      PROVE  a \in onWorld[n] <=> a \in Connected(n)
  <2> PICK mine : mine = {j \in DOMAIN lines[n] : lines[n][j].who = a}
    OBVIOUS
  <2>1. i \in mine /\ mine \subseteq 1 .. Len(lines[n]) /\ \A j \in mine : j <= i
    BY <1>1, <1>3 DEF Mine
  <2>2. \A k \in mine : (\A j \in mine : j <= k) => k = i
    BY <1>1, <2>1
  <2>3. (CHOOSE k \in mine : \A j \in mine : j <= k) = i
    BY <2>1, <2>2
  <2>4. Last(n, a) = lines[n][i].kind
    BY <2>1, <2>3 DEF Last
  <2> QED BY <1>3, <2>4 DEF Connected
<1> QED BY <1>2, <1>3 DEF ReadOf

LEMMA ShownInvImplies == PresenceInv /\ ShownInv => PresenceIsCurrent
<1> SUFFICES ASSUME PresenceInv, ShownInv PROVE PresenceIsCurrent
  OBVIOUS
<1>1. ASSUME NEW n \in Numbers, NEW g \in work[n], g.at = Len(lines[n]), NEW a \in Players \ astray[n]
      PROVE  a \in onWorld[n] <=> a \in Connected(n)
  <2>1. ReadOf(n, g, a)
    BY DEF ShownInv
  <2> QED BY <1>1, <2>1, WorldFacts, ReadIsConnected
<1>2. \A n \in Numbers : work[n] = {} => onWorld[n] \subseteq astray[n]
  BY DEF PresenceInv, WorldInv
<1> QED BY <1>1, <1>2 DEF PresenceIsCurrent

(* As long as a worker starts when the one before it has ended and a stream  *)
(* repeats all of its log, a worker that has read its server's log shows of  *)
(* every player what the log says, whatever streams broke and repeated lines *)
(* before, but for those whose row nothing has written since their server    *)
(* went, a delete took it or a statement on it failed; a stopped world shows *)
(* nobody else; and the roster agrees (consume, Run).                        *)
THEOREM OnlineShownIsOnline == WorkersTakeTurns /\ StreamsRepeatAll => (PresenceSpec => []OnlineIsShown)
<1> SUFFICES ASSUME WorkersTakeTurns, StreamsRepeatAll PROVE PresenceSpec => []OnlineIsShown
  OBVIOUS
<1> DEFINE IInv == PresenceInv /\ RosterInv /\ ShownInv
<1>1. InitPresence => IInv
  BY PresenceInit DEF InitPresence, RosterInv, RosterRight, Online, ShownInv
<1>2. IInv /\ [PresenceNext]_presenceVars => IInv'
  BY PresenceStep, RosterStep, ShownStep
<1>3. IInv => OnlineIsShown
  BY RosterInvImplies, ShownInvImplies DEF OnlineIsShown
<1> QED BY <1>1, <1>2, <1>3, PTL DEF PresenceSpec
-----------------------------------------------------------------------------
(* PlayerLists: the copies of a list, and the enforcement of one.           *)

OneRequestAtATime == Overlapping = {}

Anyone == CHOOSE u \in Names : TRUE
Served == [kind : {"none", "list", "view", "toggle"}, pc : {"idle", "store", "rcon", "probe", "revert", "set"},
           list : Lists, user : Names \cup {Anyone},
           add : BOOLEAN, changed : BOOLEAN, stored : BOOLEAN, was : BOOLEAN]
Toggling(r) == r.kind \in {"view", "toggle"}

ListTypes ==
  /\ doc \in [Lists -> SUBSET Names] /\ live \in [Lists -> SUBSET Names]
  /\ enforced \in BOOLEAN /\ chosen \in BOOLEAN /\ doubtful \in BOOLEAN
  /\ whole \subseteq Lists \X Names /\ audited \subseteq Lists \X Names
  /\ serving \in [Clients -> Served]
  /\ spent \in 0 .. MaxListRequests

AdminTypes ==
  /\ admins \in [commits : Seq(SUBSET Names), synced : Nat, loaded : SUBSET Names]
  /\ admins.synced \in 1 .. Len(admins.commits)
  /\ waiting \subseteq Names \X BOOLEAN

\* What a request for one of the two lists has done so far: when its Patch
\* went through, the document says what it asked for.
EditOK(r, d) ==
  /\ r.kind = "none" <=> r.pc = "idle"
  /\ r.kind = "list" <=> r.pc \in {"store", "rcon"}
  /\ r.kind = "list" => r.user \in Names
  /\ r.changed => r.stored
  /\ r.pc = "store" => ~r.stored
  /\ r.pc = "rcon" /\ r.stored => (r.user \in d[r.list] <=> r.add)

\* What a look at the enforcement has done so far, when nothing it says is
\* doubtful: it is on for a moment, and was off.
LookOK(r, on, was) ==
  /\ r.pc = "probe" => on = was
  /\ r.pc = "revert" => on /\ ~was
  /\ r.pc = "set" => on = was /\ was = r.was

SameEdit(r, s) == r.kind = "list" /\ s.kind = "list" /\ r.list = s.list /\ r.user = s.user
OneEdit == \A p, q \in Clients : SameEdit(serving[p], serving[q]) => p = q
OneLook == \A p, q \in Clients : Toggling(serving[p]) /\ Toggling(serving[q]) => p = q

McInv ==
  /\ ListTypes
  /\ \A p \in Clients : EditOK(serving[p], doc)
  /\ OneEdit /\ HalvesAgree

LookInv ==
  /\ ~doubtful => \A p \in Clients : LookOK(serving[p], enforced, chosen)
  /\ OneLook /\ EnforcementIsChosen

LEMMA NoRequestFacts ==
  /\ NoRequest \in Served /\ NoRequest.kind = "none" /\ NoRequest.pc = "idle"
  /\ \A d : EditOK(NoRequest, d) /\ \A on, was \in BOOLEAN : LookOK(NoRequest, on, was)
BY DEF NoRequest, Served, Anyone, Lists, EditOK, LookOK

(* A new request: one of the four edits of a list, or a look.               *)
EditRequests == {r \in Served : r.kind = "list" /\ r.pc = "store" /\ r.user \in Names /\ ~r.stored /\ ~r.changed}
LookRequests == {r \in Served : Toggling(r) /\ r.pc = "probe" /\ ~r.stored /\ ~r.changed}

LEMMA EditFacts ==
  ASSUME OneRequestAtATime, NEW p \in Clients, NEW u \in Names,
         GrantOp(p, u) \/ RevokeOp(p, u) \/ AddWhitelist(p, u) \/ RemoveWhitelist(p, u)
  PROVE  \E r \in EditRequests :
           /\ Asked(p, r)
           /\ \A q \in Clients : ~(serving[q].kind = "list" /\ serving[q].list = r.list /\ serving[q].user = r.user)
<1>1. PICK k \in Lists, add \in BOOLEAN : Edit(p, k, u, add)
  BY DEF GrantOp, RevokeOp, AddWhitelist, RemoveWhitelist, Lists
<1> PICK r : r = [NoRequest EXCEPT !.kind = "list", !.pc = "store", !.list = k, !.user = u, !.add = add]
  OBVIOUS
<1>2. r \in EditRequests /\ r.list = k /\ r.user = u
  BY DEF NoRequest, EditRequests, Served, Anyone
<1>3. Asked(p, r)
  BY <1>1 DEF Edit
<1>4. \A q \in Clients : ~(serving[q].kind = "list" /\ serving[q].list = k /\ serving[q].user = u)
  BY <1>1 DEF Edit, UnderWay, OneRequestAtATime
<1>5. \A q \in Clients : ~(serving[q].kind = "list" /\ serving[q].list = r.list /\ serving[q].user = r.user)
  BY <1>2, <1>4
<1> QED BY <1>2, <1>3, <1>5, Zenon

LEMMA LookFacts ==
  ASSUME OneRequestAtATime, NEW p \in Clients, ViewAccess(p) \/ ToggleWhitelist(p)
  PROVE  \E r \in LookRequests : Asked(p, r) /\ \A q \in Clients : ~Toggling(serving[q])
<1>1. PICK k \in {"view", "toggle"} : Asked(p, [NoRequest EXCEPT !.kind = k, !.pc = "probe"])
  BY DEF ViewAccess, ToggleWhitelist
<1> PICK r : r = [NoRequest EXCEPT !.kind = k, !.pc = "probe"]
  OBVIOUS
<1>2. r \in LookRequests
  BY DEF NoRequest, LookRequests, Served, Anyone, Toggling, Lists
<1>3. \A q \in Clients : ~Toggling(serving[q])
  BY DEF ViewAccess, ToggleWhitelist, UnderWay, OneRequestAtATime, Toggling
<1> QED BY <1>1, <1>2, <1>3

LEMMA McStarts == InitLists => McInv /\ LookInv
<1> SUFFICES ASSUME InitLists PROVE McInv /\ LookInv
  OBVIOUS
<1>1. \A p \in Clients : serving[p] = NoRequest
  BY DEF InitLists
<1>2. enforced = FALSE /\ chosen = FALSE /\ doubtful = FALSE /\ whole = {} /\ audited = Lists \X Names
  BY DEF InitLists
<1>3. ListTypes
  <2>1. doc \in [Lists -> SUBSET Names] /\ live \in [Lists -> SUBSET Names]
    BY DEF InitLists
  <2>2. serving \in [Clients -> Served]
    BY NoRequestFacts DEF InitLists
  <2>3. spent \in 0 .. MaxListRequests
    BY ListsAssumption DEF InitLists
  <2> QED BY <1>2, <2>1, <2>2, <2>3 DEF ListTypes
<1>4. \A p \in Clients : EditOK(serving[p], doc) /\ LookOK(serving[p], enforced, chosen)
  BY <1>1, <1>2, NoRequestFacts
<1>5. OneEdit /\ OneLook
  BY <1>1, NoRequestFacts DEF OneEdit, SameEdit, OneLook, Toggling
<1>6. HalvesAgree /\ EnforcementIsChosen
  BY <1>2 DEF HalvesAgree, EnforcementIsChosen
<1> QED BY <1>3, <1>4, <1>5, <1>6 DEF McInv, LookInv

(* The Patch: it fails, or the document says afterwards what was asked.     *)
LEMMA PatchFacts ==
  ASSUME McInv, NEW p \in Clients, PatchList(p)
  PROVE  LET r == serving[p] IN
         /\ r.pc = "store" /\ r.kind = "list" /\ r.list \in Lists /\ r.user \in Names
         /\ UNCHANGED <<live, whole, enforced, chosen, doubtful, valheim, spent>>
         /\ audited' \subseteq Lists \X Names
         /\ \E s \in Served :
              /\ serving' = [serving EXCEPT ![p] = s]
              /\ s.kind = "list" /\ s.list = r.list /\ s.user = r.user /\ s.pc = "rcon" /\ (s.changed => s.stored)
              /\ \/ ~s.stored /\ doc' = doc
                 \/ /\ s.stored
                    /\ doc' = [doc EXCEPT ![r.list] = With(doc[r.list], r.user, s.add)]
<1> PICK r : r = serving[p]
  OBVIOUS
<1>1. /\ r \in Served /\ r.kind = "list" /\ r.list \in Lists /\ r.user \in Names /\ r.pc = "store"
      /\ (r.changed => r.stored) /\ ~r.stored
  BY DEF McInv, ListTypes, EditOK, PatchList, Served
<1>2. UNCHANGED <<live, whole, enforced, chosen, doubtful, valheim, spent>> /\ audited' \subseteq Lists \X Names
  BY DEF PatchList, McInv, ListTypes
<1>3. serving \in [Clients -> Served]
  BY DEF McInv, ListTypes
<1>4. CASE /\ doc' = [doc EXCEPT ![r.list] = With(@, r.user, r.add)]
           /\ serving' = [serving EXCEPT ![p].pc = "rcon", ![p].stored = TRUE, ![p].changed = doc' # doc]
  <2> PICK b \in BOOLEAN : b = (doc' # doc)
    OBVIOUS
  <2> PICK s : s = [r EXCEPT !.pc = "rcon", !.stored = TRUE, !.changed = b]
    OBVIOUS
  <2>1. /\ s \in Served /\ s.kind = "list" /\ s.list = r.list /\ s.user = r.user /\ s.pc = "rcon"
        /\ s.stored = TRUE /\ s.add = r.add
    BY <1>1 DEF Served
  <2>2. serving' = [serving EXCEPT ![p] = s]
    BY <1>3, <1>4 DEF Served
  <2>3. doc' = [doc EXCEPT ![r.list] = With(doc[r.list], r.user, s.add)]
    BY <1>4, <2>1
  <2> QED BY <1>1, <1>2, <2>1, <2>2, <2>3
<1>5. CASE serving' = [serving EXCEPT ![p].pc = "rcon"] /\ doc' = doc
  <2> PICK s : s = [r EXCEPT !.pc = "rcon"]
    OBVIOUS
  <2>1. /\ s \in Served /\ s.kind = "list" /\ s.list = r.list /\ s.user = r.user /\ s.pc = "rcon"
        /\ s.stored = r.stored /\ s.changed = r.changed
    BY <1>1 DEF Served
  <2>2. serving' = [serving EXCEPT ![p] = s]
    BY <1>3, <1>5 DEF Served
  <2> QED BY <1>1, <1>2, <1>5, <2>1, <2>2
<1> QED BY <1>4, <1>5 DEF PatchList

(* The command: it fails, run or not, or the server's list says what was    *)
(* asked.                                                                   *)
LEMMA ExecuteFacts ==
  ASSUME McInv, NEW p \in Clients, ExecuteLive(p)
  PROVE  LET r == serving[p] IN
         /\ r.pc = "rcon" /\ r.kind = "list" /\ r.list \in Lists /\ r.user \in Names
         /\ UNCHANGED <<doc, enforced, chosen, doubtful, valheim, spent>>
         /\ audited' \subseteq Lists \X Names
         /\ serving' = [serving EXCEPT ![p] = NoRequest]
         /\ \/ /\ live' = live \/ live' = [live EXCEPT ![r.list] = With(live[r.list], r.user, r.add)]
               /\ whole' = whole \ {<<r.list, r.user>>}
            \/ /\ live' = [live EXCEPT ![r.list] = With(live[r.list], r.user, r.add)]
               /\ whole' = IF r.stored THEN whole \cup {<<r.list, r.user>>} ELSE whole \ {<<r.list, r.user>>}
<1>1. /\ serving[p].pc = "rcon" /\ serving[p].kind = "list" /\ serving[p].list \in Lists /\ serving[p].user \in Names
  BY DEF McInv, ListTypes, EditOK, ExecuteLive, Served
<1>2. audited' \subseteq Lists \X Names
  BY <1>1 DEF ExecuteLive, Answer, McInv, ListTypes
<1> QED BY <1>1, <1>2 DEF ExecuteLive, Answer

(* A look at the enforcement touches no list.  When nothing is doubtful it   *)
(* leaves the enforcement as it was, or on for as long as it says that it   *)
(* has to be switched off again; and only a toggle ends a doubt.            *)
LEMMA LookSteps ==
  ASSUME McInv, LookInv,
         NEW p \in Clients, Probe(p) \/ Revert(p) \/ SetWhitelistEnforced(p)
  PROVE  /\ UNCHANGED <<doc, live, whole, audited, valheim, spent>>
         /\ Toggling(serving[p])
         /\ enforced' \in BOOLEAN /\ chosen' \in BOOLEAN /\ doubtful' \in BOOLEAN
         /\ \E s \in Served :
              /\ serving' = [serving EXCEPT ![p] = s]
              /\ \/ s = NoRequest /\ (~doubtful' => enforced' = chosen')
                 \/ /\ s.kind = serving[p].kind /\ s.pc \in {"revert", "set"} /\ (s.changed => s.stored)
                    /\ (~doubtful' => LookOK(s, enforced', chosen'))
<1> PICK r : r = serving[p]
  OBVIOUS
<1>1. /\ r \in Served /\ EditOK(r, doc) /\ r.pc \in {"probe", "revert", "set"}
      /\ (~doubtful => LookOK(r, enforced, chosen))
      /\ enforced \in BOOLEAN /\ chosen \in BOOLEAN /\ doubtful \in BOOLEAN /\ serving \in [Clients -> Served]
  BY DEF McInv, LookInv, ListTypes, Probe, Revert, SetWhitelistEnforced
<1>2. Toggling(r) /\ (r.changed => r.stored)
  BY <1>1 DEF EditOK, Served, Toggling
<1>3. UNCHANGED <<doc, live, whole, audited, valheim, spent>>
  BY DEF Probe, Revert, SetWhitelistEnforced
<1>4. ASSUME NEW b \in BOOLEAN, Known(p, b)
      PROVE  \E s \in Served : /\ serving' = [serving EXCEPT ![p] = s]
                               /\ \/ s = NoRequest
                                  \/ s.kind = r.kind /\ s.pc = "set" /\ s.was = b /\ (s.changed => s.stored)
  <2>1. CASE r.kind = "view"
    <3>1. serving' = [serving EXCEPT ![p] = NoRequest]
      BY <1>4, <2>1 DEF Known
    <3> QED BY <3>1, NoRequestFacts
  <2>2. CASE r.kind # "view"
    <3> PICK s : s = [r EXCEPT !.pc = "set", !.was = b]
      OBVIOUS
    <3>1. serving' = [serving EXCEPT ![p] = s]
      BY <1>4, <2>2 DEF Known
    <3>2. s \in Served /\ s.kind = r.kind /\ s.pc = "set" /\ s.was = b /\ (s.changed => s.stored)
      BY <1>1, <1>2 DEF Served
    <3> QED BY <3>1, <3>2
  <2> QED BY <2>1, <2>2
<1>5. CASE Probe(p)
  <2>1. r.pc = "probe" /\ chosen' = chosen /\ (~doubtful => enforced = chosen)
    BY <1>1, <1>5 DEF Probe, LookOK
  <2>2. CASE enforced /\ Known(p, TRUE) /\ UNCHANGED <<enforced, doubtful>>
    <3>1. PICK s \in Served : /\ serving' = [serving EXCEPT ![p] = s]
                              /\ \/ s = NoRequest
                                 \/ s.kind = r.kind /\ s.pc = "set" /\ s.was = TRUE /\ (s.changed => s.stored)
      BY <1>4, <2>2
    <3>2. ~doubtful' /\ s # NoRequest => LookOK(s, enforced', chosen')
      BY <1>1, <2>1, <2>2, <3>1 DEF LookOK
    <3> QED BY <1>1, <1>2, <1>3, <2>1, <2>2, <3>1, <3>2
  <2>3. CASE ~enforced /\ enforced' = TRUE /\ serving' = [serving EXCEPT ![p].pc = "revert"] /\ UNCHANGED doubtful
    <3> PICK s : s = [r EXCEPT !.pc = "revert"]
      OBVIOUS
    <3>1. serving' = [serving EXCEPT ![p] = s]
      BY <1>1, <2>3 DEF Served
    <3>2. s \in Served /\ s.kind = r.kind /\ s.pc = "revert" /\ (s.changed => s.stored)
      BY <1>1, <1>2 DEF Served
    <3>3. ~doubtful' => LookOK(s, enforced', chosen')
      BY <1>1, <2>1, <2>3, <3>2 DEF LookOK
    <3> QED BY <1>1, <1>2, <1>3, <2>1, <2>3, <3>1, <3>2, <3>3
  <2>4. CASE /\ serving' = [serving EXCEPT ![p] = NoRequest]
             /\ \/ UNCHANGED <<enforced, doubtful>>
                \/ enforced' = TRUE /\ doubtful' = (doubtful \/ ~enforced)
    <3>1. enforced' \in BOOLEAN /\ doubtful' \in BOOLEAN /\ (~doubtful' => enforced' = chosen')
      BY <1>1, <2>1, <2>4
    <3> QED BY <1>1, <1>2, <1>3, <2>1, <2>4, <3>1, NoRequestFacts
  <2> QED BY <1>5, <2>2, <2>3, <2>4 DEF Probe, Unanswered
<1>6. CASE Revert(p)
  <2>0. /\ r.pc = "revert" /\ chosen' = chosen /\ Known(p, FALSE)
        /\ \/ enforced' = FALSE /\ doubtful' = doubtful
           \/ doubtful' = TRUE /\ enforced' = enforced
    BY <1>6 DEF Revert
  <2>4. ~doubtful => ~chosen
    BY <1>1, <2>0 DEF LookOK
  <2>5. /\ enforced' \in BOOLEAN /\ doubtful' \in BOOLEAN
        /\ ~doubtful' => enforced' = FALSE /\ ~chosen
    <3>1. CASE enforced' = FALSE /\ doubtful' = doubtful
      BY <1>1, <2>4, <3>1
    <3>2. CASE doubtful' = TRUE /\ enforced' = enforced
      BY <1>1, <3>2
    <3> QED BY <2>0, <3>1, <3>2
  <2>1. /\ chosen' = chosen /\ Known(p, FALSE) /\ enforced' \in BOOLEAN /\ doubtful' \in BOOLEAN
        /\ ~doubtful' => enforced' = FALSE /\ ~chosen
    BY <2>0, <2>5
  <2>2. PICK s \in Served : /\ serving' = [serving EXCEPT ![p] = s]
                            /\ \/ s = NoRequest
                               \/ s.kind = r.kind /\ s.pc = "set" /\ s.was = FALSE /\ (s.changed => s.stored)
    BY <1>4, <2>1
  <2>3. ~doubtful' => enforced' = chosen' /\ (s # NoRequest => LookOK(s, enforced', chosen'))
    BY <1>1, <2>1, <2>2 DEF LookOK
  <2> QED BY <1>1, <1>2, <1>3, <2>1, <2>2, <2>3
<1>7. CASE SetWhitelistEnforced(p)
  <2>1. /\ serving' = [serving EXCEPT ![p] = NoRequest]
        /\ enforced' \in BOOLEAN /\ chosen' \in BOOLEAN /\ doubtful' \in BOOLEAN
        /\ ~doubtful' => enforced' = chosen'
    BY <1>1, <1>7 DEF SetWhitelistEnforced, Unanswered, LookOK, Served
  <2> QED BY <1>1, <1>2, <1>3, <2>1, NoRequestFacts
<1> QED BY <1>5, <1>6, <1>7

-----------------------------------------------------------------------------
(* A request of p gives way to s; which other edits there are stays.        *)
LEMMA OneEditKept ==
  ASSUME McInv, NEW p \in Clients, NEW s \in Served, serving' = [serving EXCEPT ![p] = s],
         \/ s.kind # "list"
         \/ serving[p].kind = "list" /\ s.list = serving[p].list /\ s.user = serving[p].user
         \/ \A q \in Clients : ~(serving[q].kind = "list" /\ serving[q].list = s.list /\ serving[q].user = s.user)
  PROVE  OneEdit'
<1>1. serving \in [Clients -> Served] /\ OneEdit
  BY DEF McInv, ListTypes
<1> SUFFICES ASSUME NEW q \in Clients, NEW w \in Clients,
                    SameEdit(serving'[q], serving'[w])
             PROVE  q = w
  BY DEF OneEdit, SameEdit
<1>2. CASE q # p /\ w # p
  BY <1>1, <1>2 DEF OneEdit, SameEdit
<1>3. CASE q = p /\ w # p
  BY <1>1, <1>3 DEF OneEdit, SameEdit
<1>4. CASE q # p /\ w = p
  BY <1>1, <1>4 DEF OneEdit, SameEdit
<1> QED BY <1>2, <1>3, <1>4

LEMMA OneLookKept ==
  ASSUME McInv, LookInv, NEW p \in Clients, NEW s \in Served, serving' = [serving EXCEPT ![p] = s],
         \/ ~Toggling(s) \/ Toggling(serving[p]) \/ \A q \in Clients : ~Toggling(serving[q])
  PROVE  OneLook'
BY DEF McInv, LookInv, ListTypes, OneLook

(* A request of p that touches neither copy of a list gives way to s.       *)
LEMMA EditsElsewhere ==
  ASSUME McInv, NEW p \in Clients, NEW s \in Served, serving' = [serving EXCEPT ![p] = s],
         UNCHANGED <<doc, live, whole, audited>>, enforced' \in BOOLEAN, chosen' \in BOOLEAN, doubtful' \in BOOLEAN,
         spent' \in 0 .. MaxListRequests,
         EditOK(s, doc), serving[p].kind # "list",
         s.kind # "list" \/ \A q \in Clients : ~(serving[q].kind = "list" /\ serving[q].list = s.list /\ serving[q].user = s.user)
  PROVE  McInv'
<1>1. ListTypes' /\ serving \in [Clients -> Served]
  BY DEF McInv, ListTypes
<1>2. \A q \in Clients : EditOK(serving'[q], doc)
  BY <1>1 DEF McInv
<1>3. OneEdit'
  BY OneEditKept
<1>4. HalvesAgree'
  <2> SUFFICES ASSUME NEW x \in whole,
                      \A q \in Clients : ~(serving'[q].kind = "list" /\ <<serving'[q].list, serving'[q].user>> = x)
               PROVE  x[2] \in doc[x[1]] <=> x[2] \in live[x[1]]
    BY DEF HalvesAgree
  <2>1. \A q \in Clients : ~(serving[q].kind = "list" /\ <<serving[q].list, serving[q].user>> = x)
    BY <1>1
  <2> QED BY <2>1 DEF McInv, HalvesAgree
<1> QED BY <1>1, <1>2, <1>3, <1>4 DEF McInv

LEMMA PatchKeeps == ASSUME McInv, NEW p \in Clients, PatchList(p) PROVE McInv'
<1> PICK r : r = serving[p]
  OBVIOUS
<1>1. /\ r.pc = "store" /\ r.kind = "list" /\ r.list \in Lists /\ r.user \in Names
      /\ UNCHANGED <<live, whole, enforced, chosen, doubtful, valheim, spent>> /\ audited' \subseteq Lists \X Names
  BY PatchFacts
<1> PICK s \in Served :
       /\ serving' = [serving EXCEPT ![p] = s]
       /\ s.kind = "list" /\ s.list = r.list /\ s.user = r.user /\ s.pc = "rcon" /\ (s.changed => s.stored)
       /\ \/ ~s.stored /\ doc' = doc
          \/ s.stored /\ doc' = [doc EXCEPT ![r.list] = With(doc[r.list], r.user, s.add)]
  BY PatchFacts
<1>2. serving \in [Clients -> Served] /\ doc \in [Lists -> SUBSET Names] /\ OneEdit
  BY DEF McInv, ListTypes
<1>3. \A k \in Lists, u \in Names : <<k, u>> # <<r.list, r.user>> => (u \in doc'[k] <=> u \in doc[k])
  BY <1>1, <1>2 DEF With
<1>4. doc' \in [Lists -> SUBSET Names]
  BY <1>1, <1>2 DEF With
<1>5. ListTypes'
  BY <1>1, <1>2, <1>4 DEF McInv, ListTypes
<1>6. EditOK(s, doc')
  <2>1. s.stored => (s.user \in doc'[s.list] <=> s.add)
    BY <1>1, <1>2 DEF With
  <2> QED BY <1>1, <2>1 DEF EditOK
<1>7. \A q \in Clients : EditOK(serving'[q], doc')
  <2> SUFFICES ASSUME NEW q \in Clients, q # p PROVE EditOK(serving[q], doc')
    BY <1>2, <1>6
  <2>1. EditOK(serving[q], doc) /\ serving[q] \in Served
    BY <1>2 DEF McInv
  <2>2. CASE serving[q].kind = "list"
    <3>1. serving[q].list \in Lists /\ serving[q].user \in Names
      BY <2>1, <2>2 DEF EditOK, Served
    <3>2. ~(serving[q].list = r.list /\ serving[q].user = r.user)
      BY <1>1, <1>2, <2>2 DEF OneEdit, SameEdit
    <3>3. serving[q].user \in doc'[serving[q].list] <=> serving[q].user \in doc[serving[q].list]
      BY <1>3, <3>1, <3>2
    <3> QED BY <2>1, <3>3 DEF EditOK
  <2>3. CASE serving[q].kind # "list"
    BY <2>1, <2>3 DEF EditOK
  <2> QED BY <2>2, <2>3
<1>8. OneEdit'
  BY <1>1, OneEditKept
<1>9. HalvesAgree'
  <2> SUFFICES ASSUME NEW x \in whole,
                      \A q \in Clients : ~(serving'[q].kind = "list" /\ <<serving'[q].list, serving'[q].user>> = x)
               PROVE  x[2] \in doc'[x[1]] <=> x[2] \in live[x[1]]
    BY <1>1 DEF HalvesAgree
  <2>1. x # <<r.list, r.user>>
    BY <1>2
  <2>2. \A q \in Clients : ~(serving[q].kind = "list" /\ <<serving[q].list, serving[q].user>> = x)
    BY <1>2, <2>1
  <2>3. PICK k \in Lists, u \in Names : x = <<k, u>>
    BY DEF McInv, ListTypes
  <2>4. u \in doc[k] <=> u \in live[k]
    BY <2>2, <2>3 DEF McInv, HalvesAgree
  <2> QED BY <1>3, <2>1, <2>3, <2>4
<1> QED BY <1>5, <1>7, <1>8, <1>9 DEF McInv

LEMMA ExecuteKeeps == ASSUME McInv, NEW p \in Clients, ExecuteLive(p) PROVE McInv'
<1> PICK r : r = serving[p]
  OBVIOUS
<1>1. /\ r.pc = "rcon" /\ r.kind = "list" /\ r.list \in Lists /\ r.user \in Names
      /\ UNCHANGED <<doc, enforced, chosen, doubtful, valheim, spent>> /\ audited' \subseteq Lists \X Names
      /\ serving' = [serving EXCEPT ![p] = NoRequest]
  BY ExecuteFacts
<1>2. \/ /\ live' = live \/ live' = [live EXCEPT ![r.list] = With(live[r.list], r.user, r.add)]
         /\ whole' = whole \ {<<r.list, r.user>>}
      \/ /\ live' = [live EXCEPT ![r.list] = With(live[r.list], r.user, r.add)]
         /\ whole' = IF r.stored THEN whole \cup {<<r.list, r.user>>} ELSE whole \ {<<r.list, r.user>>}
  BY ExecuteFacts
<1>3. /\ serving \in [Clients -> Served] /\ live \in [Lists -> SUBSET Names] /\ whole \subseteq Lists \X Names
      /\ EditOK(r, doc)
  BY DEF McInv, ListTypes
<1>4. live' \in [Lists -> SUBSET Names] /\ whole' \subseteq Lists \X Names
  BY <1>1, <1>2, <1>3 DEF With
<1>5. ListTypes'
  BY <1>1, <1>3, <1>4, NoRequestFacts DEF McInv, ListTypes
<1>6. \A q \in Clients : EditOK(serving'[q], doc)
  BY <1>1, <1>3, NoRequestFacts DEF McInv
<1>7. OneEdit'
  BY <1>1, NoRequestFacts, OneEditKept
<1>8. HalvesAgree'
  <2> SUFFICES ASSUME NEW k \in Lists, NEW u \in Names, <<k, u>> \in whole',
                      \A q \in Clients : ~(serving'[q].kind = "list" /\ <<serving'[q].list, serving'[q].user>> = <<k, u>>)
               PROVE  u \in doc[k] <=> u \in live'[k]
    BY <1>1, <1>4 DEF HalvesAgree
  <2>1. CASE k = r.list /\ u = r.user
    <3>1. /\ r.stored
          /\ live' = [live EXCEPT ![r.list] = With(live[r.list], r.user, r.add)]
      BY <1>2, <2>1
    <3>2. u \in doc[k] <=> r.add
      BY <1>1, <1>3, <2>1, <3>1 DEF EditOK
    <3>3. u \in live'[k] <=> r.add
      BY <1>1, <1>3, <2>1, <3>1 DEF With
    <3> QED BY <3>2, <3>3
  <2>2. CASE ~(k = r.list /\ u = r.user)
    <3>1. <<k, u>> \in whole
      BY <1>2, <2>2
    <3>2. \A q \in Clients : ~(serving[q].kind = "list" /\ <<serving[q].list, serving[q].user>> = <<k, u>>)
      BY <1>1, <1>3, <2>2
    <3>3. u \in doc[k] <=> u \in live[k]
      BY <3>1, <3>2 DEF McInv, HalvesAgree
    <3>4. u \in live'[k] <=> u \in live[k]
      BY <1>1, <1>2, <1>3, <2>2 DEF With
    <3> QED BY <3>3, <3>4
  <2> QED BY <2>1, <2>2
<1> QED BY <1>1, <1>5, <1>6, <1>7, <1>8 DEF McInv

LEMMA GameKeeps == ASSUME McInv, NEW k \in Lists, NEW u \in Names, TypedInGame(k, u) PROVE McInv'
<1>1. /\ live' = [live EXCEPT ![k] = With(live[k], u, u \notin live[k])] /\ whole' = whole \ {<<k, u>>}
      /\ UNCHANGED <<doc, audited, enforced, chosen, doubtful, serving>>
  BY DEF TypedInGame
<1>2. live \in [Lists -> SUBSET Names] /\ whole \subseteq Lists \X Names
  BY DEF McInv, ListTypes
<1>3. spent' \in 0 .. MaxListRequests
  BY ListsAssumption DEF TypedInGame, McInv, ListTypes
<1>4. live' \in [Lists -> SUBSET Names]
  BY <1>1, <1>2 DEF With
<1>5. ListTypes'
  BY <1>1, <1>2, <1>3, <1>4 DEF McInv, ListTypes
<1>6. HalvesAgree'
  <2> SUFFICES ASSUME NEW j \in Lists, NEW v \in Names, <<j, v>> \in whole',
                      \A q \in Clients : ~(serving[q].kind = "list" /\ <<serving[q].list, serving[q].user>> = <<j, v>>)
               PROVE  v \in doc[j] <=> v \in live'[j]
    BY <1>1, <1>2 DEF HalvesAgree
  <2>1. v \in doc[j] <=> v \in live[j]
    BY <1>1 DEF McInv, HalvesAgree
  <2>2. v \in live'[j] <=> v \in live[j]
    BY <1>1, <1>2 DEF With
  <2> QED BY <2>1, <2>2
<1> QED BY <1>1, <1>5, <1>6 DEF McInv, OneEdit

(* What a new request is, and what it does to the invariants.               *)
LEMMA AskedKeeps ==
  ASSUME McInv, LookInv, NEW p \in Clients, NEW r \in Served, Asked(p, r), EditOK(r, doc),
         ~doubtful => LookOK(r, enforced, chosen),
         r.kind # "list" \/ \A q \in Clients : ~(serving[q].kind = "list" /\ serving[q].list = r.list /\ serving[q].user = r.user),
         ~Toggling(r) \/ \A q \in Clients : ~Toggling(serving[q])
  PROVE  McInv' /\ LookInv'
<1>1. /\ serving[p].pc = "idle" /\ serving' = [serving EXCEPT ![p] = r]
      /\ UNCHANGED <<doc, live, whole, audited, enforced, chosen, doubtful, valheim>>
      /\ spent' \in 0 .. MaxListRequests
  BY ListsAssumption DEF Asked, McInv, ListTypes
<1>2. serving \in [Clients -> Served] /\ serving[p].kind = "none" /\ enforced \in BOOLEAN /\ chosen \in BOOLEAN /\ doubtful \in BOOLEAN
  BY <1>1 DEF McInv, ListTypes, EditOK
<1>3. McInv'
  BY <1>1, <1>2, EditsElsewhere
<1>4. OneLook'
  BY <1>1, OneLookKept
<1>5. EnforcementIsChosen'
  <2> SUFFICES ASSUME ~doubtful, \A q \in Clients : serving'[q].kind \notin {"view", "toggle"} PROVE enforced = chosen
    BY <1>1 DEF EnforcementIsChosen
  <2>1. \A q \in Clients : serving[q].kind \notin {"view", "toggle"}
    BY <1>1, <1>2
  <2> QED BY <2>1 DEF LookInv, EnforcementIsChosen
<1>6. ~doubtful => \A q \in Clients : LookOK(serving'[q], enforced, chosen)
  BY <1>1, <1>2 DEF LookInv
<1> QED BY <1>1, <1>3, <1>4, <1>5, <1>6 DEF LookInv

LEMMA LookKeeps ==
  ASSUME McInv, LookInv,
         NEW p \in Clients, Probe(p) \/ Revert(p) \/ SetWhitelistEnforced(p)
  PROVE  McInv' /\ LookInv'
<1>1. /\ UNCHANGED <<doc, live, whole, audited, valheim, spent>>
      /\ Toggling(serving[p])
      /\ enforced' \in BOOLEAN /\ chosen' \in BOOLEAN /\ doubtful' \in BOOLEAN
  BY LookSteps
<1> PICK s \in Served :
      /\ serving' = [serving EXCEPT ![p] = s]
      /\ \/ s = NoRequest /\ (~doubtful' => enforced' = chosen')
         \/ /\ s.kind = serving[p].kind /\ s.pc \in {"revert", "set"} /\ (s.changed => s.stored)
            /\ (~doubtful' => LookOK(s, enforced', chosen'))
  BY LookSteps
<1>2. /\ serving \in [Clients -> Served] /\ OneLook /\ spent \in 0 .. MaxListRequests
      /\ \A q \in Clients : EditOK(serving[q], doc)
  BY DEF McInv, ListTypes, LookInv
<1>3. EditOK(s, doc) /\ s.kind # "list" /\ (~doubtful' => LookOK(s, enforced', chosen'))
  BY <1>1, NoRequestFacts DEF EditOK, Toggling
<1>4. McInv'
  BY <1>1, <1>2, <1>3, EditsElsewhere DEF Toggling
<1>5. OneLook'
  BY <1>1, OneLookKept
<1>6. \A q \in Clients : q # p => ~Toggling(serving[q])
  BY <1>1, <1>2 DEF OneLook
<1>7. ~doubtful' => \A q \in Clients : LookOK(serving'[q], enforced', chosen')
  <2> SUFFICES ASSUME NEW q \in Clients, q # p PROVE LookOK(serving[q], enforced', chosen')
    BY <1>2, <1>3
  <2>1. EditOK(serving[q], doc) /\ serving[q] \in Served /\ ~Toggling(serving[q])
    BY <1>2, <1>6
  <2>2. serving[q].pc \in {"idle", "store", "rcon"}
    BY <2>1 DEF EditOK, Toggling, Served
  <2> QED BY <2>2 DEF LookOK
<1>8. EnforcementIsChosen'
  <2> SUFFICES ASSUME ~doubtful', \A q \in Clients : serving'[q].kind \notin {"view", "toggle"} PROVE enforced' = chosen'
    BY DEF EnforcementIsChosen
  <2>1. s.kind \notin {"view", "toggle"}
    BY <1>2
  <2> QED BY <1>1, <2>1 DEF Toggling
<1> QED BY <1>4, <1>5, <1>7, <1>8 DEF LookInv

LEMMA ListStepKeepsLooks ==
  ASSUME McInv, LookInv, NEW p \in Clients, PatchList(p) \/ ExecuteLive(p)
  PROVE  LookInv'
<1>1. /\ UNCHANGED <<enforced, chosen, doubtful>> /\ serving[p].kind = "list" /\ serving[p].pc \in {"store", "rcon"}
      /\ \E s \in Served : /\ serving' = [serving EXCEPT ![p] = s]
                           /\ s.kind \in {"list", "none"} /\ s.pc \in {"rcon", "idle"}
  BY PatchFacts, ExecuteFacts, NoRequestFacts
<1> PICK s \in Served : /\ serving' = [serving EXCEPT ![p] = s]
                        /\ s.kind \in {"list", "none"} /\ s.pc \in {"rcon", "idle"}
  BY <1>1
<1>2. serving \in [Clients -> Served]
  BY DEF McInv, ListTypes
<1>3. OneLook'
  BY OneLookKept DEF Toggling
<1>4. EnforcementIsChosen'
  <2> SUFFICES ASSUME ~doubtful, \A q \in Clients : serving'[q].kind \notin {"view", "toggle"} PROVE enforced = chosen
    BY <1>1 DEF EnforcementIsChosen
  <2>1. \A q \in Clients : serving[q].kind \notin {"view", "toggle"}
    BY <1>1, <1>2
  <2> QED BY <2>1 DEF LookInv, EnforcementIsChosen
<1>5. ~doubtful => \A q \in Clients : LookOK(serving'[q], enforced, chosen)
  BY <1>1, <1>2 DEF LookInv, LookOK
<1> QED BY <1>1, <1>3, <1>4, <1>5 DEF LookInv

LEMMA McKept ==
  ASSUME OneRequestAtATime, McInv, LookInv, MinecraftNext
  PROVE  McInv' /\ LookInv'
<1>1. ASSUME NEW p \in Clients, NEW u \in Names,
             GrantOp(p, u) \/ RevokeOp(p, u) \/ AddWhitelist(p, u) \/ RemoveWhitelist(p, u)
      PROVE  McInv' /\ LookInv'
  <2> PICK r \in EditRequests :
         /\ Asked(p, r)
         /\ \A q \in Clients : ~(serving[q].kind = "list" /\ serving[q].list = r.list /\ serving[q].user = r.user)
    BY <1>1, EditFacts
  <2>1. r \in Served /\ EditOK(r, doc) /\ LookOK(r, enforced, chosen) /\ ~Toggling(r)
    BY DEF EditRequests, EditOK, LookOK, Toggling
  <2> QED BY <2>1, AskedKeeps
<1>2. ASSUME NEW p \in Clients, ViewAccess(p) \/ ToggleWhitelist(p) PROVE McInv' /\ LookInv'
  <2> PICK r \in LookRequests : Asked(p, r) /\ \A q \in Clients : ~Toggling(serving[q])
    BY <1>2, LookFacts
  <2>1. ~doubtful => enforced = chosen
    BY DEF LookInv, EnforcementIsChosen, Toggling
  <2>2. r \in Served /\ EditOK(r, doc) /\ (~doubtful => LookOK(r, enforced, chosen)) /\ r.kind # "list"
    BY <2>1 DEF LookRequests, EditOK, LookOK, Toggling
  <2> QED BY <2>2, AskedKeeps
<1>3. ASSUME NEW k \in Lists, NEW u \in Names, TypedInGame(k, u) PROVE McInv' /\ LookInv'
  <2>1. UNCHANGED <<enforced, chosen, doubtful, serving>>
    BY <1>3 DEF TypedInGame
  <2> QED BY <1>3, <2>1, GameKeeps DEF LookInv, OneLook, EnforcementIsChosen
<1> QED BY <1>1, <1>2, <1>3, PatchKeeps, ExecuteKeeps, ListStepKeepsLooks, LookKeeps DEF MinecraftNext

-----------------------------------------------------------------------------
(* Valheim's admins.                                                        *)

\* The commits from the synchronised one on agree about id, and the server
\* has loaded what they say: nothing about id is under way.
Settled(id, a) ==
  LET latest == a.commits[Len(a.commits)] IN
  /\ id \in a.loaded <=> id \in latest
  /\ \A j \in a.synced .. Len(a.commits) : id \in a.commits[j] <=> id \in latest

\* From some commit on they say what is waited for, and not before.
Turned(id, add, a) ==
  \E c \in 1 .. Len(a.commits) :
    \A j \in a.synced .. Len(a.commits) : id \in a.commits[j] <=> (j >= c <=> add)

OneWaiter == \A id \in Names : ~(<<id, TRUE>> \in waiting /\ <<id, FALSE>> \in waiting)

NobodyWaits(id) == \A b \in BOOLEAN : <<id, b>> \notin waiting

AdminInv ==
  /\ AdminTypes /\ OneWaiter
  /\ \A id \in Names : id \notin excused =>
       /\ NobodyWaits(id) => Settled(id, admins)
       /\ \A b \in BOOLEAN : <<id, b>> \in waiting => Turned(id, b, admins)

AdminStates == [commits : Seq(SUBSET Names), synced : Nat, loaded : SUBSET Names]

LEMMA AdminStarts == InitLists => AdminInv
<1> SUFFICES ASSUME InitLists PROVE AdminInv
  OBVIOUS
<1>1. admins = [commits |-> <<{}>>, synced |-> 1, loaded |-> {}] /\ waiting = {}
  BY DEF InitLists
<1>2. admins.commits = <<{}>> /\ admins.synced = 1 /\ admins.loaded = {} /\ Len(admins.commits) = 1 /\ admins.commits[1] = {}
  BY <1>1
<1>3. <<{}>> \in Seq(SUBSET Names)
  OBVIOUS
<1>4. AdminTypes
  BY <1>1, <1>2, <1>3 DEF AdminTypes
<1>5. \A id \in Names : Settled(id, admins)
  BY <1>2 DEF Settled
<1> QED BY <1>1, <1>4, <1>5 DEF AdminInv, OneWaiter

LEMMA AdminFacts ==
  ASSUME AdminInv
  PROVE  /\ admins.commits \in Seq(SUBSET Names) /\ Len(admins.commits) \in Nat \ {0}
         /\ admins.synced \in 1 .. Len(admins.commits) /\ admins \in AdminStates
         /\ \A j \in 1 .. Len(admins.commits) : admins.commits[j] \subseteq Names
BY DEF AdminInv, AdminTypes, AdminStates

(* ArgoCD skips ahead, or the server loads what is synchronised.            *)
LEMMA SyncKeeps == ASSUME AdminInv, SyncAdmins PROVE AdminInv'
<1> PICK n \in admins.synced + 1 .. Len(admins.commits) : admins' = [admins EXCEPT !.synced = n]
  BY DEF SyncAdmins
<1>1. waiting' = waiting /\ excused' = excused
  BY DEF SyncAdmins
<1>2. n \in 1 .. Len(admins.commits) /\ n > admins.synced /\ n \in Nat
  BY AdminFacts
<1>3. /\ admins'.commits = admins.commits /\ admins'.loaded = admins.loaded /\ admins'.synced = n
      /\ admins' \in AdminStates
  BY AdminFacts, <1>2 DEF AdminStates
<1>4. \A id : Settled(id, admins) => Settled(id, admins')
  BY <1>2, <1>3, AdminFacts DEF Settled
<1>5. \A id, b : Turned(id, b, admins) => Turned(id, b, admins')
  BY <1>2, <1>3, AdminFacts DEF Turned
<1>6. AdminTypes'
  BY <1>1, <1>2, <1>3 DEF AdminInv, AdminTypes, AdminStates
<1> QED BY <1>1, <1>4, <1>5, <1>6 DEF AdminInv, OneWaiter, NobodyWaits

LEMMA LoadedFacts ==
  ASSUME AdminInv, admins' = [admins EXCEPT !.loaded = Synced]
  PROVE  /\ admins' \in AdminStates /\ admins'.commits = admins.commits /\ admins'.synced = admins.synced
         /\ admins'.loaded = admins.commits[admins.synced]
         /\ \A id : Settled(id, admins) => Settled(id, admins')
         /\ \A id, b : Turned(id, b, admins) => Turned(id, b, admins')
<1> PICK l : l = admins.commits[admins.synced]
  OBVIOUS
<1>1. l \subseteq Names /\ admins' = [admins EXCEPT !.loaded = l]
  BY AdminFacts DEF Synced
<1>2. /\ admins' \in AdminStates /\ admins'.commits = admins.commits /\ admins'.synced = admins.synced
      /\ admins'.loaded = l
  BY <1>1, AdminFacts DEF AdminStates
<1> QED BY <1>2, AdminFacts DEF Settled, Turned

LEMMA RestartsKeeps == ASSUME AdminInv, RestartsAnyway PROVE AdminInv'
<1>1. admins' = [admins EXCEPT !.loaded = Synced] /\ waiting' = waiting /\ excused' = excused
  BY DEF RestartsAnyway
<1>2. AdminTypes'
  BY <1>1, LoadedFacts, AdminFacts DEF AdminInv, AdminTypes, AdminStates
<1> QED BY <1>1, <1>2, LoadedFacts DEF AdminInv, OneWaiter, NobodyWaits

(* The goroutine that waits for the change of id finds it landed, and every *)
(* commit from there on has it; or it gives up.                             *)
LEMMA ApplyKeeps == ASSUME AdminInv, NEW w \in waiting, ApplyAfterSync(w) PROVE AdminInv'
<1>1. PICK i \in Names, add \in BOOLEAN : w = <<i, add>>
  BY DEF AdminInv, AdminTypes
<1>2. waiting' = waiting \ {<<i, add>>}
  BY <1>1 DEF ApplyAfterSync
<1>3. \A id \in Names : id # i => \A b \in BOOLEAN : <<id, b>> \in waiting' <=> <<id, b>> \in waiting
  BY <1>1, <1>2
<1>4. OneWaiter'
  BY <1>2 DEF AdminInv, OneWaiter
<1>5. CASE Landed(w) /\ admins' = [admins EXCEPT !.loaded = Synced] /\ UNCHANGED excused
  <2>1. i \in admins.commits[admins.synced] <=> add
    BY <1>1, <1>5 DEF Landed, Synced
  <2>2. i \notin excused => Settled(i, admins')
    <3> SUFFICES ASSUME i \notin excused PROVE Settled(i, admins')
      OBVIOUS
    <3>1. Turned(i, add, admins)
      BY <1>1 DEF AdminInv
    <3> PICK c \in 1 .. Len(admins.commits) :
           \A j \in admins.synced .. Len(admins.commits) : i \in admins.commits[j] <=> (j >= c <=> add)
      BY <3>1 DEF Turned
    <3>2. admins.synced >= c
      BY <2>1, AdminFacts
    <3>3. \A j \in admins.synced .. Len(admins.commits) : i \in admins.commits[j] <=> add
      BY <3>2, AdminFacts
    <3>4. i \in admins.commits[Len(admins.commits)] <=> add
      BY <3>3, AdminFacts
    <3> QED BY <1>5, <2>1, <3>3, <3>4, LoadedFacts DEF Settled
  <2>3. \A b \in BOOLEAN : <<i, b>> \notin waiting'
    BY <1>1, <1>2 DEF AdminInv, OneWaiter
  <2>4. AdminTypes'
    BY <1>2, <1>5, LoadedFacts, AdminFacts DEF AdminInv, AdminTypes, AdminStates
  <2>5. \A id \in Names : id \notin excused' =>
          /\ NobodyWaits(id)' => Settled(id, admins')
          /\ \A b \in BOOLEAN : <<id, b>> \in waiting' => Turned(id, b, admins')
    <3> SUFFICES ASSUME NEW id \in Names, id \notin excused, id # i
                 PROVE  /\ NobodyWaits(id)' => Settled(id, admins')
                        /\ \A b \in BOOLEAN : <<id, b>> \in waiting' => Turned(id, b, admins')
      BY <1>5, <2>2, <2>3
    <3>1. NobodyWaits(id)' <=> NobodyWaits(id)
      BY <1>3 DEF NobodyWaits
    <3> QED BY <1>3, <1>5, <3>1, LoadedFacts DEF AdminInv
  <2> QED BY <1>4, <2>4, <2>5 DEF AdminInv
<1>6. CASE excused' = excused \cup {w[1]} /\ UNCHANGED admins
  <2>1. i \in excused' /\ excused \subseteq excused'
    BY <1>1, <1>6
  <2>2. AdminTypes'
    BY <1>2, <1>6 DEF AdminInv, AdminTypes
  <2>3. \A id \in Names : id \notin excused' =>
          /\ NobodyWaits(id)' => Settled(id, admins')
          /\ \A b \in BOOLEAN : <<id, b>> \in waiting' => Turned(id, b, admins')
    BY <1>3, <1>6, <2>1 DEF AdminInv, NobodyWaits
  <2> QED BY <1>4, <2>2, <2>3 DEF AdminInv
<1> QED BY <1>5, <1>6 DEF ApplyAfterSync

(* One more commit says of everybody but id what the last one said, and is  *)
(* the turn that the goroutine of id waits for.                             *)
LEMMA CommitFacts ==
  ASSUME AdminInv, NEW i \in Names, NEW add \in BOOLEAN,
         admins' = [admins EXCEPT !.commits = Append(admins.commits, With(Committed, i, add))],
         With(Committed, i, add) # Committed
  PROVE  /\ admins' \in AdminStates /\ admins'.synced \in 1 .. Len(admins'.commits)
         /\ \A id \in Names : id # i => /\ Settled(id, admins) => Settled(id, admins')
                                        /\ \A b \in BOOLEAN : Turned(id, b, admins) => Turned(id, b, admins')
         /\ Settled(i, admins) => Turned(i, add, admins')
<1> PICK n : n = With(Committed, i, add)
  OBVIOUS
<1> PICK L \in Nat \ {0} : L = Len(admins.commits)
  BY AdminFacts
<1> PICK more : more = Append(admins.commits, n)
  OBVIOUS
<1>1. /\ Committed = admins.commits[L] /\ Committed \subseteq Names /\ n \subseteq Names
      /\ \A id \in Names : id # i => (id \in n <=> id \in Committed)
      /\ i \in n <=> add
      /\ i \in Committed <=> ~add
  <2>1. Committed = admins.commits[L] /\ Committed \subseteq Names
    BY AdminFacts DEF Committed
  <2>2. n \subseteq Names /\ (i \in n <=> add) /\ \A id \in Names : id # i => (id \in n <=> id \in Committed)
    BY <2>1 DEF With
  <2>3. add /\ i \in Committed => n = Committed
    BY DEF With
  <2>4. ~add /\ i \notin Committed => n = Committed
    BY DEF With
  <2> QED BY <2>1, <2>2, <2>3, <2>4
<1>2. /\ more \in Seq(SUBSET Names) /\ Len(more) = L + 1 /\ more[L + 1] = n
      /\ \A j \in 1 .. L : more[j] = admins.commits[j]
  BY <1>1, AdminFacts
<1>3. /\ admins' \in AdminStates /\ admins'.commits = more /\ admins'.synced = admins.synced
      /\ admins'.loaded = admins.loaded
  BY <1>2, AdminFacts DEF AdminStates
<1>4. admins.synced \in 1 .. L
  BY AdminFacts
<1>5. ASSUME NEW id \in Names, id # i, Settled(id, admins) PROVE Settled(id, admins')
  <2>1. id \in n <=> id \in Committed
    BY <1>1, <1>5
  <2>2. /\ id \in admins.loaded <=> id \in n
        /\ \A j \in admins.synced .. L : id \in admins.commits[j] <=> id \in n
    BY <1>1, <1>5, <2>1 DEF Settled
  <2>3. \A j \in admins.synced .. L + 1 : id \in more[j] <=> id \in n
    BY <1>2, <1>4, <2>2
  <2> QED BY <1>2, <1>3, <2>2, <2>3 DEF Settled
<1>6. ASSUME NEW id \in Names, id # i, NEW b \in BOOLEAN, Turned(id, b, admins) PROVE Turned(id, b, admins')
  <2> PICK c \in 1 .. L : \A j \in admins.synced .. L : id \in admins.commits[j] <=> (j >= c <=> b)
    BY <1>6 DEF Turned
  <2>1. id \in n <=> b
    BY <1>1, <1>4, <1>6
  <2>2. \A j \in admins.synced .. L + 1 : id \in more[j] <=> (j >= c <=> b)
    <3> SUFFICES ASSUME NEW j \in admins.synced .. L + 1 PROVE id \in more[j] <=> (j >= c <=> b)
      OBVIOUS
    <3>1. CASE j \in 1 .. L
      BY <1>2, <1>4, <3>1
    <3>2. CASE j = L + 1
      BY <1>2, <2>1, <3>2
    <3> QED BY <1>4, <3>1, <3>2
  <2>3. c \in 1 .. L + 1
    OBVIOUS
  <2> QED BY <1>2, <1>3, <2>2, <2>3 DEF Turned
<1>7. ASSUME Settled(i, admins) PROVE Turned(i, add, admins')
  <2>1. \A j \in admins.synced .. L : i \in admins.commits[j] <=> ~add
    BY <1>1, <1>7 DEF Settled
  <2>2. \A j \in admins.synced .. L + 1 : i \in more[j] <=> (j >= L + 1 <=> add)
    <3> SUFFICES ASSUME NEW j \in admins.synced .. L + 1 PROVE i \in more[j] <=> (j >= L + 1 <=> add)
      OBVIOUS
    <3>1. CASE j \in 1 .. L
      <4>1. more[j] = admins.commits[j] /\ (i \in admins.commits[j] <=> ~add) /\ ~(j >= L + 1)
        BY <1>2, <1>4, <2>1, <3>1
      <4> QED BY <4>1
    <3>2. CASE j = L + 1
      <4>1. more[j] = n /\ j >= L + 1
        BY <1>2, <3>2
      <4> QED BY <1>1, <4>1
    <3> QED BY <1>4, <3>1, <3>2
  <2>3. L + 1 \in 1 .. L + 1
    OBVIOUS
  <2> QED BY <1>2, <1>3, <2>2, <2>3 DEF Turned
<1>8. admins'.synced \in 1 .. Len(admins'.commits)
  BY <1>2, <1>3, <1>4
<1> QED BY <1>3, <1>5, <1>6, <1>7, <1>8

LEMMA GrantKeeps ==
  ASSUME OneRequestAtATime, AdminInv, NEW i \in Names, NEW add \in BOOLEAN, GrantOrRevoke(i, add)
  PROVE  AdminInv'
<1>1. \A b \in BOOLEAN : <<i, b>> \notin waiting
  BY DEF GrantOrRevoke, OneRequestAtATime
<1>2. CASE UNCHANGED valheim
  BY <1>2 DEF valheim, AdminInv, AdminTypes, OneWaiter, NobodyWaits
<1>3. CASE ~UNCHANGED valheim /\ ~HasCluster
  <2>1. /\ admins' = [admins EXCEPT !.commits = Append(admins.commits, With(Committed, i, add))]
        /\ With(Committed, i, add) # Committed
        /\ waiting' = waiting /\ excused' = excused \cup {i}
    BY <1>3 DEF GrantOrRevoke
  <2>2. AdminTypes'
    <3>1. admins' \in AdminStates /\ admins'.synced \in 1 .. Len(admins'.commits)
      BY <2>1, CommitFacts
    <3> QED BY <2>1, <3>1 DEF AdminInv, AdminTypes, AdminStates
  <2>3. ASSUME NEW id \in Names, id \notin excused'
        PROVE  /\ NobodyWaits(id) => Settled(id, admins')
               /\ \A b \in BOOLEAN : <<id, b>> \in waiting => Turned(id, b, admins')
    <3>1. id # i /\ id \notin excused
      BY <2>1, <2>3
    <3>2. /\ Settled(id, admins) => Settled(id, admins')
          /\ \A b \in BOOLEAN : Turned(id, b, admins) => Turned(id, b, admins')
      BY <2>1, <3>1, CommitFacts
    <3> QED BY <3>1, <3>2 DEF AdminInv
  <2> QED BY <2>1, <2>2, <2>3 DEF AdminInv, OneWaiter, NobodyWaits
<1>4. CASE ~UNCHANGED valheim /\ HasCluster
  <2>1. /\ admins' = [admins EXCEPT !.commits = Append(admins.commits, With(Committed, i, add))]
        /\ With(Committed, i, add) # Committed
        /\ waiting' = waiting \cup {<<i, add>>} /\ excused' = excused
    BY <1>4 DEF GrantOrRevoke
  <2>2. AdminTypes'
    <3>1. admins' \in AdminStates /\ admins'.synced \in 1 .. Len(admins'.commits)
      BY <2>1, CommitFacts
    <3>2. waiting' \subseteq Names \X BOOLEAN
      BY <2>1 DEF AdminInv, AdminTypes
    <3> QED BY <3>1, <3>2 DEF AdminTypes, AdminStates
  <2>3. OneWaiter'
    BY <1>1, <2>1 DEF AdminInv, OneWaiter
  <2>4. i \notin excused => Settled(i, admins)
    BY <1>1 DEF AdminInv, NobodyWaits
  <2>5. \A b \in BOOLEAN : <<i, b>> \in waiting' => b = add
    BY <1>1, <2>1
  <2>6. <<i, add>> \in waiting'
    BY <2>1
  <2>7. \A id \in Names : id # i => \A b \in BOOLEAN : <<id, b>> \in waiting' <=> <<id, b>> \in waiting
    BY <2>1
  <2>8. ASSUME NEW id \in Names, id \notin excused
        PROVE  /\ NobodyWaits(id)' => Settled(id, admins')
               /\ \A b \in BOOLEAN : <<id, b>> \in waiting' => Turned(id, b, admins')
    <3>1. CASE id = i
      <4>1. Turned(i, add, admins')
        BY <2>1, <2>4, <2>8, <3>1, CommitFacts
      <4> QED BY <2>5, <2>6, <3>1, <4>1 DEF NobodyWaits
    <3>2. CASE id # i
      <4>1. NobodyWaits(id)' <=> NobodyWaits(id)
        BY <2>7, <3>2 DEF NobodyWaits
      <4>2. /\ Settled(id, admins) => Settled(id, admins')
            /\ \A b \in BOOLEAN : Turned(id, b, admins) => Turned(id, b, admins')
        BY <2>1, <3>2, CommitFacts
      <4>3. /\ NobodyWaits(id) => Settled(id, admins)
            /\ \A b \in BOOLEAN : <<id, b>> \in waiting => Turned(id, b, admins)
        BY <2>8 DEF AdminInv
      <4> QED BY <2>7, <3>2, <4>1, <4>2, <4>3
    <3> QED BY <3>1, <3>2
  <2> QED BY <2>1, <2>2, <2>3, <2>8 DEF AdminInv
<1> QED BY <1>2, <1>3, <1>4

-----------------------------------------------------------------------------
ListsInv == McInv /\ LookInv /\ AdminInv

(* agrelha's death leaves what the requests had done so far.                *)
LEMMA DeathKeeps == ASSUME ListsInv, AgrelhaDies PROVE ListsInv'
<1>1. /\ McInv /\ LookInv /\ AdminInv /\ ListTypes
      /\ \A p \in Clients : serving[p] \in Served /\ EditOK(serving[p], doc)
  BY DEF ListsInv, McInv, ListTypes
<1>2. /\ UNCHANGED <<doc, live, audited, enforced, chosen, admins, spent>>
      /\ serving' = [p \in Clients |-> NoRequest]
      /\ doubtful' = (doubtful \/ \E p \in Clients : serving[p].pc = "revert")
      /\ waiting' = {} /\ excused' = excused \cup {w[1] : w \in waiting}
  BY DEF AgrelhaDies
<1>3. /\ whole' \subseteq whole
      /\ \A x \in whole' : \A p \in Clients : ~(serving[p].kind = "list" /\ <<serving[p].list, serving[p].user>> = x)
  BY DEF AgrelhaDies
<1>4. \A p \in Clients : serving'[p] = NoRequest
  BY <1>2
<1>5. ListTypes'
  <2>1. serving' \in [Clients -> Served]
    BY <1>2, NoRequestFacts
  <2>2. doubtful' \in BOOLEAN
    BY <1>2
  <2>3. whole' \subseteq Lists \X Names
    BY <1>1, <1>3 DEF ListTypes
  <2> QED BY <1>1, <1>2, <2>1, <2>2, <2>3 DEF ListTypes
<1>6. HalvesAgree'
  <2> SUFFICES ASSUME NEW x \in whole' PROVE x[2] \in doc[x[1]] <=> x[2] \in live[x[1]]
    BY <1>2 DEF HalvesAgree
  <2> QED BY <1>1, <1>3 DEF McInv, HalvesAgree
<1>7. \A p \in Clients : EditOK(serving'[p], doc')
  BY <1>4, NoRequestFacts
<1>8. OneEdit' /\ OneLook'
  BY <1>4, NoRequestFacts DEF OneEdit, SameEdit, OneLook, Toggling
<1>9. ASSUME ~doubtful' PROVE enforced = chosen
  <2>1. ~doubtful /\ \A p \in Clients : serving[p].pc # "revert"
    BY <1>2, <1>9
  <2>2. CASE \E p \in Clients : serving[p].kind \in {"view", "toggle"}
    <3> PICK p \in Clients : serving[p].kind \in {"view", "toggle"}
      BY <2>2
    <3>1. serving[p].pc \in {"probe", "set"} /\ LookOK(serving[p], enforced, chosen)
      BY <1>1, <2>1 DEF LookInv, EditOK, Served
    <3> QED BY <3>1 DEF LookOK
  <2>3. CASE \A p \in Clients : serving[p].kind \notin {"view", "toggle"}
    BY <1>1, <2>1, <2>3 DEF LookInv, EnforcementIsChosen
  <2> QED BY <2>2, <2>3
<1>10. ~doubtful' => \A p \in Clients : LookOK(serving'[p], enforced', chosen')
  BY <1>1, <1>2, <1>4, NoRequestFacts DEF ListTypes
<1>11. AdminInv'
  <2>1. AdminTypes' /\ OneWaiter'
    BY <1>1, <1>2 DEF AdminInv, AdminTypes, OneWaiter
  <2>2. ASSUME NEW id \in Names, id \notin excused' PROVE Settled(id, admins)
    <3>1. id \notin excused /\ \A b \in BOOLEAN : <<id, b>> \notin waiting
      <4>1. ASSUME NEW b \in BOOLEAN, <<id, b>> \in waiting PROVE id \in excused'
        <5>1. <<id, b>>[1] = id
          OBVIOUS
        <5> QED BY <1>2, <4>1, <5>1
      <4> QED BY <1>2, <2>2, <4>1
    <3> QED BY <1>1, <3>1 DEF AdminInv, NobodyWaits
  <2> QED BY <1>2, <2>1, <2>2 DEF AdminInv
<1> QED BY <1>2, <1>5, <1>6, <1>7, <1>8, <1>9, <1>10, <1>11 DEF ListsInv, McInv, LookInv, EnforcementIsChosen

LEMMA ListsKept ==
  OneRequestAtATime /\ ListsInv /\ [MinecraftNext \/ ValheimNext \/ AgrelhaDies]_listVars => ListsInv'
<1> SUFFICES ASSUME OneRequestAtATime, ListsInv, [MinecraftNext \/ ValheimNext \/ AgrelhaDies]_listVars
             PROVE  ListsInv'
  OBVIOUS
<1>1. McInv /\ LookInv /\ AdminInv
  BY DEF ListsInv
<1>2. ASSUME UNCHANGED valheim PROVE AdminInv'
  BY <1>1, <1>2 DEF valheim, AdminInv, AdminTypes, OneWaiter, NobodyWaits
<1>3. ASSUME UNCHANGED minecraft, spent' \in 0 .. MaxListRequests PROVE McInv' /\ LookInv'
  BY <1>1, <1>3 DEF minecraft, McInv, ListTypes, OneEdit, HalvesAgree, LookInv, OneLook, EnforcementIsChosen
<1>4. spent \in 0 .. MaxListRequests
  BY <1>1 DEF McInv, ListTypes
<1>5. CASE MinecraftNext
  <2>1. UNCHANGED valheim
    BY <1>5 DEF MinecraftNext, GrantOp, RevokeOp, AddWhitelist, RemoveWhitelist, Edit, Asked, PatchList, ExecuteLive,
                ViewAccess, ToggleWhitelist, Probe, Revert, SetWhitelistEnforced, TypedInGame
  <2> QED BY <1>1, <1>2, <1>5, <2>1, McKept DEF ListsInv
<1>6. CASE ValheimNext
  <2>1. UNCHANGED minecraft /\ spent' \in 0 .. MaxListRequests
    BY <1>4, <1>6, ListsAssumption DEF ValheimNext, GrantOrRevoke, SyncAdmins, ApplyAfterSync, RestartsAnyway
  <2>2. AdminInv'
    BY <1>1, <1>6, GrantKeeps, SyncKeeps, ApplyKeeps, RestartsKeeps DEF ValheimNext
  <2> QED BY <1>3, <2>1, <2>2 DEF ListsInv
<1>7. CASE UNCHANGED listVars
  BY <1>2, <1>3, <1>4, <1>7 DEF listVars, minecraft, valheim, ListsInv
<1> QED BY <1>5, <1>6, <1>7, DeathKeeps

LEMMA ListsAreRight == ListsInv => ListsTypeOK /\ ListsAgree
<1> SUFFICES ASSUME ListsInv PROVE ListsTypeOK /\ ListsAgree
  OBVIOUS
<1>1. /\ McInv /\ LookInv /\ AdminInv /\ ListTypes /\ AdminTypes
      /\ \A p \in Clients : serving[p] \in Served /\ EditOK(serving[p], doc)
  BY DEF ListsInv, McInv, ListTypes, AdminInv
<1>2. ListsTypeOK
  BY <1>1 DEF ListsTypeOK, ListTypes, AdminTypes, Served, EditOK
<1>3. AdminsAreApplied
  <2> SUFFICES ASSUME NEW id \in Names \ excused, \A b \in BOOLEAN : <<id, b>> \notin waiting
               PROVE  id \in admins.loaded <=> id \in Committed
    BY DEF AdminsAreApplied
  <2> QED BY <1>1 DEF AdminInv, NobodyWaits, Settled, Committed
<1> QED BY <1>1, <1>2, <1>3 DEF ListsAgree, McInv, LookInv

(* With one request about an entry, about the enforcement and about an id   *)
(* at a time, whichever commands fail, run or not, and wherever agrelha     *)
(* dies: an edit that reached both copies leaves them agreeing, the         *)
(* enforcement is what was chosen but for what nobody was told, and what    *)
(* was committed about an admin is loaded whichever commits were            *)
(* synchronised together (access.go, ApplyAfterSync).                       *)
THEOREM ListsAgreeAtLast == OneRequestAtATime => (ListsSpec => [](ListsTypeOK /\ ListsAgree))
<1> SUFFICES ASSUME OneRequestAtATime PROVE ListsSpec => [](ListsTypeOK /\ ListsAgree)
  OBVIOUS
<1>1. InitLists => ListsInv
  BY McStarts, AdminStarts DEF ListsInv
<1>2. ListsInv /\ [MinecraftNext \/ ValheimNext \/ AgrelhaDies]_listVars => ListsInv'
  BY ListsKept
<1> QED BY <1>1, <1>2, ListsAreRight, PTL DEF ListsSpec

-----------------------------------------------------------------------------
(* Rcon. *)

Routing == 1 .. Len(Routes)
Holding == {"auth", "send", "read"}
Calls == [pc : {"idle", "call", "done", "failed"} \cup Holding, route : Routing, got : Packets \cup {NoWire}]

Types ==
  /\ calls \in [Commands -> Calls] /\ wire \in [Addrs -> Wires \cup {NoWire}]
  /\ late \subseteq Commands \X Routing /\ ran \in [Commands -> Nat] /\ outages \in 0 .. MaxOutages

(* A connection w that the next command can use. *)
Clean(w) == w.authed /\ w.sent = <<>> /\ w.back = <<>>

(* A connection whose password is under way: an answer that lets the client *)
(* in comes from a server that has done so.                                 *)
Greets(w) ==
  \/ w.sent = <<"auth">> /\ w.back = <<>>
  \/ w.sent = <<>> /\ w.back \in {<<>>, <<"denied">>}
  \/ w.sent = <<>> /\ w.back = <<"accepted">> /\ w.authed

(* A connection that carries command c, or what the server makes of it. *)
Serves(w, c) ==
  /\ w.authed
  /\ \/ w.sent = <<c>> /\ w.back = <<>>
     \/ w.sent = <<>> /\ w.back \in {<<>>, <<c>>, <<"long">>}

OneHolder == \A c, d \in Commands, a \in Addrs : Holds(c, a) /\ Holds(d, a) => c = d

(* What caller c finds on the connection it holds. *)
HolderOK(c) ==
  LET w == wire[ClientFor(c)] IN
  /\ calls[c].pc \in Holding => w # NoWire
  /\ calls[c].pc = "auth" => Greets(w)
  /\ calls[c].pc = "send" => Clean(w)
  /\ calls[c].pc = "read" => Serves(w, c) /\ (w.back = <<c>> => ran[c] > 0)

FreeOK(a) == wire[a] # NoWire /\ (\A c \in Commands : ~Holds(c, a)) => Clean(wire[a])
DoneOK(c) == calls[c].pc = "done" => calls[c].got = c /\ ran[c] > 0

(* The attempts of c that have written it, those of them whose connection   *)
(* was closed with the command unread, and the one that is still open.      *)
Attempts(c) == IF calls[c].pc \in {"read", "done", "failed"} THEN calls[c].route ELSE calls[c].route - 1
LateOf(c) == {r \in Routing : <<c, r>> \in late}
OnTheWire(c) == IF calls[c].pc = "read" /\ wire[ClientFor(c)].sent = <<c>> THEN 1 ELSE 0
CountOK(c) == ran[c] + Cardinality(LateOf(c)) + OnTheWire(c) <= Attempts(c)

RconInv ==
  /\ Types /\ OneHolder
  /\ \A c \in Commands : HolderOK(c) /\ DoneOK(c) /\ CountOK(c)
  /\ \A a \in Addrs : FreeOK(a)

LEMMA RoutesFacts == /\ Routing = DOMAIN Routes /\ Len(Routes) \in Nat \ {0} /\ 1 \in Routing
                     /\ \A r \in Routing : Routes[r] \in Addrs
<1>1. Routes \in Seq(Addrs) /\ Routes # <<>>
  BY RconAssumption
<1>2. DOMAIN Routes = 1 .. Len(Routes) /\ Len(Routes) \in Nat \ {0}
  BY <1>1
<1> QED BY <1>2 DEF Routing, Addrs

LEMMA OnePacket ==
  ASSUME NEW p, NEW s, s = <<p>>
  PROVE  /\ s # <<>> /\ Head(s) = p /\ Tail(s) = <<>> /\ Len(s) = 1 /\ DOMAIN s = {1} /\ s[1] = p
OBVIOUS

LEMMA NoPacket ==
  /\ Len(<<>>) = 0 /\ DOMAIN <<>> = {} /\ (\A p : Append(<<>>, p) = <<p>> /\ <<>> # <<p>>)
  /\ \A p, q : <<p>> = <<q>> => p = q
OBVIOUS

LEMMA LateOfFinite ==
  ASSUME NEW c
  PROVE  IsFiniteSet(LateOf(c)) /\ Cardinality(LateOf(c)) \in Nat
<1>1. IsFiniteSet(Routing)
  BY RoutesFacts, FS_Interval DEF Routing
<1>2. LateOf(c) \subseteq Routing
  BY DEF LateOf
<1> QED BY <1>1, <1>2, FS_Subset, FS_CardinalityType

LEMMA CallFields ==
  ASSUME Types, NEW c \in Commands
  PROVE  /\ calls[c] \in Calls /\ calls[c].pc \in {"idle", "call", "done", "failed"} \cup Holding
         /\ calls[c].route \in Routing /\ calls[c].route \in Nat /\ calls[c].route >= 1
         /\ ClientFor(c) \in Addrs /\ ran[c] \in Nat /\ wire[ClientFor(c)] \in Wires \cup {NoWire}
<1>1. calls[c] \in Calls
  BY DEF Types
<1> QED BY <1>1, RoutesFacts DEF Types, Calls, ClientFor, Routing

(* Every packet a connection carries is one of those. *)
LEMMA OneAtATime ==
  ASSUME RconInv, NEW a \in Addrs, wire[a] # NoWire
  PROVE  Len(wire[a].sent) + Len(wire[a].back) <= 1
<1> DEFINE w == wire[a]
           Short == \/ w.sent = <<>> /\ (w.back = <<>> \/ \E p : w.back = <<p>>)
                    \/ (\E p : w.sent = <<p>>) /\ w.back = <<>>
<1>1. Short
  <2>1. CASE \A c \in Commands : ~Holds(c, a)
    BY <2>1 DEF RconInv, FreeOK, Clean
  <2>2. ASSUME NEW c \in Commands, Holds(c, a) PROVE Short
    <3>1. ClientFor(c) = a /\ calls[c].pc \in Holding /\ HolderOK(c)
      BY <2>2 DEF Holds, Holding, RconInv
    <3>2. CASE calls[c].pc = "auth"
      BY <3>1, <3>2 DEF HolderOK, Greets
    <3>3. CASE calls[c].pc = "send"
      BY <3>1, <3>3 DEF HolderOK, Clean
    <3>4. CASE calls[c].pc = "read"
      BY <3>1, <3>4 DEF HolderOK, Serves
    <3> QED BY <3>1, <3>2, <3>3, <3>4 DEF Holding
  <2> QED BY <2>1, <2>2
<1>2. Len(<<>>) = 0 /\ \A p : Len(<<p>>) = 1
  OBVIOUS
<1> HIDE DEF w
<1>3. \/ Len(w.sent) = 0 /\ Len(w.back) = 0
      \/ Len(w.sent) = 0 /\ Len(w.back) = 1
      \/ Len(w.sent) = 1 /\ Len(w.back) = 0
  <2>1. CASE w.sent = <<>> /\ w.back = <<>>
    BY <1>2, <2>1
  <2>2. ASSUME NEW p, w.sent = <<>>, w.back = <<p>> PROVE Len(w.sent) = 0 /\ Len(w.back) = 1
    BY <1>2, <2>2
  <2>3. ASSUME NEW p, w.sent = <<p>>, w.back = <<>> PROVE Len(w.sent) = 1 /\ Len(w.back) = 0
    BY <1>2, <2>3
  <2> QED BY <1>1, <2>1, <2>2, <2>3
<1> DEFINE sent == Len(w.sent)
           back == Len(w.back)
<1>4. sent \in 0 .. 1 /\ back \in 0 .. 1 /\ (sent = 0 \/ back = 0)
  BY <1>3
<1> HIDE DEF sent, back
<1>5. sent + back <= 1
  BY <1>4
<1> QED BY <1>5 DEF w, sent, back

LEMMA RconInvImplies == RconInv => RconTypeOK /\ ConnectionsAreClean
<1> SUFFICES ASSUME RconInv PROVE RconTypeOK /\ ConnectionsAreClean
  OBVIOUS
<1>1. RconTypeOK
  BY CallFields, OneAtATime, RoutesFacts DEF RconInv, Types, RconTypeOK, Holding
<1>2. AnswerIsMine
  BY DEF AnswerIsMine, RconInv, DoneOK
<1>3. KeptConnectionIsClean
  BY DEF KeptConnectionIsClean, RconInv, FreeOK, Clean
<1>4. ASSUME NEW c \in Commands PROVE ran[c] <= calls[c].route
  <2>1. CountOK(c) /\ ran[c] \in Nat /\ calls[c].route \in Nat /\ Cardinality(LateOf(c)) \in Nat
    BY CallFields, LateOfFinite DEF RconInv
  <2> QED BY <2>1 DEF CountOK, Attempts, OnTheWire
<1> QED BY <1>1, <1>2, <1>3, <1>4 DEF ConnectionsAreClean, OncePerAttempt

LEMMA RconInvInit == RconInit => RconInv
<1> SUFFICES ASSUME RconInit PROVE RconInv
  OBVIOUS
<1>1. \A c \in Commands : calls[c].pc = "idle" /\ calls[c].route = 1 /\ ran[c] = 0
  BY DEF RconInit, Unsent
<1>2. Types
  <2>1. Unsent \in Calls
    BY RoutesFacts DEF Unsent, Calls, Holding
  <2> QED BY <2>1, RconAssumption DEF RconInit, Types
<1>3. ASSUME NEW c \in Commands PROVE HolderOK(c) /\ DoneOK(c) /\ CountOK(c)
  <2>1. LateOf(c) = {} /\ Cardinality({}) = 0
    BY FS_EmptySet DEF RconInit, LateOf
  <2>2. CountOK(c)
    BY <1>1, <2>1 DEF CountOK, Attempts, OnTheWire
  <2> QED BY <1>1, <2>2 DEF HolderOK, DoneOK, Holding
<1>4. OneHolder /\ \A a \in Addrs : FreeOK(a)
  BY <1>1 DEF RconInit, OneHolder, FreeOK, Holds
<1> QED BY <1>2, <1>3, <1>4 DEF RconInv

-----------------------------------------------------------------------------
(* A step of one caller *)

OthersWait(c) == \A d \in Commands \ {c} : calls'[d] = calls[d]

LEMMA CallsField ==
  ASSUME Types, NEW c \in Commands, NEW k \in Calls, calls' = [calls EXCEPT ![c] = k]
  PROVE  calls' \in [Commands -> Calls] /\ calls'[c] = k /\ OthersWait(c)
BY DEF Types, OthersWait

LEMMA MoveFacts ==
  ASSUME Types, NEW c \in Commands, NEW pc \in {"idle", "call", "done", "failed"} \cup Holding, Move(c, pc)
  PROVE  /\ calls' \in [Commands -> Calls] /\ OthersWait(c)
         /\ calls'[c].pc = pc /\ calls'[c].route = calls[c].route
<1> DEFINE k == [calls[c] EXCEPT !.pc = pc]
<1>1. calls[c] \in Calls
  BY CallFields
<1>2. k \in Calls /\ k.pc = pc /\ k.route = calls[c].route
  BY <1>1 DEF Calls
<1>3. calls' = [calls EXCEPT ![c] = k]
  BY DEF Move
<1> HIDE DEF k
<1> QED BY <1>2, <1>3, CallsField

(* An attempt that fails counts, whether its command was written or not. *)
LEMMA FailFacts ==
  ASSUME Types, NEW c \in Commands, calls[c].pc \in {"call"} \cup Holding, Fail(c)
  PROVE  /\ calls' \in [Commands -> Calls] /\ OthersWait(c) /\ calls'[c].pc \in {"call", "failed"}
         /\ Attempts(c)' = calls[c].route
<1>1. /\ calls[c] \in Calls /\ calls[c].route \in Routing /\ calls[c].route \in Nat /\ calls[c].route >= 1
      /\ Len(Routes) \in Nat
  BY CallFields, RoutesFacts
<1>2. CASE calls[c].route < Len(Routes)
  <2> DEFINE k == [calls[c] EXCEPT !.route = calls[c].route + 1, !.pc = "call"]
  <2>1. calls[c].route + 1 \in Routing
    BY <1>1, <1>2 DEF Routing
  <2>2. k \in Calls /\ k.pc = "call" /\ k.route = calls[c].route + 1
    BY <1>1, <2>1 DEF Calls
  <2>3. calls' = [calls EXCEPT ![c] = k]
    BY <1>2 DEF Fail
  <2> HIDE DEF k
  <2>4. calls' \in [Commands -> Calls] /\ calls'[c] = k /\ OthersWait(c)
    BY <2>2, <2>3, CallsField
  <2>5. Attempts(c)' = calls[c].route
    BY <1>1, <2>2, <2>4 DEF Attempts
  <2> QED BY <2>2, <2>4, <2>5
<1>3. CASE ~(calls[c].route < Len(Routes))
  <2> DEFINE k == [calls[c] EXCEPT !.pc = "failed"]
  <2>1. k \in Calls /\ k.pc = "failed" /\ k.route = calls[c].route
    BY <1>1 DEF Calls
  <2>2. calls' = [calls EXCEPT ![c] = k]
    BY <1>3 DEF Fail
  <2> HIDE DEF k
  <2>3. calls' \in [Commands -> Calls] /\ calls'[c] = k /\ OthersWait(c)
    BY <2>1, <2>2, CallsField
  <2>4. Attempts(c)' = calls[c].route
    BY <2>1, <2>3 DEF Attempts
  <2> QED BY <2>1, <2>3, <2>4
<1> QED BY <1>2, <1>3

(* A connection is closed: a command on it that was not read may still be. *)
LEMMA CloseFacts ==
  ASSUME Types, NEW c \in Commands, NEW a \in Addrs, Close(a), wire[a].sent \in {<<>>, <<"auth">>, <<c>>}
  PROVE  /\ wire' \in [Addrs -> Wires \cup {NoWire}] /\ wire'[a] = NoWire
         /\ \A b \in Addrs \ {a} : wire'[b] = wire[b]
         /\ late' \subseteq Commands \X Routing
         /\ \A d \in Commands \ {c} : LateOf(d)' = LateOf(d)
         /\ LateOf(c)' \subseteq LateOf(c) \cup {calls[c].route}
         /\ wire[a].sent # <<c>> => LateOf(c)' = LateOf(c)
<1> DEFINE unread == {d \in Commands : \E i \in DOMAIN wire[a].sent : wire[a].sent[i] = d}
<1>1. wire' = [wire EXCEPT ![a] = NoWire] /\ late' = late \cup {<<d, calls[d].route>> : d \in unread}
  BY DEF Close
<1>2. unread \subseteq {c} /\ (wire[a].sent # <<c>> => unread = {})
  <2>1. "auth" \notin Commands
    BY RconAssumption
  <2>2. CASE wire[a].sent = <<>>
    BY <2>2
  <2>3. CASE wire[a].sent = <<"auth">>
    BY <2>1, <2>3
  <2>4. CASE wire[a].sent = <<c>>
    BY <2>4
  <2> QED BY <2>2, <2>3, <2>4
<1> HIDE DEF unread
<1>3. calls[c].route \in Routing
  BY CallFields
<1>4. late' \subseteq late \cup {<<c, calls[c].route>>} /\ late \subseteq late' /\ (wire[a].sent # <<c>> => late' = late)
  BY <1>1, <1>2
<1>5. late \subseteq Commands \X Routing
  BY DEF Types
<1> QED BY <1>1, <1>3, <1>4, <1>5 DEF Types, LateOf

(* What a step of c on its client leaves alone. *)
LEMMA CallerStep ==
  ASSUME RconInv, Types', NEW c \in Commands, OthersWait(c),
         \A d \in Commands \ {c} : ran'[d] = ran[d] /\ LateOf(d)' = LateOf(d) /\ ~Holds(d, ClientFor(c)),
         \A b \in Addrs \ {ClientFor(c)} : wire'[b] = wire[b],
         \/ calls'[c].route = calls[c].route /\ calls'[c].pc \in Holding
         \/ calls'[c].pc \notin Holding /\ (wire'[ClientFor(c)] # NoWire => Clean(wire'[ClientFor(c)])),
         HolderOK(c)', DoneOK(c)', CountOK(c)'
  PROVE  RconInv'
<1> DEFINE a == ClientFor(c)
<1>0. a \in Addrs /\ \A d \in Commands : ClientFor(d) \in Addrs
  BY CallFields DEF RconInv
<1>1. \A d \in Commands \ {c}, b \in Addrs : Holds(d, b)' <=> Holds(d, b)
  BY DEF OthersWait, Holds, ClientFor
<1>2. \A b \in Addrs : Holds(c, b)' => b = a
  BY DEF Holds, Holding, ClientFor
<1>3. OneHolder'
  BY <1>0, <1>1, <1>2 DEF OneHolder, RconInv
<1>4. ASSUME NEW d \in Commands \ {c} PROVE (HolderOK(d) /\ DoneOK(d) /\ CountOK(d))'
  <2>1. /\ calls'[d] = calls[d] /\ HolderOK(d) /\ DoneOK(d) /\ CountOK(d) /\ ClientFor(d)' = ClientFor(d)
        /\ ran'[d] = ran[d] /\ LateOf(d)' = LateOf(d)
    BY DEF OthersWait, RconInv, ClientFor
  <2>2. calls[d].pc \in Holding => wire'[ClientFor(d)] = wire[ClientFor(d)]
    BY <1>0 DEF Holds, Holding
  <2>3. HolderOK(d)'
    BY <2>1, <2>2 DEF HolderOK, Holding
  <2>4. OnTheWire(d)' = OnTheWire(d) /\ Attempts(d)' = Attempts(d)
    BY <2>1, <2>2 DEF OnTheWire, Attempts, Holding
  <2> QED BY <2>1, <2>3, <2>4 DEF DoneOK, CountOK
<1>5. ASSUME NEW b \in Addrs PROVE FreeOK(b)'
  <2>1. CASE b = a
    BY <2>1 DEF FreeOK, Holds, Holding, ClientFor
  <2>2. CASE b # a
    <3>1. wire'[b] = wire[b] /\ FreeOK(b) /\ ~Holds(c, b)
      BY <2>2 DEF RconInv, Holds
    <3> QED BY <1>1, <3>1 DEF FreeOK
  <2> QED BY <2>1, <2>2
<1> QED BY <1>3, <1>4, <1>5 DEF RconInv

(* A caller that holds no client, before or after. *)
LEMMA CallerElsewhere ==
  ASSUME RconInv, Types', NEW c \in Commands, OthersWait(c), UNCHANGED <<wire, late, ran>>,
         calls[c].pc \notin Holding, calls'[c].pc \notin Holding, DoneOK(c)', CountOK(c)'
  PROVE  RconInv'
<1>1. \A d \in Commands, b \in Addrs : Holds(d, b)' <=> Holds(d, b)
  BY DEF OthersWait, Holds, Holding, ClientFor
<1>2. OneHolder' /\ \A b \in Addrs : FreeOK(b)'
  BY <1>1 DEF OneHolder, RconInv, FreeOK
<1>3. ASSUME NEW d \in Commands \ {c} PROVE (HolderOK(d) /\ DoneOK(d) /\ CountOK(d))'
  BY <1>3 DEF OthersWait, RconInv, HolderOK, DoneOK, CountOK, ClientFor, LateOf, OnTheWire, Attempts
<1>4. HolderOK(c)'
  BY DEF HolderOK, Holding
<1> QED BY <1>2, <1>3, <1>4 DEF RconInv

LEMMA HolderFacts ==
  ASSUME RconInv, NEW c \in Commands, calls[c].pc \in Holding
  PROVE  /\ ClientFor(c) \in Addrs /\ wire[ClientFor(c)] \in Wires /\ Holds(c, ClientFor(c))
         /\ \A d \in Commands \ {c} : ~Holds(d, ClientFor(c))
         /\ wire[ClientFor(c)].sent \in {<<>>, <<"auth">>, <<c>>}
         /\ calls[c].pc # "read" => wire[ClientFor(c)].sent # <<c>>
<1> DEFINE w == wire[ClientFor(c)]
<1>1. ClientFor(c) \in Addrs /\ Holds(c, ClientFor(c))
  BY CallFields DEF RconInv, Holds, Holding
<1>2. HolderOK(c) /\ w # NoWire /\ w \in Wires
  BY CallFields DEF RconInv, HolderOK
<1>3. \A d \in Commands \ {c} : ~Holds(d, ClientFor(c))
  BY <1>1 DEF RconInv, OneHolder
<1>4. "auth" # c
  BY RconAssumption
<1>5. w.sent \in {<<>>, <<"auth">>, <<c>>} /\ (calls[c].pc # "read" => w.sent # <<c>>)
  <2>1. CASE calls[c].pc = "auth"
    BY <1>2, <1>4, <2>1, NoPacket DEF HolderOK, Greets
  <2>2. CASE calls[c].pc = "send"
    BY <1>2, <2>2, NoPacket DEF HolderOK, Clean
  <2>3. CASE calls[c].pc = "read"
    BY <1>2, <2>3 DEF HolderOK, Serves
  <2> QED BY <2>1, <2>2, <2>3 DEF Holding
<1> QED BY <1>1, <1>2, <1>3, <1>5

LEMMA OneMore ==
  ASSUME NEW S, IsFiniteSet(S), NEW T, NEW x, T \subseteq S \cup {x}
  PROVE  Cardinality(T) <= Cardinality(S) + 1 /\ Cardinality(T) \in Nat /\ Cardinality(S) \in Nat
<1>1. IsFiniteSet(S \cup {x}) /\ Cardinality(S \cup {x}) <= Cardinality(S) + 1 /\ Cardinality(S) \in Nat
  BY FS_AddElement, FS_CardinalityType
<1>2. IsFiniteSet(T) /\ Cardinality(T) <= Cardinality(S \cup {x}) /\ Cardinality(T) \in Nat /\ Cardinality(S \cup {x}) \in Nat
  BY <1>1, FS_Subset, FS_CardinalityType
<1> QED BY <1>1, <1>2

(* An attempt is given up and its connection closed.                        *)
LEMMA GivenUp ==
  ASSUME RconInv, NEW c \in Commands, calls[c].pc \in Holding, Fail(c), Close(ClientFor(c)), UNCHANGED <<ran, outages>>
  PROVE  RconInv'
<1> DEFINE a == ClientFor(c)
<1>1. /\ a \in Addrs /\ wire[a].sent \in {<<>>, <<"auth">>, <<c>>} /\ (calls[c].pc # "read" => wire[a].sent # <<c>>)
      /\ \A d \in Commands \ {c} : ~Holds(d, a)
  BY HolderFacts
<1>2. /\ calls' \in [Commands -> Calls] /\ OthersWait(c) /\ calls'[c].pc \in {"call", "failed"}
      /\ Attempts(c)' = calls[c].route
  BY FailFacts DEF RconInv
<1>3. /\ wire' \in [Addrs -> Wires \cup {NoWire}] /\ wire'[a] = NoWire
      /\ \A b \in Addrs \ {a} : wire'[b] = wire[b]
      /\ late' \subseteq Commands \X Routing
      /\ \A d \in Commands \ {c} : LateOf(d)' = LateOf(d)
      /\ LateOf(c)' \subseteq LateOf(c) \cup {calls[c].route}
      /\ wire[a].sent # <<c>> => LateOf(c)' = LateOf(c)
  BY <1>1, CloseFacts DEF RconInv
<1>4. Types'
  BY <1>2, <1>3 DEF Types, RconInv
<1>5. CountOK(c)'
  <2>1. /\ CountOK(c) /\ ran'[c] = ran[c] /\ ran[c] \in Nat /\ calls[c].route \in Nat /\ OnTheWire(c)' = 0
        /\ Attempts(c) <= calls[c].route
    BY <1>2, CallFields DEF RconInv, OnTheWire, Attempts
  <2>2. IsFiniteSet(LateOf(c)) /\ Cardinality(LateOf(c)) \in Nat
    BY LateOfFinite
  <2>3. CASE wire[a].sent = <<c>>
    <3>1. OnTheWire(c) = 1 /\ Attempts(c) = calls[c].route
      BY <1>1, <2>3 DEF OnTheWire, Attempts
    <3>2. /\ Cardinality(LateOf(c)') <= Cardinality(LateOf(c)) + 1 /\ Cardinality(LateOf(c)') \in Nat
      BY <1>3, <2>2, OneMore
    <3>3. ran[c] + Cardinality(LateOf(c)') + 0 <= calls[c].route
      BY <2>1, <2>2, <3>1, <3>2 DEF CountOK
    <3> QED BY <1>2, <2>1, <3>3 DEF CountOK
  <2>4. CASE wire[a].sent # <<c>>
    <3>1. OnTheWire(c) = 0 /\ LateOf(c)' = LateOf(c)
      BY <1>3, <2>4 DEF OnTheWire
    <3>2. ran[c] + Cardinality(LateOf(c)) + 0 <= calls[c].route
      BY <2>1, <2>2, <3>1, CallFields DEF CountOK, RconInv, Attempts
    <3> QED BY <1>2, <2>1, <3>1, <3>2 DEF CountOK
  <2> QED BY <2>3, <2>4
<1>6. HolderOK(c)' /\ DoneOK(c)' /\ calls'[c].pc \notin Holding
  BY <1>2 DEF HolderOK, DoneOK, Holding
<1> QED BY <1>1, <1>2, <1>3, <1>4, <1>5, <1>6, CallerStep

-----------------------------------------------------------------------------
(* The steps *)

LEMMA InvCalls ==
  ASSUME RconInv, NEW c \in Commands, RconExec(c) \/ Expired(c)
  PROVE  RconInv'
<1>1. /\ ran[c] \in Nat /\ calls[c].route \in Nat /\ CountOK(c) /\ Cardinality(LateOf(c)) \in Nat
      /\ UNCHANGED <<wire, late, ran, outages>>
  BY CallFields, LateOfFinite DEF RconInv, RconExec, Expired
<1>2. LateOf(c)' = LateOf(c) /\ ran'[c] = ran[c]
  BY <1>1 DEF LateOf
<1>3. CASE RconExec(c)
  <2>1. /\ calls[c].pc = "idle" /\ calls' \in [Commands -> Calls] /\ OthersWait(c)
        /\ calls'[c].pc = "call" /\ calls'[c].route = calls[c].route
    BY <1>3, MoveFacts DEF RconExec, RconInv
  <2>2. CountOK(c)'
    BY <1>1, <1>2, <2>1 DEF CountOK, OnTheWire, Attempts
  <2>3. Types' /\ DoneOK(c)' /\ calls[c].pc \notin Holding /\ calls'[c].pc \notin Holding
    BY <1>1, <2>1 DEF Types, RconInv, DoneOK, Holding
  <2> QED BY <1>1, <2>1, <2>2, <2>3, CallerElsewhere
<1>4. CASE Expired(c)
  <2>1. /\ calls[c].pc = "call" /\ calls' \in [Commands -> Calls] /\ OthersWait(c)
        /\ calls'[c].pc \in {"call", "failed"} /\ Attempts(c)' = calls[c].route
    BY <1>4, FailFacts DEF Expired, RconInv
  <2>2. OnTheWire(c)' = 0 /\ OnTheWire(c) = 0 /\ Attempts(c) = calls[c].route - 1
    BY <2>1 DEF OnTheWire, Attempts
  <2>3. CountOK(c)'
    BY <1>1, <1>2, <2>1, <2>2 DEF CountOK
  <2>4. Types' /\ DoneOK(c)' /\ calls[c].pc \notin Holding /\ calls'[c].pc \notin Holding
    BY <1>1, <2>1 DEF Types, RconInv, DoneOK, Holding
  <2> QED BY <1>1, <2>1, <2>3, <2>4, CallerElsewhere
<1> QED BY <1>3, <1>4

LEMMA WireField ==
  ASSUME Types, NEW a \in Addrs, NEW w \in Wires, wire' = [wire EXCEPT ![a] = w]
  PROVE  wire' \in [Addrs -> Wires \cup {NoWire}] /\ wire'[a] = w /\ \A b \in Addrs \ {a} : wire'[b] = wire[b]
BY DEF Types

LEMMA DialledFacts ==
  Dialled \in Wires /\ Dialled.sent = <<"auth">> /\ Dialled.back = <<>>
<1>1. <<"auth">> \in Seq(Packets) /\ <<>> \in Seq(Packets)
  BY DEF Packets
<1> QED BY <1>1 DEF Dialled, Wires

LEMMA InvConnect ==
  ASSUME RconInv, NEW c \in Commands, Connect(c)
  PROVE  RconInv'
<1> DEFINE a == ClientFor(c)
<1>1. /\ calls[c].pc = "call" /\ (\A d \in Commands : ~Holds(d, a)) /\ UNCHANGED <<late, ran, outages>>
      /\ \/ wire[a] # NoWire /\ Move(c, "send") /\ UNCHANGED wire
         \/ Fail(c) /\ UNCHANGED wire
         \/ wire' = [wire EXCEPT ![a] = Dialled] /\ Move(c, "auth")
  BY DEF Connect
<1>2. a \in Addrs /\ Types /\ \A d \in Commands : LateOf(d)' = LateOf(d) /\ ran'[d] = ran[d]
  BY <1>1, CallFields DEF RconInv, LateOf
<1>3. CASE Fail(c) /\ UNCHANGED wire
  <2>1. Expired(c)
    BY <1>1, <1>3 DEF Expired
  <2> QED BY <2>1, InvCalls
<1>4. CASE wire[a] # NoWire /\ Move(c, "send") /\ UNCHANGED wire
  <2>1. /\ calls' \in [Commands -> Calls] /\ OthersWait(c)
        /\ calls'[c].pc = "send" /\ calls'[c].route = calls[c].route
    BY <1>2, <1>4, MoveFacts DEF Holding
  <2>2. Clean(wire[a]) /\ ClientFor(c)' = a
    BY <1>1, <1>2, <1>4, <2>1 DEF RconInv, FreeOK, ClientFor
  <2>3. Types' /\ HolderOK(c)' /\ DoneOK(c)'
    BY <1>1, <1>2, <1>4, <2>1, <2>2 DEF Types, HolderOK, DoneOK
  <2>4. OnTheWire(c)' = OnTheWire(c) /\ Attempts(c)' = Attempts(c)
    BY <1>1, <2>1 DEF OnTheWire, Attempts
  <2>5. CountOK(c)'
    BY <1>2, <2>4 DEF CountOK, RconInv
  <2>6. \A b \in Addrs \ {a} : wire'[b] = wire[b]
    BY <1>4
  <2> QED BY <1>1, <1>2, <2>1, <2>3, <2>5, <2>6, CallerStep DEF Holding
<1>5. CASE wire' = [wire EXCEPT ![a] = Dialled] /\ Move(c, "auth")
  <2>1. /\ calls' \in [Commands -> Calls] /\ OthersWait(c)
        /\ calls'[c].pc = "auth" /\ calls'[c].route = calls[c].route
    BY <1>2, <1>5, MoveFacts DEF Holding
  <2>2. /\ wire' \in [Addrs -> Wires \cup {NoWire}] /\ wire'[a] = Dialled
        /\ \A b \in Addrs \ {a} : wire'[b] = wire[b]
    BY <1>2, <1>5, DialledFacts, WireField
  <2>3. ClientFor(c)' = a
    BY <2>1 DEF ClientFor
  <2>4. Types' /\ DoneOK(c)'
    BY <1>1, <1>2, <2>1, <2>2 DEF Types, DoneOK
  <2>5. HolderOK(c)'
    BY <2>1, <2>2, <2>3, DialledFacts, RconAssumption DEF HolderOK, Greets
  <2>6. OnTheWire(c)' = OnTheWire(c) /\ Attempts(c)' = Attempts(c)
    BY <1>1, <2>1 DEF OnTheWire, Attempts
  <2>7. CountOK(c)'
    BY <1>2, <2>6 DEF CountOK, RconInv
  <2> QED BY <1>1, <1>2, <2>1, <2>2, <2>4, <2>5, <2>7, CallerStep DEF Holding
<1> QED BY <1>1, <1>3, <1>4, <1>5

LEMMA InvReadAuth ==
  ASSUME RconInv, NEW c \in Commands, ReadAuth(c)
  PROVE  RconInv'
<1> DEFINE a == ClientFor(c)
           w == wire[a]
<1>1. /\ calls[c].pc = "auth" /\ w.back # <<>> /\ UNCHANGED <<ran, outages>>
      /\ IF Head(w.back) = "denied"
         THEN Fail(c) /\ Close(a)
         ELSE Move(c, "send") /\ wire' = [wire EXCEPT ![a].back = Tail(@)] /\ UNCHANGED late
  BY DEF ReadAuth
<1>2. CASE Head(w.back) = "denied"
  BY <1>1, <1>2, GivenUp DEF Holding
<1>3. CASE Head(w.back) # "denied"
  <2>1. Move(c, "send") /\ wire' = [wire EXCEPT ![a].back = Tail(@)] /\ UNCHANGED <<late, ran, outages>>
    BY <1>1, <1>3
  <2>2. a \in Addrs /\ w \in Wires /\ \A d \in Commands \ {c} : ~Holds(d, a)
    BY <1>1, HolderFacts DEF Holding
  <2>3. Greets(w)
    BY <1>1 DEF RconInv, HolderOK
  <2>4. w.sent = <<>> /\ w.back = <<"accepted">> /\ w.authed
    <3>1. w.back # <<"denied">>
      BY <1>3, OnePacket
    <3> QED BY <1>1, <2>3, <3>1 DEF Greets
  <2> DEFINE x == [w EXCEPT !.back = Tail(w.back)]
  <2>5. x \in Wires /\ Clean(x)
    <3>1. Tail(w.back) = <<>> /\ <<>> \in Seq(Packets)
      BY <2>4, OnePacket
    <3> HIDE DEF w
    <3> QED BY <2>2, <2>4, <3>1 DEF Wires, Clean
  <2>6. wire' = [wire EXCEPT ![a] = x]
    BY <2>1, <2>2 DEF RconInv, Types
  <2> HIDE DEF x
  <2>7. wire' \in [Addrs -> Wires \cup {NoWire}] /\ wire'[a] = x /\ \A b \in Addrs \ {a} : wire'[b] = wire[b]
    BY <2>2, <2>5, <2>6, WireField DEF RconInv
  <2>8. /\ calls' \in [Commands -> Calls] /\ OthersWait(c)
        /\ calls'[c].pc = "send" /\ calls'[c].route = calls[c].route
    BY <2>1, MoveFacts DEF Holding, RconInv
  <2>9. ClientFor(c)' = a /\ \A d \in Commands : LateOf(d)' = LateOf(d) /\ ran'[d] = ran[d]
    BY <2>1, <2>8 DEF ClientFor, LateOf
  <2>10. Types' /\ DoneOK(c)'
    BY <2>1, <2>7, <2>8 DEF Types, DoneOK, RconInv
  <2>11. HolderOK(c)'
    BY <2>5, <2>7, <2>8, <2>9, RconAssumption DEF HolderOK
  <2>12. OnTheWire(c)' = OnTheWire(c) /\ Attempts(c)' = Attempts(c)
    BY <1>1, <2>8 DEF OnTheWire, Attempts
  <2>13. CountOK(c)'
    BY <2>9, <2>12 DEF CountOK, RconInv
  <2> QED BY <2>2, <2>7, <2>8, <2>9, <2>10, <2>11, <2>13, CallerStep DEF Holding
<1> QED BY <1>2, <1>3

LEMMA InvWritePacket ==
  ASSUME RconInv, NEW c \in Commands, WritePacket(c)
  PROVE  RconInv'
<1> DEFINE a == ClientFor(c)
           w == wire[a]
<1>1. /\ calls[c].pc = "send" /\ UNCHANGED <<ran, outages>>
      /\ \/ Fail(c) /\ Close(a)
         \/ Move(c, "read") /\ UNCHANGED <<wire, late>>
         \/ Move(c, "read") /\ wire' = [wire EXCEPT ![a].sent = Append(@, c)] /\ UNCHANGED late
  BY DEF WritePacket
<1>2. CASE Fail(c) /\ Close(a)
  BY <1>1, <1>2, GivenUp DEF Holding
<1>3. a \in Addrs /\ w \in Wires /\ (\A d \in Commands \ {c} : ~Holds(d, a)) /\ w # NoWire /\ Clean(w)
  BY <1>1, HolderFacts DEF Holding, RconInv, HolderOK
<1>4. ASSUME NEW x \in Wires, x.authed, x.sent \in {<<>>, <<c>>}, x.back = <<>>, wire' = [wire EXCEPT ![a] = x],
             Move(c, "read"), UNCHANGED late
      PROVE  RconInv'
  <2>1. wire' \in [Addrs -> Wires \cup {NoWire}] /\ wire'[a] = x /\ \A b \in Addrs \ {a} : wire'[b] = wire[b]
    BY <1>3, <1>4, WireField DEF RconInv
  <2>2. /\ calls' \in [Commands -> Calls] /\ OthersWait(c)
        /\ calls'[c].pc = "read" /\ calls'[c].route = calls[c].route
    BY <1>4, MoveFacts DEF Holding, RconInv
  <2>3. ClientFor(c)' = a /\ \A d \in Commands : LateOf(d)' = LateOf(d) /\ ran'[d] = ran[d]
    BY <1>1, <1>4, <2>2 DEF ClientFor, LateOf
  <2>4. Types' /\ DoneOK(c)'
    BY <1>1, <1>4, <2>1, <2>2 DEF Types, DoneOK, RconInv
  <2>5. HolderOK(c)'
    <3>1. x # NoWire /\ Serves(x, c) /\ x.back # <<c>>
      BY <1>4, RconAssumption, NoPacket DEF Serves
    <3> QED BY <2>1, <2>2, <2>3, <3>1 DEF HolderOK
  <2>6. OnTheWire(c) = 0 /\ OnTheWire(c)' \in {0, 1} /\ Attempts(c) = calls[c].route - 1 /\ Attempts(c)' = calls[c].route
    BY <1>1, <2>2 DEF OnTheWire, Attempts
  <2>7. ran[c] \in Nat /\ calls[c].route \in Nat /\ Cardinality(LateOf(c)) \in Nat /\ CountOK(c)
    BY CallFields, LateOfFinite DEF RconInv
  <2>8. CountOK(c)'
    BY <2>3, <2>6, <2>7 DEF CountOK
  <2> QED BY <1>3, <2>1, <2>2, <2>3, <2>4, <2>5, <2>8, CallerStep DEF Holding
<1>5. CASE Move(c, "read") /\ UNCHANGED <<wire, late>>
  <2>1. wire' = [wire EXCEPT ![a] = w]
    BY <1>3, <1>5 DEF RconInv, Types
  <2> HIDE DEF w
  <2> QED BY <1>3, <1>4, <1>5, <2>1 DEF Clean
<1>6. CASE Move(c, "read") /\ wire' = [wire EXCEPT ![a].sent = Append(@, c)] /\ UNCHANGED late
  <2> DEFINE x == [w EXCEPT !.sent = Append(w.sent, c)]
  <2>1. wire' = [wire EXCEPT ![a] = x]
    BY <1>3, <1>6 DEF RconInv, Types
  <2>2. Append(w.sent, c) = <<c>> /\ <<c>> \in Seq(Packets)
    BY <1>3, NoPacket DEF Clean, Packets
  <2>3. x \in Wires /\ x.authed /\ x.sent = <<c>> /\ x.back = <<>>
    <3> HIDE DEF w
    <3> QED BY <1>3, <2>2 DEF Wires, Clean
  <2> HIDE DEF x
  <2> QED BY <1>4, <1>6, <2>1, <2>3
<1> QED BY <1>1, <1>2, <1>5, <1>6

LEMMA InvReadPacket ==
  ASSUME RconInv, NEW c \in Commands, ReadPacket(c)
  PROVE  RconInv'
<1> DEFINE a == ClientFor(c)
           w == wire[a]
<1>1. /\ calls[c].pc = "read" /\ w.back # <<>> /\ UNCHANGED <<ran, outages>>
      /\ IF Head(w.back) = "long"
         THEN Fail(c) /\ Close(a)
         ELSE /\ calls' = [calls EXCEPT ![c].pc = "done", ![c].got = Head(w.back)]
              /\ wire' = [wire EXCEPT ![a].back = Tail(@)] /\ UNCHANGED late
  BY DEF ReadPacket
<1>2. CASE Head(w.back) = "long"
  BY <1>1, <1>2, GivenUp DEF Holding
<1>3. CASE Head(w.back) # "long"
  <2>1. a \in Addrs /\ w \in Wires /\ \A d \in Commands \ {c} : ~Holds(d, a)
    BY <1>1, HolderFacts DEF Holding
  <2>2. Serves(w, c) /\ (w.back = <<c>> => ran[c] > 0)
    BY <1>1 DEF RconInv, HolderOK
  <2>3. w.sent = <<>> /\ w.back = <<c>> /\ w.authed
    <3>1. w.back # <<"long">>
      BY <1>3, OnePacket
    <3> QED BY <1>1, <2>2, <3>1 DEF Serves
  <2>4. Head(w.back) = c /\ Tail(w.back) = <<>>
    BY <2>3, OnePacket
  <2>5. calls' = [calls EXCEPT ![c].pc = "done", ![c].got = c] /\ wire' = [wire EXCEPT ![a].back = <<>>] /\ UNCHANGED late
    BY <1>1, <1>3, <2>4
  <2> DEFINE x == [w EXCEPT !.back = <<>>]
             k == [calls[c] EXCEPT !.pc = "done", !.got = c]
  <2>6. x \in Wires /\ Clean(x)
    <3>1. <<>> \in Seq(Packets)
      OBVIOUS
    <3> HIDE DEF w
    <3> QED BY <2>1, <2>3, <3>1 DEF Wires, Clean
  <2>7. k \in Calls /\ k.pc = "done" /\ k.got = c /\ k.route = calls[c].route
    <3>1. calls[c] \in Calls /\ c \in Packets
      BY CallFields DEF RconInv, Packets
    <3> QED BY <3>1 DEF Calls
  <2>8. wire' = [wire EXCEPT ![a] = x] /\ calls' = [calls EXCEPT ![c] = k]
    BY <2>1, <2>5 DEF RconInv, Types
  <2> HIDE DEF x, k
  <2>9. wire' \in [Addrs -> Wires \cup {NoWire}] /\ wire'[a] = x /\ \A b \in Addrs \ {a} : wire'[b] = wire[b]
    BY <2>1, <2>6, <2>8, WireField DEF RconInv
  <2>10. calls' \in [Commands -> Calls] /\ calls'[c] = k /\ OthersWait(c)
    BY <2>7, <2>8, CallsField DEF RconInv
  <2>11. \A d \in Commands : LateOf(d)' = LateOf(d) /\ ran'[d] = ran[d]
    BY <1>1, <2>5 DEF LateOf
  <2>12. Types' /\ DoneOK(c)' /\ HolderOK(c)' /\ calls'[c].pc \notin Holding
    BY <1>1, <2>2, <2>3, <2>5, <2>7, <2>9, <2>10 DEF Types, DoneOK, HolderOK, RconInv, Holding
  <2>13. OnTheWire(c)' = 0 /\ OnTheWire(c) = 0 /\ Attempts(c)' = Attempts(c)
    BY <1>1, <2>3, <2>7, <2>10, NoPacket DEF OnTheWire, Attempts
  <2>14. CountOK(c)'
    BY <2>11, <2>13 DEF CountOK, RconInv
  <2> QED BY <2>1, <2>6, <2>9, <2>10, <2>11, <2>12, <2>14, CallerStep
<1> QED BY <1>2, <1>3

LEMMA InvTimedOut ==
  ASSUME RconInv, NEW c \in Commands, TimedOut(c)
  PROVE  RconInv'
BY GivenUp DEF TimedOut, Holding

Answers(a, packet, in) ==
  wire' = [wire EXCEPT ![a].sent = Tail(@), ![a].back = Append(@, packet), ![a].authed = in]

LEMMA ReplyFacts ==
  ASSUME Types, NEW a \in Addrs, NEW p, NEW packet \in Packets, NEW in \in BOOLEAN,
         wire[a] # NoWire, wire[a].sent = <<p>>, wire[a].back = <<>>, Answers(a, packet, in)
  PROVE  \E x \in Wires : /\ x.sent = <<>> /\ x.back = <<packet>> /\ x.authed = in
                          /\ wire' \in [Addrs -> Wires \cup {NoWire}] /\ wire'[a] = x
                          /\ \A b \in Addrs \ {a} : wire'[b] = wire[b]
<1> DEFINE w == wire[a]
           x == [w EXCEPT !.sent = <<>>, !.back = <<packet>>, !.authed = in]
<1>1. Tail(w.sent) = <<>> /\ Append(w.back, packet) = <<packet>>
  BY OnePacket, NoPacket
<1>2. w \in Wires
  BY DEF Types
<1>3. x \in Wires /\ x.sent = <<>> /\ x.back = <<packet>> /\ x.authed = in
  <2>1. <<>> \in Seq(Packets) /\ <<packet>> \in Seq(Packets)
    OBVIOUS
  <2> HIDE DEF w
  <2> QED BY <1>2, <2>1 DEF Wires
<1>4. wire' = [wire EXCEPT ![a] = x]
  BY <1>1, <1>2 DEF Types, Answers
<1> HIDE DEF x
<1> QED BY <1>3, <1>4, WireField

(* The server reads what a caller has sent: only one that waits for it has. *)
LEMMA InvServerReads ==
  ASSUME RconInv, NEW a \in Addrs, ServerReads(a)
  PROVE  RconInv'
<1> DEFINE w == wire[a]
           p == Head(w.sent)
<1>1. /\ w # NoWire /\ w.sent # <<>> /\ UNCHANGED <<calls, late, outages>>
      /\ IF p = "auth"
         THEN /\ UNCHANGED ran
              /\ \/ wire' = Reply(a, "denied")
                 \/ wire' = [Reply(a, "accepted") EXCEPT ![a].authed = TRUE]
         ELSE /\ ran' = IF w.authed THEN [ran EXCEPT ![p] = @ + 1] ELSE ran
              /\ \E packet \in IF w.authed THEN {p, "long"} ELSE {"denied"} : wire' = Reply(a, packet)
  BY DEF ServerReads
<1>2. PICK c \in Commands : Holds(c, a)
  BY <1>1 DEF RconInv, FreeOK, Clean
<1>3. /\ calls[c].pc \in Holding /\ ClientFor(c) = a /\ HolderOK(c) /\ DoneOK(c) /\ CountOK(c) /\ w \in Wires
      /\ \A d \in Commands \ {c} : ~Holds(d, a)
  <2>1. calls[c].pc \in Holding /\ ClientFor(c) = a
    BY <1>2 DEF Holds, Holding
  <2> QED BY <2>1, HolderFacts DEF RconInv
<1>4. OthersWait(c) /\ (\A d \in Commands : LateOf(d)' = LateOf(d)) /\ ClientFor(c)' = a /\ calls'[c] = calls[c]
  BY <1>1, <1>3 DEF OthersWait, LateOf, ClientFor
<1>5. wire \in [Addrs -> Wires \cup {NoWire}] /\ ran \in [Commands -> Nat] /\ "auth" \notin Commands
  BY RconAssumption DEF RconInv, Types
<1>7. CASE calls[c].pc = "auth"
  <2>1. w.sent = <<"auth">> /\ w.back = <<>> /\ p = "auth"
    <3>1. w.sent = <<"auth">> /\ w.back = <<>>
      BY <1>1, <1>3, <1>7 DEF HolderOK, Greets
    <3> QED BY <3>1, OnePacket
  <2>2. ASSUME NEW packet \in {"denied", "accepted"}, NEW in \in BOOLEAN, packet = "accepted" => in,
               Answers(a, packet, in),
               UNCHANGED ran
        PROVE  RconInv'
    <3>1. PICK x \in Wires : /\ x.sent = <<>> /\ x.back = <<packet>> /\ x.authed = in
                             /\ wire' \in [Addrs -> Wires \cup {NoWire}] /\ wire'[a] = x
                             /\ \A b \in Addrs \ {a} : wire'[b] = wire[b]
      <4>1. packet \in Packets /\ Types
        BY <2>2 DEF Packets, RconInv
      <4>2. wire[a] # NoWire /\ wire[a].sent = <<"auth">> /\ wire[a].back = <<>>
        BY <1>1, <2>1
      <4> HIDE DEF w, p
      <4> QED BY <2>2, <4>1, <4>2, ReplyFacts
    <3>2. Greets(x) /\ x # NoWire
      BY <2>2, <3>1, RconAssumption DEF Greets
    <3>3. HolderOK(c)'
      BY <1>4, <1>7, <3>1, <3>2 DEF HolderOK
    <3>4. Types' /\ DoneOK(c)'
      BY <1>1, <1>4, <1>7, <2>2, <3>1 DEF Types, RconInv, DoneOK
    <3>5. OnTheWire(c)' = OnTheWire(c) /\ Attempts(c)' = Attempts(c)
      BY <1>4, <1>7 DEF OnTheWire, Attempts
    <3>6. CountOK(c)'
      BY <1>3, <1>4, <2>2, <3>5 DEF CountOK
    <3> QED BY <1>3, <1>4, <1>7, <2>2, <3>1, <3>3, <3>4, <3>6, CallerStep DEF Holding
  <2>3. CASE wire' = Reply(a, "denied") /\ UNCHANGED ran
    <3>1. Answers(a, "denied", w.authed)
      BY <1>3, <1>5, <2>3 DEF Reply, Wires, Answers
    <3> QED BY <1>3, <2>2, <2>3, <3>1 DEF Wires
  <2>4. CASE wire' = [Reply(a, "accepted") EXCEPT ![a].authed = TRUE] /\ UNCHANGED ran
    <3>1. Answers(a, "accepted", TRUE)
      BY <1>3, <1>5, <2>4 DEF Reply, Wires, Answers
    <3> QED BY <2>2, <2>4, <3>1
  <2> QED BY <1>1, <2>1, <2>3, <2>4
<1>8. CASE calls[c].pc = "send"
  BY <1>1, <1>3, <1>8 DEF HolderOK, Clean
<1>9. CASE calls[c].pc = "read"
  <2>1. w.sent = <<c>> /\ w.back = <<>> /\ w.authed /\ p = c
    <3>1. w.sent = <<c>> /\ w.back = <<>> /\ w.authed
      BY <1>1, <1>3, <1>9 DEF HolderOK, Serves
    <3> QED BY <3>1, OnePacket
  <2>2. PICK packet \in {c, "long"} : wire' = Reply(a, packet)
    BY <1>1, <1>5, <2>1
  <2>3. ran' = [ran EXCEPT ![c] = @ + 1]
    BY <1>1, <1>5, <2>1
  <2>4. Answers(a, packet, w.authed)
    BY <1>3, <1>5, <2>2 DEF Reply, Wires, Answers
  <2>5. PICK x \in Wires : /\ x.sent = <<>> /\ x.back = <<packet>> /\ x.authed
                           /\ wire' \in [Addrs -> Wires \cup {NoWire}] /\ wire'[a] = x
                           /\ \A b \in Addrs \ {a} : wire'[b] = wire[b]
    <3>1. packet \in Packets /\ Types
      BY DEF Packets, RconInv
    <3>2. wire[a] # NoWire /\ wire[a].sent = <<c>> /\ wire[a].back = <<>>
      BY <1>1, <2>1
    <3>3. w.authed \in BOOLEAN
      BY <1>3 DEF Wires
    <3>4. w.authed = TRUE
      BY <2>1, <3>3
    <3> HIDE DEF w, p
    <3>5. Answers(a, packet, TRUE)
      BY <2>4, <3>4, Zenon
    <3> QED BY <3>1, <3>2, <3>5, ReplyFacts
  <2>6. ran' \in [Commands -> Nat] /\ ran'[c] = ran[c] + 1 /\ ran[c] \in Nat /\ \A d \in Commands \ {c} : ran'[d] = ran[d]
    BY <1>5, <2>3
  <2>7. HolderOK(c)'
    <3>1. Serves(x, c) /\ x # NoWire
      BY <2>5, RconAssumption DEF Serves
    <3>2. ran'[c] > 0
      BY <2>6
    <3> QED BY <1>4, <1>9, <2>5, <3>1, <3>2 DEF HolderOK
  <2>8. Types' /\ DoneOK(c)'
    BY <1>1, <1>4, <1>9, <2>5, <2>6 DEF Types, RconInv, DoneOK
  <2>9. OnTheWire(c) = 1 /\ OnTheWire(c)' = 0 /\ Attempts(c)' = Attempts(c)
    BY <1>3, <1>4, <1>9, <2>1, <2>5, NoPacket DEF OnTheWire, Attempts
  <2>10. CountOK(c)'
    <3>1. Cardinality(LateOf(c)) \in Nat /\ calls[c].route \in Nat
      BY LateOfFinite, CallFields DEF RconInv
    <3> QED BY <1>3, <1>4, <1>9, <2>6, <2>9, <3>1 DEF CountOK, Attempts
  <2> QED BY <1>3, <1>4, <1>9, <2>5, <2>6, <2>7, <2>8, <2>10, CallerStep DEF Holding
<1> QED BY <1>3, <1>7, <1>8, <1>9 DEF Holding

LEMMA OneLess ==
  ASSUME NEW S, IsFiniteSet(S), NEW x \in S
  PROVE  Cardinality(S \ {x}) = Cardinality(S) - 1 /\ Cardinality(S) \in Nat
BY FS_RemoveElement, FS_CardinalityType

LEMMA InvServerReadsLate ==
  ASSUME RconInv, NEW c \in Commands, ServerReadsLate(c)
  PROVE  RconInv'
<1>1. PICK t \in late : t[1] = c /\ late' = late \ {t}
  BY DEF ServerReadsLate
<1>2. ran' = [ran EXCEPT ![c] = @ + 1] /\ UNCHANGED <<calls, wire, outages>>
  BY DEF ServerReadsLate
<1>3. t[2] \in Routing /\ t = <<c, t[2]>> /\ late' \subseteq Commands \X Routing
  BY <1>1 DEF RconInv, Types
<1>4. /\ ran' \in [Commands -> Nat] /\ ran'[c] = ran[c] + 1 /\ ran[c] \in Nat
      /\ \A d \in Commands \ {c} : ran'[d] = ran[d]
  BY <1>2 DEF RconInv, Types
<1>5. LateOf(c)' = LateOf(c) \ {t[2]} /\ t[2] \in LateOf(c) /\ \A d \in Commands \ {c} : LateOf(d)' = LateOf(d)
  BY <1>1, <1>3 DEF LateOf
<1>6. Cardinality(LateOf(c)') = Cardinality(LateOf(c)) - 1 /\ Cardinality(LateOf(c)) \in Nat
  BY <1>5, LateOfFinite, OneLess
<1>7. Types'
  BY <1>2, <1>3, <1>4 DEF RconInv, Types
<1>8. \A d \in Commands, b \in Addrs : Holds(d, b)' <=> Holds(d, b)
  BY <1>2 DEF Holds, ClientFor
<1>9. OneHolder' /\ \A b \in Addrs : FreeOK(b)'
  BY <1>2, <1>8 DEF OneHolder, RconInv, FreeOK
<1>10. ASSUME NEW d \in Commands PROVE (HolderOK(d) /\ DoneOK(d) /\ CountOK(d))'
  <2>1. /\ HolderOK(d) /\ DoneOK(d) /\ CountOK(d) /\ ran[d] \in Nat /\ ran'[d] \in Nat /\ ran'[d] >= ran[d]
        /\ OnTheWire(d)' = OnTheWire(d) /\ Attempts(d)' = Attempts(d)
    <3>1. OnTheWire(d)' = OnTheWire(d) /\ Attempts(d)' = Attempts(d)
      BY <1>2 DEF OnTheWire, Attempts, ClientFor
    <3>2. ran[d] \in Nat /\ ran'[d] \in Nat /\ ran'[d] >= ran[d]
      BY <1>4 DEF RconInv, Types
    <3> QED BY <3>1, <3>2 DEF RconInv
  <2>2. HolderOK(d)' /\ DoneOK(d)'
    BY <1>2, <2>1 DEF HolderOK, DoneOK, ClientFor
  <2>3. CASE d = c
    <3>1. calls[c].route \in Nat /\ OnTheWire(c) \in {0, 1} /\ Attempts(c) \in {calls[c].route, calls[c].route - 1}
      BY CallFields DEF RconInv, OnTheWire, Attempts
    <3>2. ran[c] + 1 + (Cardinality(LateOf(c)) - 1) + OnTheWire(c) <= Attempts(c)
      BY <1>4, <1>6, <2>1, <2>3, <3>1 DEF CountOK
    <3>3. CountOK(c)'
      BY <1>4, <1>6, <2>1, <2>3, <3>2 DEF CountOK
    <3> QED BY <2>2, <2>3, <3>3
  <2>4. CASE d # c
    <3>1. ran'[d] = ran[d] /\ LateOf(d)' = LateOf(d)
      BY <1>4, <1>5, <2>4
    <3> QED BY <2>1, <2>2, <3>1 DEF CountOK
  <2> QED BY <2>3, <2>4
<1> QED BY <1>7, <1>9, <1>10 DEF RconInv

LEMMA InvServerGoesAway ==
  ASSUME RconInv, ServerGoesAway
  PROVE  RconInv'
<1>1. /\ outages < MaxOutages /\ outages' = outages + 1 /\ late' = {} /\ UNCHANGED <<calls, ran>>
      /\ wire' = [a \in Addrs |-> IF wire[a] = NoWire THEN NoWire
                                  ELSE [wire[a] EXCEPT !.live = FALSE, !.sent = <<>>, !.back = <<>>]]
  BY DEF ServerGoesAway
<1>2. ASSUME NEW a \in Addrs
      PROVE  /\ wire'[a] \in Wires \cup {NoWire} /\ (wire'[a] = NoWire <=> wire[a] = NoWire)
             /\ wire[a] # NoWire => wire'[a].sent = <<>> /\ wire'[a].back = <<>> /\ wire'[a].authed = wire[a].authed
  <2>1. CASE wire[a] = NoWire
    BY <1>1, <2>1
  <2>2. CASE wire[a] # NoWire
    <3> DEFINE w == wire[a]
               x == [w EXCEPT !.live = FALSE, !.sent = <<>>, !.back = <<>>]
    <3>0. w \in Wires /\ <<>> \in Seq(Packets)
      BY <2>2 DEF RconInv, Types
    <3>1. w \in Wires /\ <<>> \in Seq(Packets) /\ wire'[a] = x
      <4>1. wire'[a] = IF w = NoWire THEN NoWire ELSE x
        BY <1>1
      <4> QED BY <2>2, <3>0, <4>1
    <3> HIDE DEF w
    <3>2. x \in Wires /\ x.sent = <<>> /\ x.back = <<>> /\ x.authed = w.authed
      BY <3>1 DEF Wires
    <3> QED BY <2>2, <3>1, <3>2, RconAssumption DEF w
  <2> QED BY <2>1, <2>2
<1>3. Types'
  <2>1. outages' \in 0 .. MaxOutages
    <3>1. outages \in 0 .. MaxOutages /\ outages < MaxOutages /\ outages' = outages + 1 /\ MaxOutages \in Nat
      BY RconAssumption DEF RconInv, Types, ServerGoesAway
    <3> QED BY <3>1
  <2>2. wire' \in [Addrs -> Wires \cup {NoWire}]
    BY <1>1, <1>2
  <2> QED BY <1>1, <2>1, <2>2 DEF RconInv, Types
<1>4. \A c \in Commands : ClientFor(c)' = ClientFor(c) /\ ClientFor(c) \in Addrs
  BY <1>1, CallFields DEF RconInv, ClientFor
<1>5. \A d \in Commands, b \in Addrs : Holds(d, b)' <=> Holds(d, b)
  BY <1>1 DEF Holds, ClientFor
<1>6. OneHolder'
  BY <1>5 DEF OneHolder, RconInv
<1>7. ASSUME NEW a \in Addrs PROVE FreeOK(a)'
  BY <1>2, <1>5 DEF FreeOK, RconInv, Clean
<1>8. ASSUME NEW c \in Commands PROVE (HolderOK(c) /\ DoneOK(c) /\ CountOK(c))'
  <2> DEFINE w == wire[ClientFor(c)]
  <2>1. HolderOK(c) /\ DoneOK(c) /\ CountOK(c) /\ calls'[c] = calls[c] /\ ran'[c] = ran[c] /\ ran[c] \in Nat
    BY <1>1, CallFields DEF RconInv
  <2>2. w # NoWire => wire'[ClientFor(c)] # NoWire /\ wire'[ClientFor(c)].sent = <<>> /\ wire'[ClientFor(c)].back = <<>>
                      /\ wire'[ClientFor(c)].authed = w.authed
    BY <1>2, <1>4
  <2>3. HolderOK(c)'
    BY <1>4, <2>1, <2>2, NoPacket DEF HolderOK, Greets, Clean, Serves, Holding
  <2>4. OnTheWire(c)' = 0 /\ OnTheWire(c) \in {0, 1} /\ Attempts(c)' = Attempts(c)
    <3>1. calls[c].pc = "read" => wire'[ClientFor(c)].sent # <<c>>
      BY <2>1, <2>2, NoPacket DEF HolderOK, Holding
    <3> QED BY <1>4, <2>1, <3>1 DEF OnTheWire, Attempts
  <2>5. LateOf(c)' = {} /\ Cardinality({}) = 0 /\ Cardinality(LateOf(c)) \in Nat
    BY <1>1, FS_EmptySet, LateOfFinite DEF LateOf
  <2>6. Attempts(c) \in {calls[c].route, calls[c].route - 1} /\ calls[c].route \in Nat
    BY CallFields DEF RconInv, Attempts
  <2>7. CountOK(c)'
    BY <2>1, <2>4, <2>5, <2>6 DEF CountOK
  <2> QED BY <2>1, <2>3, <2>7 DEF DoneOK
<1> QED BY <1>3, <1>6, <1>7, <1>8 DEF RconInv

LEMMA RconInvStep == RconInv /\ [RconNext]_rconVars => RconInv'
<1> SUFFICES ASSUME RconInv, [RconNext]_rconVars PROVE RconInv'
  OBVIOUS
<1>1. ASSUME NEW c \in Commands,
             \/ RconExec(c) \/ Expired(c) \/ Connect(c) \/ ReadAuth(c)
             \/ WritePacket(c) \/ ReadPacket(c) \/ TimedOut(c) \/ ServerReadsLate(c)
      PROVE  RconInv'
  BY <1>1, InvCalls, InvConnect, InvReadAuth, InvWritePacket, InvReadPacket, InvTimedOut, InvServerReadsLate
<1>2. ASSUME NEW a \in Addrs, ServerReads(a) PROVE RconInv'
  BY <1>2, InvServerReads
<1>3. CASE ServerGoesAway
  BY <1>3, InvServerGoesAway
<1>4. CASE UNCHANGED rconVars
  BY <1>4 DEF rconVars, RconInv, Types, OneHolder, HolderOK, DoneOK, CountOK, FreeOK, Holds, ClientFor,
              LateOf, OnTheWire, Attempts
<1> QED BY <1>1, <1>2, <1>3, <1>4 DEF RconNext

(* The type of the connections, with no more than one packet under way on    *)
(* each of them (Client.connect, Execute).                                   *)
THEOREM RconTypeCorrect == RconSpec => []RconTypeOK
<1>1. RconSpec => []RconInv
  BY RconInvInit, RconInvStep, PTL DEF RconSpec
<1>2. RconInv => RconTypeOK
  BY RconInvImplies
<1> QED BY <1>1, <1>2, PTL

(* However many commands share however many addresses, and whenever the      *)
(* server is slow, restarts or refuses: a caller that gets an answer gets    *)
(* that of its own command although readPacket compares no id, a connection  *)
(* that Execute keeps has nothing left on it, and the server has run a       *)
(* command no more often than rconExec has tried an address for it.          *)
THEOREM AnswersAreOnesOwn == RconSpec => []ConnectionsAreClean
<1>1. RconSpec => []RconInv
  BY RconInvInit, RconInvStep, PTL DEF RconSpec
<1>2. RconInv => ConnectionsAreClean
  BY RconInvImplies
<1> QED BY <1>1, <1>2, PTL

-----------------------------------------------------------------------------
(* ModIndex. *)

IndexRecords == [of : Nat, at : Nat, whole : BOOLEAN]

\* A list that is as old as it says, give or take one request.
Honest(l, t) == l \in IndexRecords /\ l.of <= l.at /\ l.at <= t /\ l.at - l.of <= FetchTimeout

\* A list that an update check that began at since may answer from.
FreshAt(l, since) == l # NoIndex => l.of >= since - FreshFor - FetchTimeout

WarmRecords == [pc : {"idle", "request", "body", "save", "answer"}, since : Nat,
                list : IndexLists, failed : BOOLEAN, wake : Nat]

IndexTypes ==
  /\ time \in Nat /\ restarts \in Nat
  /\ index = NoIndex \/ Honest(index, time)
  /\ stored = NoIndex \/ Honest(stored, time)
  /\ warm \in [Warmers -> WarmRecords]
  /\ answer \in [list : IndexLists, asked : Nat, failed : BOOLEAN]

\* What a build under way holds: the time of the answer while the body
\* arrives, and the list that it installed while it saves it.
BuildOK(r, t) ==
  /\ r.pc = "body" => r.list \in IndexRecords /\ r.list.of = r.since /\ r.since <= t
  /\ r.pc = "save" => Honest(r.list, t)

\* A check whose build succeeded, or which found a fresh list, still finds
\* one: nothing but a younger list takes its place.
CheckOK(r, l, t) ==
  /\ r.pc \in {"request", "body", "save", "answer"} => r.wake <= t
  /\ r.pc = "save" \/ (r.pc = "answer" /\ ~r.failed) => FreshAt(l, r.wake)

IndexInv ==
  /\ IndexTypes
  /\ \A w \in Warmers : BuildOK(warm[w], time)
  /\ CheckOK(warm["check"], index, time)
  /\ CheckedAgainstFresh

LEMMA IndexBounds == /\ IndexTTL \in Nat \ {0} /\ FreshFor \in Nat \ {0} /\ FetchTimeout \in Nat \ {0}
                     /\ RetryPause \in Nat \ {0} /\ MaxClock \in Nat \ {0}
BY ModIndexAssumption

LEMMA HonestLater ==
  ASSUME NEW l, NEW t \in Nat, NEW later \in Nat, t <= later, Honest(l, t)
  PROVE  Honest(l, later)
BY DEF Honest, IndexRecords

\* Whoever wakes, the state of a goroutine that sleeps again is a state.
LEMMA AsleepTypes == ASSUME NEW w \in Int, NEW n \in Nat, n <= w PROVE Asleep(w) \in WarmRecords
BY DEF Asleep, WarmRecords, IndexLists

LEMMA AfterWarmFacts ==
  ASSUME IndexInv, NEW w \in Warmers, NEW failed \in BOOLEAN, UNCHANGED index
  PROVE  /\ AfterWarm(w, failed) \in WarmRecords
         /\ w = "check" => /\ AfterWarm(w, failed).pc = "answer" /\ AfterWarm(w, failed).failed = failed
                           /\ AfterWarm(w, failed).wake = warm[w].wake
         /\ w # "check" => AfterWarm(w, failed).pc = "idle"
<1>1. time \in Nat /\ warm[w] \in WarmRecords /\ index' = index
  BY DEF IndexInv, IndexTypes
<1>2. CASE w = "check"
  <2>1. AfterWarm(w, failed) = [warm[w] EXCEPT !.pc = "answer", !.failed = failed]
    BY <1>2 DEF AfterWarm
  <2> QED BY <1>1, <1>2, <2>1 DEF WarmRecords
<1>3. CASE w # "check"
  <2> DEFINE due == index.at + IndexTTL
             to == IF index # NoIndex /\ due > time + RetryPause THEN due ELSE time + RetryPause
  <2>1. AfterWarm(w, failed) = Asleep(to)
    BY <1>1, <1>3 DEF AfterWarm
  <2>2. index # NoIndex => due \in Nat
    BY IndexBounds DEF IndexInv, IndexTypes, Honest, IndexRecords
  <2>3. to \in Nat
    BY <1>1, <2>2, IndexBounds
  <2>4. Asleep(to) \in WarmRecords /\ Asleep(to).pc = "idle"
    BY <2>3 DEF Asleep, WarmRecords, IndexLists
  <2> QED BY <1>3, <2>1, <2>4
<1> QED BY <1>2, <1>3

LEMMA IndexStarts == IndexInit => IndexInv
BY DEF IndexInit, IndexInv, IndexTypes, Asleep, NoAnswer, WarmRecords, IndexLists, BuildOK, CheckOK,
       CheckedAgainstFresh, Warmers

(* A goroutine decides whether to build, or sends its request.              *)
LEMMA BuildStarts ==
  ASSUME IndexInv, LoopWakes \/ AskIndex \/ \E w \in Warmers : Request(w)
  PROVE  IndexInv'
<1>1. time' = time /\ restarts' = restarts /\ index' = index /\ stored' = stored /\ answer' = answer
  BY DEF LoopWakes, AskIndex, Request
<1>2. /\ time \in Nat /\ warm["loop"] \in WarmRecords /\ warm["check"] \in WarmRecords
      /\ index = NoIndex \/ Honest(index, time)
  BY DEF IndexInv, IndexTypes, Warmers
<1> SUFFICES ASSUME TRUE
             PROVE  /\ warm' \in [Warmers -> WarmRecords]
                    /\ \A w \in Warmers : BuildOK(warm'[w], time)
                    /\ CheckOK(warm'["check"], index, time)
  BY <1>1 DEF IndexInv, IndexTypes, CheckedAgainstFresh
<1>3. CASE LoopWakes
  <2>1. \E r \in WarmRecords : /\ warm' = [warm EXCEPT !["loop"] = r] /\ r.pc \in {"idle", "request"}
    <3>1. CASE Stale(IndexTTL)
      <4>1. [warm["loop"] EXCEPT !.pc = "request"] \in WarmRecords
        BY <1>2 DEF WarmRecords
      <4> QED BY <1>2, <1>3, <3>1, <4>1 DEF LoopWakes, WarmRecords
    <3>2. CASE ~Stale(IndexTTL)
      <4>1. index.at + IndexTTL \in Nat
        BY <1>2, <3>2, IndexBounds DEF Stale, Honest, IndexRecords
      <4>2. [warm["loop"] EXCEPT !.wake = index.at + IndexTTL] \in WarmRecords
        BY <1>2, <4>1 DEF WarmRecords
      <4> QED BY <1>2, <1>3, <3>2, <4>2 DEF LoopWakes, WarmRecords
    <3> QED BY <3>1, <3>2
  <2> PICK r \in WarmRecords : /\ warm' = [warm EXCEPT !["loop"] = r] /\ r.pc \in {"idle", "request"}
    BY <2>1
  <2> QED BY <1>2 DEF IndexInv, IndexTypes, Warmers, BuildOK
<1>4. CASE AskIndex
  <2> DEFINE r == [warm["check"] EXCEPT !.pc = IF Stale(FreshFor) THEN "request" ELSE "answer",
                                        !.wake = time, !.failed = FALSE]
  <2>1. warm' = [warm EXCEPT !["check"] = r]
    BY <1>2, <1>4 DEF AskIndex, WarmRecords
  <2>2. r \in WarmRecords /\ r.pc \in {"request", "answer"} /\ r.wake = time /\ r.failed = FALSE
    BY <1>2 DEF WarmRecords
  <2>3. ~Stale(FreshFor) => FreshAt(index, time)
    BY <1>2, IndexBounds DEF Stale, Age, FreshAt, Honest, IndexRecords
  <2>4. r.pc = "answer" => ~Stale(FreshFor)
    BY <1>2 DEF WarmRecords
  <2>5. BuildOK(r, time) /\ CheckOK(r, index, time)
    BY <1>2, <2>2, <2>3, <2>4 DEF BuildOK, CheckOK
  <2> HIDE DEF r
  <2> QED BY <2>1, <2>2, <2>5 DEF IndexInv, IndexTypes, Warmers
<1>5. ASSUME NEW w \in Warmers, Request(w)
      PROVE  /\ warm' \in [Warmers -> WarmRecords]
             /\ \A v \in Warmers : BuildOK(warm'[v], time)
             /\ CheckOK(warm'["check"], index, time)
  <2> DEFINE r == [warm[w] EXCEPT !.pc = "body", !.since = time, !.list = [of |-> time, at |-> 0, whole |-> TRUE]]
  <2>1. warm' = [warm EXCEPT ![w] = r] /\ warm[w].pc = "request" /\ warm[w] \in WarmRecords
    BY <1>5 DEF Request, IndexInv, IndexTypes
  <2>2. r \in WarmRecords /\ r.pc = "body" /\ r.wake = warm[w].wake /\ BuildOK(r, time)
    <3> PICK l : l = [of |-> time, at |-> 0, whole |-> TRUE]
      OBVIOUS
    <3>1. l \in IndexRecords /\ l.of = time
      BY <1>2 DEF IndexRecords
    <3>2. r = [warm[w] EXCEPT !.pc = "body", !.since = time, !.list = l]
      OBVIOUS
    <3>3. l \in IndexLists
      BY <3>1 DEF IndexLists, IndexRecords
    <3>4. /\ r \in WarmRecords /\ r.pc = "body" /\ r.wake = warm[w].wake
          /\ r.list = l /\ r.since = time
      BY <1>2, <2>1, <3>2, <3>3 DEF WarmRecords
    <3> QED BY <1>2, <3>1, <3>4 DEF BuildOK
  <2>3. w = "check" => CheckOK(r, index, time)
    BY <2>1, <2>2 DEF IndexInv, CheckOK
  <2> HIDE DEF r
  <2> QED BY <2>1, <2>2, <2>3 DEF IndexInv, IndexTypes, Warmers
<1> QED BY <1>3, <1>4, <1>5

(* The body has arrived: the list is installed.  A list of now is fresh for *)
(* a check that began earlier, whichever goroutine installs it.             *)
LEMMA IndexIsSet ==
  ASSUME IndexInv, NEW w \in Warmers, SetIndex(w)
  PROVE  IndexInv'
<1>1. /\ time' = time /\ restarts' = restarts /\ stored' = stored /\ answer' = answer
      /\ warm[w].pc = "body" /\ time <= warm[w].since + FetchTimeout
      /\ warm' = [warm EXCEPT ![w].pc = "save", ![w].list = index']
      /\ \E b \in BOOLEAN : index' = [warm[w].list EXCEPT !.at = time, !.whole = b]
  BY DEF SetIndex
<1>2. time \in Nat /\ warm[w] \in WarmRecords /\ BuildOK(warm[w], time) /\ CheckOK(warm["check"], index, time)
  BY DEF IndexInv, IndexTypes
<1>3. warm[w].list \in IndexRecords /\ warm[w].list.of = warm[w].since /\ warm[w].since <= time /\ warm[w].since \in Nat
  BY <1>1, <1>2 DEF BuildOK, WarmRecords
<1>4. Honest(index', time) /\ index'.of = warm[w].since
  <2> PICK b \in BOOLEAN : index' = [warm[w].list EXCEPT !.at = time, !.whole = b]
    BY <1>1
  <2>1. index' \in IndexRecords /\ index'.of = warm[w].list.of /\ index'.at = time
    BY <1>2, <1>3 DEF IndexRecords
  <2> QED BY <1>1, <1>2, <1>3, <2>1, IndexBounds DEF Honest, IndexRecords
<1> PICK l : l = index'
  OBVIOUS
<1>5. PICK r : r = [warm[w] EXCEPT !.pc = "save", !.list = l]
  OBVIOUS
<1>6. warm' = [warm EXCEPT ![w] = r] /\ r \in WarmRecords /\ r.pc = "save" /\ r.list = index' /\ r.wake = warm[w].wake
  <2>1. l \in IndexLists
    BY <1>4 DEF IndexLists, Honest, IndexRecords
  <2>2. r \in WarmRecords /\ r.pc = "save" /\ r.list = l /\ r.wake = warm[w].wake
    BY <1>2, <1>5, <2>1 DEF WarmRecords
  <2>3. warm \in [Warmers -> WarmRecords]
    BY DEF IndexInv, IndexTypes
  <2>4. warm' = [warm EXCEPT ![w] = [@ EXCEPT !.pc = "save", !.list = l]]
    BY <1>1, <2>3 DEF WarmRecords
  <2> QED BY <1>5, <2>2, <2>3, <2>4
<1>7. \A since \in Nat : since <= time => FreshAt(index', since)
  BY <1>1, <1>2, <1>3, <1>4, IndexBounds DEF FreshAt
<1>8. CheckOK(warm'["check"], index', time)
  <2>1. warm'["check"].wake = warm["check"].wake /\ warm["check"].wake \in Nat
    BY <1>6, <1>2 DEF IndexInv, IndexTypes, Warmers, WarmRecords
  <2>2. warm'["check"].pc \in {"request", "body", "save", "answer"} => warm["check"].pc \in {"request", "body", "save", "answer"}
    BY <1>1, <1>6 DEF IndexInv, IndexTypes, Warmers
  <2> QED BY <1>2, <1>7, <2>1, <2>2 DEF CheckOK
<1>9. \A v \in Warmers : BuildOK(warm'[v], time)
  BY <1>4, <1>6 DEF IndexInv, IndexTypes, BuildOK
<1>10. IndexTypes'
  <2>1. warm' \in [Warmers -> WarmRecords]
    BY <1>6 DEF IndexInv, IndexTypes
  <2>2. time \in Nat /\ restarts \in Nat /\ (stored = NoIndex \/ Honest(stored, time))
    BY DEF IndexInv, IndexTypes
  <2>3. answer \in [list : IndexLists, asked : Nat, failed : BOOLEAN]
    BY DEF IndexInv, IndexTypes
  <2> QED BY <1>1, <1>4, <2>1, <2>2, <2>3 DEF IndexTypes
<1> QED BY <1>1, <1>8, <1>9, <1>10 DEF IndexInv, CheckedAgainstFresh

(* A build ends, with the list in the table or without it, or with nothing. *)
LEMMA BuildEnds ==
  ASSUME IndexInv, NEW w \in Warmers, WarmFails(w) \/ SaveModIndex(w)
  PROVE  IndexInv'
<1>1. time' = time /\ restarts' = restarts /\ index' = index /\ answer' = answer
  BY DEF WarmFails, SaveModIndex
<1>2. PICK b \in BOOLEAN : /\ warm' = [warm EXCEPT ![w] = AfterWarm(w, b)]
                           /\ b \/ warm[w].pc = "save"
                           /\ warm[w].pc \in {"request", "body", "save"}
                           /\ stored' = stored \/ (warm[w].pc = "save" /\ stored' = warm[w].list)
  BY Zenon DEF WarmFails, SaveModIndex
<1>3. stored' = NoIndex \/ Honest(stored', time)
  BY <1>2 DEF IndexInv, IndexTypes, BuildOK
<1>4. PICK r : r = AfterWarm(w, b)
  OBVIOUS
<1>5. /\ warm' = [warm EXCEPT ![w] = r] /\ r \in WarmRecords
      /\ w = "check" => r.pc = "answer" /\ r.failed = b /\ r.wake = warm[w].wake
      /\ w # "check" => r.pc = "idle"
  BY <1>1, <1>2, <1>4, AfterWarmFacts
<1>6. BuildOK(r, time)
  BY <1>5 DEF BuildOK
<1>7. w = "check" => CheckOK(r, index, time)
  BY <1>2, <1>5 DEF IndexInv, CheckOK
<1> QED BY <1>1, <1>3, <1>5, <1>6, <1>7 DEF IndexInv, IndexTypes, Warmers, CheckedAgainstFresh

(* A check answers, is over, or dies with the process; time goes on.        *)
LEMMA CheckAnswers ==
  ASSUME IndexInv, LatestVersionFromIndex \/ NextCheck \/ Restart \/ Tick
  PROVE  IndexInv'
<1>1. /\ time \in Nat /\ warm["check"] \in WarmRecords /\ CheckOK(warm["check"], index, time)
      /\ Asleep(0) \in WarmRecords /\ Asleep(0).pc = "idle"
      /\ NoAnswer \in [list : IndexLists, asked : Nat, failed : BOOLEAN] /\ NoAnswer.list = NoIndex
      /\ index \in IndexLists
  BY DEF IndexInv, IndexTypes, Warmers, Asleep, WarmRecords, IndexLists, NoAnswer, Honest, IndexRecords
<1>2. CASE LatestVersionFromIndex
  <2>1. /\ warm["check"].pc = "answer" /\ warm' = [warm EXCEPT !["check"] = Asleep(0)]
        /\ answer' = [list |-> index, asked |-> warm["check"].wake, failed |-> warm["check"].failed]
        /\ time' = time /\ restarts' = restarts /\ index' = index /\ stored' = stored
    BY <1>2 DEF LatestVersionFromIndex
  <2>2. answer' \in [list : IndexLists, asked : Nat, failed : BOOLEAN]
    BY <1>1, <2>1 DEF WarmRecords
  <2>3. CheckedAgainstFresh'
    BY <1>1, <2>1 DEF CheckedAgainstFresh, CheckOK, FreshAt
  <2>4. BuildOK(Asleep(0), time) /\ CheckOK(Asleep(0), index, time)
    BY <1>1 DEF BuildOK, CheckOK
  <2> QED BY <1>1, <2>1, <2>2, <2>3, <2>4 DEF IndexInv, IndexTypes, Warmers
<1>3. CASE NextCheck
  <2>1. answer' = NoAnswer /\ time' = time /\ restarts' = restarts /\ index' = index /\ stored' = stored /\ warm' = warm
    BY <1>3 DEF NextCheck
  <2> QED BY <1>1, <2>1 DEF IndexInv, IndexTypes, CheckedAgainstFresh
<1>4. CASE Restart
  <2>1. /\ restarts' = restarts + 1 /\ index' \in {stored, NoIndex} /\ warm' = [w \in Warmers |-> Asleep(0)]
        /\ answer' = NoAnswer /\ time' = time /\ stored' = stored
    BY <1>4 DEF Restart, LoadModIndex
  <2>2. restarts + 1 \in Nat
    BY DEF IndexInv, IndexTypes
  <2>3. BuildOK(Asleep(0), time) /\ \A l : CheckOK(Asleep(0), l, time)
    BY <1>1 DEF BuildOK, CheckOK
  <2>4. \A w \in Warmers : warm'[w] = Asleep(0)
    BY <2>1
  <2>5. index' = NoIndex \/ Honest(index', time)
    BY <2>1 DEF IndexInv, IndexTypes
  <2> QED BY <1>1, <2>1, <2>2, <2>3, <2>4, <2>5 DEF IndexInv, IndexTypes, Warmers, CheckedAgainstFresh
<1>5. CASE Tick
  <2>1. PICK n \in Nat : n = time + 1
    BY <1>1
  <2>2. /\ time' = n /\ restarts' = restarts /\ index' = index /\ stored' = stored
        /\ warm' = warm /\ answer' = answer /\ time <= n
    BY <1>1, <1>5, <2>1 DEF Tick
  <2>3. \A l : Honest(l, time) => Honest(l, n)
    BY <1>1, <2>2, HonestLater
  <2>4. \A w \in Warmers : BuildOK(warm[w], n)
    BY <1>1, <2>1, <2>3 DEF IndexInv, IndexTypes, BuildOK, WarmRecords
  <2>5. CheckOK(warm["check"], index, n)
    BY <1>1, <2>1 DEF CheckOK, WarmRecords
  <2> QED BY <2>2, <2>3, <2>4, <2>5 DEF IndexInv, IndexTypes, CheckedAgainstFresh
<1> QED BY <1>2, <1>3, <1>4, <1>5

LEMMA IndexKept == IndexInv /\ [IndexNext]_indexVars => IndexInv'
<1> SUFFICES ASSUME IndexInv, [IndexNext]_indexVars PROVE IndexInv'
  OBVIOUS
<1>1. CASE UNCHANGED indexVars
  BY <1>1 DEF indexVars, IndexInv, IndexTypes, CheckedAgainstFresh
<1> QED BY <1>1, BuildStarts, IndexIsSet, BuildEnds, CheckAnswers DEF IndexNext

(* Whichever of the two goroutines built it, saved it or lost it, and       *)
(* however often the process restarts: a list is at most one request older  *)
(* than it says, in memory and in the table, and a check whose refresh did  *)
(* not fail reads one that is fresh (RefreshIndexIfStale,                   *)
(* LatestVersionFromIndex, SaveModIndex).                                   *)
THEOREM IndexKeepsItsAge == IndexSpec => [](IndexTypeOK /\ IndexIsHonest)
<1>1. IndexInv => IndexTypeOK /\ IndexIsHonest
  <2> SUFFICES ASSUME IndexInv PROVE IndexTypeOK /\ IndexIsHonest
    OBVIOUS
  <2>1. \A l \in {index, stored} \ {NoIndex} : Honest(l, time)
    BY DEF IndexInv, IndexTypes
  <2>2. IndexTypeOK
    <3>1. index \in IndexLists /\ stored \in IndexLists
      BY DEF IndexInv, IndexTypes, Honest, IndexRecords, IndexLists
    <3> QED BY <2>1, <3>1 DEF IndexTypeOK, IndexInv, IndexTypes, Honest, WarmRecords
  <2> QED BY <2>1, <2>2 DEF IndexIsHonest, AgeIsHonest, Honest, IndexInv
<1> QED BY <1>1, IndexStarts, IndexKept, PTL DEF IndexSpec

-----------------------------------------------------------------------------
(* Capacity. *)

ValidSizes == {r \in MemorySize : Validate(r)}
GoodRows == {r \in Row : r.size = Zero \/ Validate(r.size)}
Table(f) == f = [g \in Games |-> f[g]]
Edits == [game : Games, row : GoodRows]

CapTypes ==
  /\ rows \in [Games -> GoodRows \cup {NoRow}]
  /\ tiers \in [Games -> [Tiers -> ValidSizes \cup {NoRow}]]
  /\ edit \in [Editors -> Edits \cup {NoEdit}]
  /\ boot \in [pc : {"down", "backfill", "identify", "seed", "up"}, at : Nat \ {0}, put : 0 .. Len(TierKeys)]
  /\ rendered \in [Games -> MemorySize] /\ Table(settings)

\* A boot that has begun to put a game's tiers found none of them, and has
\* put none but its own.
SeedInv ==
  boot.pc = "seed" /\ boot.put > 0 =>
    boot.at <= Len(Profiles) /\ \A t \in Tiers : tiers[ThisGame][t] \in {NoRow, Builtin[t]}

CapInv == CapTypes /\ SeedInv

LEMMA CapConstants ==
  /\ \A i \in 1 .. Len(Profiles) : Profiles[i] \in Games
  /\ DOMAIN TierKeys = 1 .. Len(TierKeys) /\ Len(TierKeys) \in Nat \ {0}
  /\ \A i \in 1 .. Len(TierKeys) : TierKeys[i] \in Tiers
  /\ \A t \in Tiers : Builtin[t] \in ValidSizes
  /\ \A r \in Sizes : Validate(r) => r \in ValidSizes
<1>1. Profiles \in Seq(Games) /\ TierKeys \in Seq(Tiers) /\ TierKeys # <<>>
  BY CapacityAssumption
<1>2. \A r \in [request : Int, limit : Int] : Validate(r) => r \in ValidSizes
  BY DEF Validate, ValidSizes, MemorySize
<1>3. \A t \in Tiers : Builtin[t] \in [request : Int, limit : Int] /\ Validate(Builtin[t])
  BY CapacityAssumption
<1>4. \A r \in Sizes : r \in [request : Int, limit : Int]
  BY CapacityAssumption
<1> QED BY <1>1, <1>2, <1>3, <1>4

LEMMA ZeroIsSize == Zero \in MemorySize /\ Zero.request = 0
BY DEF Zero, MemorySize

LEMMA EffectiveIsSize ==
  ASSUME NEW r \in GoodRows
  PROVE  EffectiveResources(r) \in ValidSizes
BY CapConstants DEF EffectiveResources, BuiltinResources, GoodRows, Row, ValidSizes

(* A backfill gives a row the size that it has without one.                 *)
LEMMA BackfilledRow ==
  ASSUME NEW r \in GoodRows, r.size.request = 0
  PROVE  /\ [r EXCEPT !.size = BuiltinResources(r.tier)] \in GoodRows
         /\ EffectiveResources([r EXCEPT !.size = BuiltinResources(r.tier)]) = EffectiveResources(r)
<1>1. r \in Row /\ r.tier \in Tiers /\ r.size = Zero
  BY DEF GoodRows, Row, Validate
<1>2. BuiltinResources(r.tier) \in ValidSizes
  BY <1>1, CapConstants DEF BuiltinResources
<1>3. PICK s : s = [r EXCEPT !.size = BuiltinResources(r.tier)]
  OBVIOUS
<1>4. s \in Row /\ s.size = BuiltinResources(r.tier) /\ s.tier = r.tier
  BY <1>1, <1>2, <1>3 DEF Row, ValidSizes
<1> QED BY <1>1, <1>2, <1>3, <1>4 DEF GoodRows, EffectiveResources, ValidSizes

LEMMA RowEdits ==
  ASSUME NEW r \in GoodRows, NEW s \in ValidSizes, NEW t \in Tiers
  PROVE  /\ [r EXCEPT !.size = s] \in GoodRows
         /\ [r EXCEPT !.tier = t] \in GoodRows
         /\ [r EXCEPT !.id = TRUE] \in GoodRows
         /\ EffectiveResources([r EXCEPT !.id = TRUE]) = EffectiveResources(r)
<1>1. r \in Row
  BY DEF GoodRows
<1> PICK a : a = [r EXCEPT !.size = s]
  OBVIOUS
<1> PICK b : b = [r EXCEPT !.tier = t]
  OBVIOUS
<1> PICK c : c = [r EXCEPT !.id = TRUE]
  OBVIOUS
<1>2. a \in Row /\ a.size = s
  BY <1>1 DEF Row, ValidSizes
<1>3. b \in Row /\ b.size = r.size
  BY <1>1 DEF Row
<1>4. c \in Row /\ c.size = r.size /\ c.tier = r.tier
  BY <1>1 DEF Row
<1>5. a \in GoodRows /\ b \in GoodRows /\ c \in GoodRows
  BY <1>2, <1>3, <1>4 DEF GoodRows, ValidSizes
<1>6. EffectiveResources(c) = EffectiveResources(r)
  BY <1>4 DEF EffectiveResources
<1> QED BY <1>5, <1>6

-----------------------------------------------------------------------------
(* What each step of a boot, and each request, does.                        *)

LEMMA CapStarts == CapacityInit => CapInv
<1> SUFFICES ASSUME CapacityInit PROVE CapInv
  OBVIOUS
<1>1. /\ settings = [g \in Games |-> NoRow]
      /\ tiers = [g \in Games |-> [t \in Tiers |-> NoRow]]
      /\ boot = Down /\ edit = [e \in Editors |-> NoEdit]
  BY DEF CapacityInit
<1>2. PICK t \in Tiers, old \in SUBSET Legacy :
         /\ rows = [g \in Games |-> IF g \in old THEN [tier |-> t, size |-> Zero, id |-> FALSE] ELSE NoRow]
         /\ rendered = [g \in Games |-> IF g \in old THEN Builtin[t] ELSE Zero]
  BY DEF CapacityInit
<1>3. [tier |-> t, size |-> Zero, id |-> FALSE] \in GoodRows
  BY ZeroIsSize DEF GoodRows, Row
<1>4. rows \in [Games -> GoodRows \cup {NoRow}]
  BY <1>2, <1>3
<1>5. rendered \in [Games -> MemorySize]
  BY <1>2, ZeroIsSize, CapConstants DEF ValidSizes
<1>6. boot \in [pc : {"down", "backfill", "identify", "seed", "up"}, at : Nat \ {0}, put : 0 .. Len(TierKeys)]
  BY <1>1, CapConstants DEF Down
<1> QED BY <1>1, <1>4, <1>5, <1>6 DEF CapInv, CapTypes, Table, SeedInv, Down

BootStates == [pc : {"down", "backfill", "identify", "seed", "up"}, at : Nat \ {0}, put : 0 .. Len(TierKeys)]

\* The boot goes on to another game or stage, or begins or ends.
BootGoesOn == boot' \in BootStates /\ (boot'.pc = "seed" => boot'.put = 0)

LEMMA NextGameMoves == ASSUME CapInv PROVE NextGame \in BootStates /\ NextGame.put = 0 /\ NextGame.pc = boot.pc
<1>1. boot \in BootStates
  BY DEF CapInv, CapTypes, BootStates
<1>2. boot.at + 1 \in Nat \ {0}
  BY <1>1 DEF BootStates
<1> PICK n \in Nat \ {0} : n = boot.at + 1
  BY <1>2
<1> PICK b : b = [boot EXCEPT !.at = n, !.put = 0]
  OBVIOUS
<1>3. NextGame = b
  BY DEF NextGame
<1>4. 0 \in 0 .. Len(TierKeys)
  BY CapConstants
<1>5. b \in BootStates /\ b.put = 0 /\ b.pc = boot.pc
  BY <1>1, <1>4 DEF BootStates
<1> QED BY <1>3, <1>5

LEMMA AtGameFacts ==
  ASSUME CapInv, NEW pc, AtGame(pc)
  PROVE  /\ boot.pc = pc /\ boot.at <= Len(Profiles) /\ ThisGame \in Games /\ boot \in BootStates
<1>1. boot \in BootStates
  BY DEF CapInv, CapTypes, BootStates
<1>2. boot.pc = pc /\ boot.at <= Len(Profiles) /\ boot.at \in 1 .. Len(Profiles)
  BY <1>1, CapacityAssumption DEF AtGame, BootStates
<1> QED BY <1>1, <1>2, CapConstants DEF ThisGame

Quiet == UNCHANGED <<rendered, edit, rows, tiers, settings, torn>>

(* The boot begins, credits incidents, or goes on to its next stage; the    *)
(* process stops with edits under way.                                      *)
LEMMA OpenFacts == ASSUME CapInv, Open PROVE BootGoesOn /\ Quiet /\ boot.pc = "down" /\ boot'.pc = "backfill"
BY CapConstants DEF Open, BootGoesOn, Quiet, Down, BootStates

LEMMA CreditFacts == ASSUME CapInv, CreditIncidents PROVE BootGoesOn /\ Quiet /\ boot.pc = "identify" /\ boot'.pc = "identify"
<1>1. boot.pc = "identify"
  BY AtGameFacts DEF CreditIncidents
<1>2. boot' = NextGame /\ Quiet
  BY DEF CreditIncidents, Quiet
<1> QED BY <1>1, <1>2, NextGameMoves DEF BootGoesOn

LEMMA AdvanceFacts == ASSUME CapInv, Advance PROVE BootGoesOn /\ Quiet /\ ~Up
<1>1. Quiet
  BY DEF Advance, Quiet
<1>2. PICK from \in {"backfill", "identify", "seed"}, to \in {"identify", "seed", "up"} : Stage(from, to)
  BY DEF Advance
<1>3. boot.pc = from /\ boot' = [pc |-> to, at |-> 1, put |-> 0]
  BY <1>2 DEF Stage
<1> QED BY <1>1, <1>3, CapConstants DEF BootGoesOn, BootStates, Up

LEMMA StopFacts ==
  ASSUME CapInv, Stop
  PROVE  /\ BootGoesOn /\ boot'.pc = "down" /\ UNCHANGED <<rendered, rows, tiers, settings>>
         /\ edit' = [e \in Editors |-> NoEdit]
         /\ torn' = torn \cup {edit[e].game : e \in {x \in Editors : edit[x] # NoEdit}}
BY CapConstants DEF Stop, BootGoesOn, Down, BootStates

(* The two backfills change one world's row, whose size stays what it was.  *)
SameSize(r, s) == r = NoRow \/ EffectiveResources(s) = EffectiveResources(r)

LEMMA BackfillFacts ==
  ASSUME CapInv, BackfillResources \/ AssignWorldID
  PROVE  /\ boot' \in BootStates /\ boot'.pc = boot.pc /\ boot.pc \in {"backfill", "identify"}
         /\ UNCHANGED <<rendered, edit, tiers, settings, torn>>
         /\ \E g \in Games, r \in GoodRows \cup {NoRow} : rows' = [rows EXCEPT ![g] = r] /\ SameSize(rows[g], r)
                                                          /\ (rows[g] = NoRow => r = NoRow)
<1>1. rows \in [Games -> GoodRows \cup {NoRow}]
  BY DEF CapInv, CapTypes
<1>2. CASE BackfillResources
  <2>1. ThisGame \in Games /\ boot.pc = "backfill" /\ boot' = NextGame /\ boot \in BootStates
    BY <1>2, AtGameFacts DEF BackfillResources
  <2> PICK r : r = rows[ThisGame]
    OBVIOUS
  <2> DEFINE s == IF r # NoRow /\ r.size.request = 0 /\ ThisGame \in Legacy
                  THEN [r EXCEPT !.size = BuiltinResources(r.tier)] ELSE r
  <2>2. rows' = [rows EXCEPT ![ThisGame] = s]
    BY <1>1, <1>2, <2>1 DEF BackfillResources
  <2>3. r \in GoodRows \cup {NoRow}
    BY <1>1, <2>1
  <2>4. s \in GoodRows \cup {NoRow} /\ SameSize(r, s) /\ (r = NoRow => s = NoRow)
    BY <2>3, BackfilledRow DEF SameSize
  <2>5. UNCHANGED <<rendered, edit, tiers, settings, torn>>
    BY <1>2 DEF BackfillResources
  <2> HIDE DEF s
  <2> QED BY <2>1, <2>2, <2>4, <2>5, NextGameMoves
<1>3. CASE AssignWorldID
  <2>1. ThisGame \in Games /\ boot.pc = "identify" /\ boot \in BootStates
    BY <1>3, AtGameFacts DEF AssignWorldID
  <2>2. UNCHANGED <<rendered, edit, tiers, settings, torn>>
    BY <1>3 DEF AssignWorldID
  <2> PICK r : r = rows[ThisGame]
    OBVIOUS
  <2>3. r \in GoodRows \cup {NoRow}
    BY <1>1, <2>1
  <2>4. CASE r # NoRow /\ ~r.id
    <3>1. rows' = [rows EXCEPT ![ThisGame].id = TRUE] /\ boot' = [boot EXCEPT !.put = 1]
      BY <1>3, <2>4 DEF AssignWorldID
    <3>2. boot' \in BootStates /\ boot'.pc = boot.pc
      BY <2>1, <3>1, CapConstants DEF BootStates
    <3> PICK s : s = [r EXCEPT !.id = TRUE]
      OBVIOUS
    <3>3. rows' = [rows EXCEPT ![ThisGame] = s]
      BY <1>1, <2>1, <3>1
    <3>4. \E z \in ValidSizes : TRUE
      BY CapConstants
    <3>5. s \in GoodRows /\ EffectiveResources(s) = EffectiveResources(r)
      BY <2>3, <2>4, <3>4, RowEdits DEF GoodRows, Row
    <3> QED BY <2>1, <2>2, <2>4, <3>2, <3>3, <3>5 DEF SameSize
  <2>5. CASE ~(r # NoRow /\ ~r.id)
    <3>1. rows' = rows /\ boot' = NextGame
      BY <1>3, <2>5 DEF AssignWorldID
    <3>2. rows' = [rows EXCEPT ![ThisGame] = r]
      BY <1>1, <2>1, <3>1
    <3> QED BY <2>1, <2>2, <2>3, <3>1, <3>2, NextGameMoves DEF SameSize
  <2> QED BY <2>4, <2>5
<1> QED BY <1>2, <1>3

(* Seeding writes settings where there are none, and tiers where it has     *)
(* found none.                                                              *)
LEMMA SeedSettingsFacts ==
  ASSUME CapInv, SeedSettings
  PROVE  /\ UNCHANGED <<rendered, edit, rows, tiers, torn>>
         /\ boot.pc = "seed" /\ boot'.pc = "seed" /\ boot' \in BootStates
         /\ ThisGame \in Games
         /\ \/ boot'.put = 0
            \/ /\ boot'.at = boot.at /\ boot.at <= Len(Profiles)
               /\ \A t \in Tiers : tiers[ThisGame][t] = NoRow
         /\ \/ UNCHANGED settings
            \/ settings[ThisGame] = NoRow /\ \E s : settings' = [settings EXCEPT ![ThisGame] = s]
<1>1. UNCHANGED <<rendered, edit, rows, tiers, torn>>
  BY DEF SeedSettings
<1>2. boot.pc = "seed" /\ ThisGame \in Games /\ boot \in BootStates /\ boot.at <= Len(Profiles)
  BY AtGameFacts DEF SeedSettings
<1>3. \/ UNCHANGED settings
      \/ settings[ThisGame] = NoRow /\ \E s : settings' = [settings EXCEPT ![ThisGame] = s]
  BY DEF SeedSettings, GetGameSettings, PutGameSettings
<1>4. CASE ListTiers(ThisGame) # {}
  <2>1. boot' = NextGame
    BY <1>4 DEF SeedSettings
  <2> QED BY <1>1, <1>2, <1>3, <2>1, NextGameMoves
<1>5. CASE ListTiers(ThisGame) = {}
  <2>1. boot' = [boot EXCEPT !.put = 1]
    BY <1>5 DEF SeedSettings
  <2>2. boot' \in BootStates /\ boot'.pc = boot.pc /\ boot'.at = boot.at
    BY <1>2, <2>1, CapConstants DEF BootStates
  <2>3. \A t \in Tiers : tiers[ThisGame][t] = NoRow
    BY <1>5 DEF ListTiers
  <2> QED BY <1>1, <1>2, <1>3, <2>2, <2>3
<1> QED BY <1>4, <1>5

LEMMA SeedTierFacts ==
  ASSUME CapInv, SeedTier
  PROVE  /\ UNCHANGED <<rendered, edit, rows, settings, torn>>
         /\ boot.pc = "seed" /\ boot'.pc = "seed" /\ boot' \in BootStates /\ boot.put > 0
         /\ ThisGame \in Games /\ boot.at <= Len(Profiles)
         /\ boot'.put = 0 \/ boot'.at = boot.at
         /\ \E t \in Tiers : tiers' = [tiers EXCEPT ![ThisGame][t] = Builtin[t]]
<1>1. UNCHANGED <<rendered, edit, rows, settings, torn>> /\ boot.put > 0
  BY DEF SeedTier
<1>2. boot.pc = "seed" /\ ThisGame \in Games /\ boot \in BootStates /\ boot.at <= Len(Profiles)
  BY AtGameFacts DEF SeedTier
<1>3. boot.put \in 1 .. Len(TierKeys) /\ TierKeys[boot.put] \in Tiers
  BY <1>1, <1>2, CapConstants DEF BootStates
<1>4. DefaultTiersFor[boot.put] = [key |-> TierKeys[boot.put], size |-> Builtin[TierKeys[boot.put]]]
  BY <1>3, CapConstants DEF DefaultTiersFor, BuiltinResources
<1>5. Len(DefaultTiersFor) = Len(TierKeys)
  <2>1. DefaultTiersFor = [i \in 1 .. Len(TierKeys) |-> [key |-> TierKeys[i], size |-> BuiltinResources(TierKeys[i])]]
    BY CapConstants DEF DefaultTiersFor
  <2> QED BY <2>1, CapConstants
<1>6. tiers' = [tiers EXCEPT ![ThisGame][TierKeys[boot.put]] = Builtin[TierKeys[boot.put]]]
  <2>1. /\ DefaultTiersFor[boot.put].key = TierKeys[boot.put]
        /\ DefaultTiersFor[boot.put].size = Builtin[TierKeys[boot.put]]
    BY <1>4
  <2>2. PutTier(ThisGame, DefaultTiersFor[boot.put].key, DefaultTiersFor[boot.put].size)
    BY DEF SeedTier
  <2> QED BY <2>1, <2>2 DEF PutTier
<1>7. CASE boot.put = Len(DefaultTiersFor)
  <2>1. boot' = NextGame
    BY <1>7 DEF SeedTier
  <2> QED BY <1>1, <1>2, <1>3, <1>6, <2>1, NextGameMoves
<1>8. CASE boot.put # Len(DefaultTiersFor)
  <2>1. boot' = [boot EXCEPT !.put = boot.put + 1]
    BY <1>8 DEF SeedTier
  <2>2. boot.put + 1 \in 0 .. Len(TierKeys)
    BY <1>3, <1>5, <1>8, CapConstants
  <2>3. boot' \in BootStates /\ boot'.pc = boot.pc /\ boot'.at = boot.at
    BY <1>2, <2>1, <2>2 DEF BootStates
  <2> QED BY <1>1, <1>2, <1>3, <1>6, <2>3
<1> QED BY <1>7, <1>8

(* An administrator's forms write one game's settings, or one valid tier.   *)
LEMMA FormFacts ==
  ASSUME CapInv, NEW g \in Games, SaveSettings(g) \/ SaveTier(g)
  PROVE  /\ Up /\ UNCHANGED <<rendered, edit, rows, boot, torn>>
         /\ \/ UNCHANGED tiers /\ \E s : settings' = [settings EXCEPT ![g] = s]
            \/ UNCHANGED settings /\ \E t \in Tiers, r \in ValidSizes : tiers' = [tiers EXCEPT ![g][t] = r]
<1>1. CASE SaveSettings(g)
  BY <1>1 DEF SaveSettings, PutGameSettings, Serve
<1>2. CASE SaveTier(g)
  BY <1>2, CapConstants DEF SaveTier, PutTier, Serve
<1> QED BY <1>1, <1>2

(* An edit renders a row that it has read and changed, to save it later.    *)
LEMMA RenderFacts ==
  ASSUME CapInv, NEW e \in Editors, NEW g \in Games, SaveResources(e, g) \/ ApplyTier(e, g) \/ UpdateSettings(e, g)
  PROVE  /\ Up /\ UNCHANGED <<rows, tiers, settings, boot, torn>>
         /\ rows[g] # NoRow /\ edit[e] = NoEdit
         /\ \E r \in GoodRows : /\ rendered' = [rendered EXCEPT ![g] = EffectiveResources(r)]
                                /\ edit' = [edit EXCEPT ![e] = [game |-> g, row |-> r]]
<1>1. rows[g] # NoRow /\ rows[g] \in GoodRows
  BY DEF CapInv, CapTypes, SaveResources, ApplyTier, UpdateSettings
<1>2. rows[g].tier \in Tiers
  BY <1>1 DEF GoodRows, Row
<1>3. \E r \in GoodRows : Render(e, g, r)
  <2>1. CASE SaveResources(e, g)
    BY <1>1, <1>2, <2>1, RowEdits, CapConstants DEF SaveResources, CheckResources
  <2>2. CASE ApplyTier(e, g)
    <3>1. tiers[g][rows[g].tier] \in ValidSizes
      BY <1>2, <2>2 DEF ApplyTier, ListTiers, CapInv, CapTypes
    <3> QED BY <1>1, <1>2, <2>2, <3>1, RowEdits DEF ApplyTier
  <2>3. CASE UpdateSettings(e, g)
    <3>1. \E s \in ValidSizes : TRUE
      BY <1>2, CapConstants
    <3> QED BY <1>1, <2>3, <3>1, RowEdits DEF UpdateSettings
  <2> QED BY <2>1, <2>2, <2>3
<1> QED BY <1>1, <1>3 DEF Render, Serve

LEMMA UpsertFacts ==
  ASSUME CapInv, NEW e \in Editors, Upsert(e)
  PROVE  /\ Up /\ UNCHANGED <<rendered, tiers, settings, boot>>
         /\ edit[e] \in Edits /\ edit[e] # NoEdit /\ edit' = [edit EXCEPT ![e] = NoEdit]
         /\ \/ rows' = [rows EXCEPT ![edit[e].game] = edit[e].row] /\ torn' = torn \ {edit[e].game}
            \/ UNCHANGED rows /\ torn' = torn \cup {edit[e].game}
BY DEF Upsert, CapInv, CapTypes

LEMMA CreateFacts ==
  ASSUME CapInv, NEW g \in Games, Create(g)
  PROVE  /\ Up /\ UNCHANGED <<edit, tiers, settings, boot, torn>> /\ rows[g] = NoRow
         /\ \E r \in GoodRows : /\ rows' = [rows EXCEPT ![g] = r]
                                /\ rendered' = [rendered EXCEPT ![g] = EffectiveResources(r)]
<1>1. Up /\ UNCHANGED <<edit, tiers, settings, boot, torn>> /\ rows[g] = NoRow
  BY DEF Create, Serve
<1>2. PICK t \in Tiers : /\ rows' = [rows EXCEPT ![g] = [tier |-> t, size |-> Zero, id |-> TRUE]]
                         /\ rendered' = [rendered EXCEPT ![g] = BuiltinResources(t)]
  BY DEF Create
<1> PICK r : r = [tier |-> t, size |-> Zero, id |-> TRUE]
  OBVIOUS
<1>3. r \in GoodRows /\ r.size = Zero /\ r.tier = t
  BY ZeroIsSize DEF GoodRows, Row
<1>4. EffectiveResources(r) = BuiltinResources(t)
  BY <1>3 DEF EffectiveResources
<1> QED BY <1>1, <1>2, <1>3, <1>4

-----------------------------------------------------------------------------
(* A step changes the rows, sizes and edits only in the ways listed.        *)

LEMMA CapKept == CapInv /\ [CapacityNext]_capVars => CapInv'
<1> SUFFICES ASSUME CapInv, [CapacityNext]_capVars PROVE CapInv'
  OBVIOUS
<1> USE DEF BootStates
<1>1. CapTypes /\ SeedInv
  BY DEF CapInv
<1>2. ASSUME BootGoesOn, Quiet PROVE CapInv'
  BY <1>1, <1>2 DEF BootGoesOn, Quiet, CapInv, CapTypes, SeedInv, Table
<1>3. ASSUME Stop PROVE CapInv'
  <2>1. edit' \in [Editors -> Edits \cup {NoEdit}]
    BY <1>3, StopFacts
  <2> QED BY <1>1, <1>3, <2>1, StopFacts DEF BootGoesOn, CapInv, CapTypes, SeedInv, Table
<1>4. ASSUME BackfillResources \/ AssignWorldID PROVE CapInv'
  <2>1. rows' \in [Games -> GoodRows \cup {NoRow}]
    BY <1>1, <1>4, BackfillFacts DEF CapTypes
  <2>2. SeedInv' /\ boot' \in BootStates
    BY <1>4, BackfillFacts DEF SeedInv
  <2> QED BY <1>1, <1>4, <2>1, <2>2, BackfillFacts DEF CapInv, CapTypes, Table
<1>5. ASSUME SeedSettings PROVE CapInv'
  <2>1. Table(settings)'
    BY <1>1, <1>5, SeedSettingsFacts DEF CapTypes, Table
  <2>2. boot' \in BootStates /\ tiers' = tiers /\ UNCHANGED <<rendered, edit, rows>>
    BY <1>5, SeedSettingsFacts
  <2>3. SeedInv'
    <3>1. CASE boot'.put = 0
      BY <3>1 DEF SeedInv
    <3>2. CASE boot'.at = boot.at /\ boot.at <= Len(Profiles) /\ \A t \in Tiers : tiers[ThisGame][t] = NoRow
      BY <2>2, <3>2 DEF SeedInv, ThisGame
    <3> QED BY <1>5, <3>1, <3>2, SeedSettingsFacts
  <2> QED BY <1>1, <2>1, <2>2, <2>3 DEF CapInv, CapTypes
<1>6. ASSUME SeedTier PROVE CapInv'
  <2> PICK t \in Tiers : tiers' = [tiers EXCEPT ![ThisGame][t] = Builtin[t]]
    BY <1>6, SeedTierFacts
  <2>1. Builtin[t] \in ValidSizes /\ ThisGame \in Games
    BY <1>6, SeedTierFacts, CapConstants
  <2>2. tiers' \in [Games -> [Tiers -> ValidSizes \cup {NoRow}]]
    BY <1>1, <2>1 DEF CapTypes
  <2>3. \A u \in Tiers : tiers'[ThisGame][u] \in {NoRow, Builtin[u]}
    BY <1>1, <1>6, <2>1, SeedTierFacts DEF CapTypes, SeedInv
  <2>4. SeedInv'
    <3>1. CASE boot'.put = 0
      BY <3>1 DEF SeedInv
    <3>2. CASE boot'.at = boot.at
      BY <1>6, <2>3, <3>2, SeedTierFacts DEF SeedInv, ThisGame
    <3> QED BY <1>6, <3>1, <3>2, SeedTierFacts
  <2> QED BY <1>1, <1>6, <2>2, <2>4, SeedTierFacts DEF CapInv, CapTypes, Table
<1>7. ASSUME NEW g \in Games, SaveSettings(g) \/ SaveTier(g) PROVE CapInv'
  <2>1. tiers' \in [Games -> [Tiers -> ValidSizes \cup {NoRow}]] /\ Table(settings)'
    <3>1. CASE UNCHANGED tiers /\ \E s : settings' = [settings EXCEPT ![g] = s]
      BY <1>1, <3>1 DEF CapTypes, Table
    <3>2. CASE UNCHANGED settings /\ \E t \in Tiers, r \in ValidSizes : tiers' = [tiers EXCEPT ![g][t] = r]
      BY <1>1, <3>2 DEF CapTypes, Table
    <3> QED BY <1>7, <3>1, <3>2, FormFacts
  <2> QED BY <1>1, <1>7, <2>1, FormFacts DEF CapInv, CapTypes, SeedInv, Up
<1>8. ASSUME NEW e \in Editors, NEW g \in Games, SaveResources(e, g) \/ ApplyTier(e, g) \/ UpdateSettings(e, g)
      PROVE  CapInv'
  <2> PICK r \in GoodRows : /\ rendered' = [rendered EXCEPT ![g] = EffectiveResources(r)]
                            /\ edit' = [edit EXCEPT ![e] = [game |-> g, row |-> r]]
    BY <1>8, RenderFacts
  <2>1. EffectiveResources(r) \in MemorySize /\ [game |-> g, row |-> r] \in Edits
    BY EffectiveIsSize DEF ValidSizes, Edits
  <2>2. rendered' \in [Games -> MemorySize] /\ edit' \in [Editors -> Edits \cup {NoEdit}]
    BY <1>1, <2>1 DEF CapTypes
  <2> QED BY <1>1, <1>8, <2>2, RenderFacts DEF CapInv, CapTypes, SeedInv, Table, Up
<1>9. ASSUME NEW e \in Editors, Upsert(e) PROVE CapInv'
  <2>1. rows' \in [Games -> GoodRows \cup {NoRow}]
    BY <1>1, <1>9, UpsertFacts DEF CapTypes, Edits
  <2>2. edit' \in [Editors -> Edits \cup {NoEdit}]
    BY <1>1, <1>9, UpsertFacts DEF CapTypes
  <2> QED BY <1>1, <1>9, <2>1, <2>2, UpsertFacts DEF CapInv, CapTypes, SeedInv, Table, Up
<1>10. ASSUME NEW g \in Games, Create(g) PROVE CapInv'
  <2> PICK r \in GoodRows : /\ rows' = [rows EXCEPT ![g] = r]
                            /\ rendered' = [rendered EXCEPT ![g] = EffectiveResources(r)]
    BY <1>10, CreateFacts
  <2>1. EffectiveResources(r) \in MemorySize
    BY EffectiveIsSize DEF ValidSizes
  <2>2. rendered' \in [Games -> MemorySize] /\ rows' \in [Games -> GoodRows \cup {NoRow}]
    BY <1>1, <2>1 DEF CapTypes
  <2> QED BY <1>1, <1>10, <2>2, CreateFacts DEF CapInv, CapTypes, SeedInv, Table, Up
<1>11. CASE UNCHANGED capVars
  BY <1>1, <1>11 DEF capVars, CapInv, CapTypes, SeedInv, Table, ThisGame
<1> QED BY <1>2, <1>3, <1>4, <1>5, <1>6, <1>7, <1>8, <1>9, <1>10, <1>11, OpenFacts, CreditFacts, AdvanceFacts
        DEF CapacityNext

LEMMA CapTyped == CapInv => CapacityTypeOK /\ SizesAreValid
<1> SUFFICES ASSUME CapInv PROVE CapacityTypeOK /\ SizesAreValid
  OBVIOUS
<1>1. \A g \in Games : rows[g] \in GoodRows \cup {NoRow} /\ \A t \in Tiers : tiers[g][t] \in ValidSizes \cup {NoRow}
  BY DEF CapInv, CapTypes
<1>2. \A e \in Editors : edit[e] = NoEdit \/ edit[e].row \in Row
  BY DEF CapInv, CapTypes, Edits, GoodRows
<1> QED BY <1>1, <1>2 DEF CapacityTypeOK, SizesAreValid, GoodRows, ValidSizes

(* What a boot does to settings and tiers, and what a step that is no edit  *)
(* of a world does to it.                                                   *)
SeedStep ==
  ~Up => \A g \in Games : /\ settings[g] # NoRow => settings'[g] = settings[g]
                          /\ \A t \in Tiers : tiers[g][t] # NoRow => tiers'[g][t] = tiers[g][t]

ResizeStep ==
  \A g \in Games : rows[g] # NoRow =>
    \/ EffectiveResources(rows'[g]) = EffectiveResources(rows[g]) /\ rendered'[g] = rendered[g]
    \/ \E e \in Editors : edit[e].game = g \/ edit'[e].game = g

LEMMA SeedSteps == CapInv /\ [CapacityNext]_capVars => SeedStep
<1> SUFFICES ASSUME CapInv, [CapacityNext]_capVars, ~Up PROVE SeedStep
  BY DEF SeedStep
<1>1. CapTypes /\ SeedInv
  BY DEF CapInv
<1>2. CASE UNCHANGED <<settings, tiers>>
  BY <1>2 DEF SeedStep
<1>3. CASE SeedSettings
  BY <1>1, <1>3, SeedSettingsFacts DEF SeedStep, CapTypes, Table
<1>4. CASE SeedTier
  <2> PICK t \in Tiers : tiers' = [tiers EXCEPT ![ThisGame][t] = Builtin[t]]
    BY <1>4, SeedTierFacts
  <2>1. tiers[ThisGame][t] \in {NoRow, Builtin[t]} /\ ThisGame \in Games
    BY <1>1, <1>4, SeedTierFacts DEF SeedInv
  <2>2. \A g \in Games, u \in Tiers : tiers[g][u] # NoRow => tiers'[g][u] = tiers[g][u]
    BY <1>1, <2>1 DEF CapTypes
  <2> QED BY <1>4, <2>2, SeedTierFacts DEF SeedStep
<1>5. \/ UNCHANGED <<settings, tiers>> \/ SeedSettings \/ SeedTier
  BY OpenFacts, CreditFacts, AdvanceFacts, StopFacts, BackfillFacts, FormFacts, RenderFacts, UpsertFacts, CreateFacts
     DEF CapacityNext, capVars, Quiet
<1> QED BY <1>2, <1>3, <1>4, <1>5

LEMMA ResizeSteps == CapInv /\ [CapacityNext]_capVars => ResizeStep
<1> SUFFICES ASSUME CapInv, [CapacityNext]_capVars PROVE ResizeStep
  OBVIOUS
<1>1. CapTypes
  BY DEF CapInv
<1>2. CASE UNCHANGED <<rows, rendered>>
  BY <1>2 DEF ResizeStep
<1>3. CASE BackfillResources \/ AssignWorldID
  BY <1>1, <1>3, BackfillFacts DEF ResizeStep, CapTypes, SameSize
<1>4. ASSUME NEW e \in Editors, NEW g \in Games, SaveResources(e, g) \/ ApplyTier(e, g) \/ UpdateSettings(e, g)
      PROVE  ResizeStep
  <2>1. edit'[e].game = g /\ rows' = rows /\ \A h \in Games \ {g} : rendered'[h] = rendered[h]
    BY <1>1, <1>4, RenderFacts DEF CapTypes
  <2> QED BY <2>1 DEF ResizeStep
<1>5. ASSUME NEW e \in Editors, Upsert(e) PROVE ResizeStep
  <2>1. rendered' = rendered /\ \A h \in Games : h # edit[e].game => rows'[h] = rows[h]
    BY <1>1, <1>5, UpsertFacts DEF CapTypes
  <2> QED BY <2>1 DEF ResizeStep
<1>6. ASSUME NEW g \in Games, Create(g) PROVE ResizeStep
  <2>1. rows[g] = NoRow /\ \A h \in Games \ {g} : rows'[h] = rows[h] /\ rendered'[h] = rendered[h]
    BY <1>1, <1>6, CreateFacts DEF CapTypes
  <2> QED BY <2>1 DEF ResizeStep
<1>7. \/ UNCHANGED <<rows, rendered>>
      \/ BackfillResources \/ AssignWorldID
      \/ \E g \in Games : Create(g)
      \/ \E e \in Editors, g \in Games : SaveResources(e, g) \/ ApplyTier(e, g) \/ UpdateSettings(e, g)
      \/ \E e \in Editors : Upsert(e)
  BY OpenFacts, CreditFacts, AdvanceFacts, StopFacts, SeedSettingsFacts, SeedTierFacts, FormFacts
     DEF CapacityNext, capVars, Quiet
<1> QED BY <1>2, <1>3, <1>4, <1>5, <1>6, <1>7

(* No boot, however often it was cut off, overwrites a limit, ceiling or    *)
(* tier that an operator has saved; sizes are valid, and a world's size is  *)
(* changed by nothing but an edit of that world (Seed, BackfillResources,   *)
(* AssignWorldID, SaveTier).                                                *)
THEOREM SavedChoicesStay ==
  CapacitySpec => []CapacityTypeOK /\ []SizesAreValid /\ SeedKeepsEdits /\ OnlyAskedResizes
<1>1. CapInv /\ [CapacityNext]_capVars => [SeedStep]_capVars /\ [ResizeStep]_capVars
  BY SeedSteps, ResizeSteps
<1>2. [][SeedStep]_capVars <=> SeedKeepsEdits
  BY DEF SeedStep, SeedKeepsEdits
<1>3. [][ResizeStep]_capVars <=> OnlyAskedResizes
  BY DEF ResizeStep, OnlyAskedResizes
<1> QED BY <1>1, <1>2, <1>3, CapStarts, CapKept, CapTyped, PTL DEF CapacitySpec

-----------------------------------------------------------------------------
(* With one editor, what is rendered is what is, or is about to be, on the  *)
(* row.                                                                     *)

OneEditor == \A e, f \in Editors : e = f

EditInv ==
  \A e \in Editors : edit[e] # NoEdit =>
    Up /\ rows[edit[e].game] # NoRow /\ rendered[edit[e].game] = EffectiveResources(edit[e].row)

Agreed(g) == EffectiveResources(rows[g]) = rendered[g]
CountedInv == CapInv /\ EditInv /\ CountedIsRendered

LEMMA CountedStarts == CapacityInit => CountedInv
<1> SUFFICES ASSUME CapacityInit PROVE EditInv /\ CountedIsRendered
  BY CapStarts DEF CountedInv
<1>1. EditInv
  BY DEF CapacityInit, EditInv
<1>2. PICK t \in Tiers, old \in SUBSET Legacy :
         /\ rows = [g \in Games |-> IF g \in old THEN [tier |-> t, size |-> Zero, id |-> FALSE] ELSE NoRow]
         /\ rendered = [g \in Games |-> IF g \in old THEN Builtin[t] ELSE Zero]
  BY DEF CapacityInit
<1> PICK r : r = [tier |-> t, size |-> Zero, id |-> FALSE]
  OBVIOUS
<1>3. EffectiveResources(r) = Builtin[t]
  BY DEF EffectiveResources, BuiltinResources
<1>4. \A g \in Games : rows[g] # NoRow => EffectiveResources(rows[g]) = rendered[g]
  <2> SUFFICES ASSUME NEW g \in Games, rows[g] # NoRow PROVE EffectiveResources(rows[g]) = rendered[g]
    OBVIOUS
  <2>1. g \in old
    BY <1>2
  <2> QED BY <1>2, <1>3, <2>1
<1> QED BY <1>1, <1>4 DEF CountedIsRendered

LEMMA CountedIdle ==
  ASSUME CountedInv, UNCHANGED <<rows, rendered, edit, torn>>, ~Up \/ UNCHANGED boot
  PROVE  EditInv' /\ CountedIsRendered'
BY DEF CountedInv, EditInv, CountedIsRendered, Up

LEMMA CountedStop == ASSUME CountedInv, Stop PROVE EditInv' /\ CountedIsRendered'
<1>1. /\ UNCHANGED <<rendered, rows>> /\ edit' = [e \in Editors |-> NoEdit]
      /\ torn' = torn \cup {edit[e].game : e \in {x \in Editors : edit[x] # NoEdit}}
  BY StopFacts DEF CountedInv
<1>2. EditInv'
  BY <1>1 DEF EditInv
<1> SUFFICES ASSUME NEW g \in Games, rows[g] # NoRow, g \notin torn', \A e \in Editors : NoEdit.game # g
             PROVE  EffectiveResources(rows[g]) = rendered[g]
  BY <1>1, <1>2 DEF CountedIsRendered
<1>3. \A e \in Editors : edit[e].game # g
  BY <1>1
<1>4. g \notin torn
  BY <1>1
<1> QED BY <1>3, <1>4 DEF CountedInv, CountedIsRendered

LEMMA CountedBackfill ==
  ASSUME CountedInv, BackfillResources \/ AssignWorldID
  PROVE  EditInv' /\ CountedIsRendered'
<1>1. CapInv /\ CapTypes
  BY DEF CountedInv, CapInv
<1>2. UNCHANGED <<rendered, edit, torn>> /\ ~Up
  BY <1>1, BackfillFacts DEF Up
<1>3. EditInv'
  BY <1>2 DEF CountedInv, EditInv
<1> PICK h \in Games, r \in GoodRows \cup {NoRow} :
       rows' = [rows EXCEPT ![h] = r] /\ SameSize(rows[h], r) /\ (rows[h] = NoRow => r = NoRow)
  BY <1>1, BackfillFacts
<1>4. ASSUME NEW g \in Games, rows'[g] # NoRow
      PROVE  rows[g] # NoRow /\ EffectiveResources(rows'[g]) = EffectiveResources(rows[g])
  BY <1>1, <1>4 DEF CapTypes, SameSize
<1> QED BY <1>2, <1>3, <1>4 DEF CountedInv, CountedIsRendered

LEMMA CountedRender ==
  ASSUME CountedInv, OneEditor, NEW e \in Editors, NEW g \in Games,
         SaveResources(e, g) \/ ApplyTier(e, g) \/ UpdateSettings(e, g)
  PROVE  EditInv' /\ CountedIsRendered'
<1>1. CapInv /\ CapTypes
  BY DEF CountedInv, CapInv
<1>2. Up /\ UNCHANGED <<rows, boot, torn>> /\ rows[g] # NoRow /\ edit[e] = NoEdit
  BY <1>1, RenderFacts
<1> PICK r \in GoodRows : /\ rendered' = [rendered EXCEPT ![g] = EffectiveResources(r)]
                          /\ edit' = [edit EXCEPT ![e] = [game |-> g, row |-> r]]
  BY <1>1, RenderFacts
<1>3. edit'[e] = [game |-> g, row |-> r] /\ rendered'[g] = EffectiveResources(r)
  BY <1>1 DEF CapTypes
<1>4. \A f \in Editors : f = e
  BY DEF OneEditor
<1>5. EditInv'
  BY <1>2, <1>3, <1>4 DEF EditInv, Up
<1>6. \A h \in Games : h # g => rendered'[h] = rendered[h]
  BY <1>1 DEF CapTypes
<1>7. ASSUME NEW h \in Games, rows[h] # NoRow, h \notin torn, h # g
      PROVE  EffectiveResources(rows[h]) = rendered[h]
  <2>1. CASE h # NoEdit.game
    BY <1>2, <1>4, <1>7, <2>1 DEF CountedInv, CountedIsRendered
  <2>2. CASE h = NoEdit.game
    BY <2>2, CapacityAssumption DEF NoEdit
  <2> QED BY <2>1, <2>2
<1> QED BY <1>2, <1>3, <1>5, <1>6, <1>7 DEF CountedIsRendered

LEMMA CountedUpsert ==
  ASSUME CountedInv, OneEditor, NEW e \in Editors, Upsert(e)
  PROVE  EditInv' /\ CountedIsRendered'
<1>1. CapInv /\ CapTypes
  BY DEF CountedInv, CapInv
<1>2. /\ Up /\ UNCHANGED <<rendered, boot>>
      /\ edit[e] \in Edits /\ edit[e] # NoEdit /\ edit' = [edit EXCEPT ![e] = NoEdit]
      /\ \/ rows' = [rows EXCEPT ![edit[e].game] = edit[e].row] /\ torn' = torn \ {edit[e].game}
         \/ UNCHANGED rows /\ torn' = torn \cup {edit[e].game}
  BY <1>1, UpsertFacts
<1>3. \A f \in Editors : f = e
  BY DEF OneEditor
<1>4. edit'[e] = NoEdit
  BY <1>1, <1>2 DEF CapTypes
<1>5. EditInv'
  BY <1>3, <1>4 DEF EditInv
<1>6. rendered[edit[e].game] = EffectiveResources(edit[e].row) /\ edit[e].game \in Games
  BY <1>2 DEF CountedInv, EditInv, Edits
<1>7. ASSUME NEW h \in Games, rows[h] # NoRow, h \notin torn, h # edit[e].game
      PROVE  EffectiveResources(rows[h]) = rendered[h]
  BY <1>3, <1>7 DEF CountedInv, CountedIsRendered
<1>8. ASSUME NEW h \in Games, rows'[h] # NoRow, h \notin torn'
      PROVE  EffectiveResources(rows'[h]) = rendered[h]
  <2>1. CASE rows' = [rows EXCEPT ![edit[e].game] = edit[e].row] /\ torn' = torn \ {edit[e].game}
    BY <1>1, <1>6, <1>7, <1>8, <2>1 DEF CapTypes
  <2>2. CASE UNCHANGED rows /\ torn' = torn \cup {edit[e].game}
    BY <1>7, <1>8, <2>2
  <2> QED BY <1>2, <2>1, <2>2
<1> QED BY <1>2, <1>5, <1>8 DEF CountedIsRendered

LEMMA CountedCreate == ASSUME CountedInv, NEW g \in Games, Create(g) PROVE EditInv' /\ CountedIsRendered'
<1>1. CapInv /\ CapTypes
  BY DEF CountedInv, CapInv
<1>2. Up /\ UNCHANGED <<edit, boot, torn>> /\ rows[g] = NoRow
  BY <1>1, CreateFacts
<1> PICK r \in GoodRows : /\ rows' = [rows EXCEPT ![g] = r]
                          /\ rendered' = [rendered EXCEPT ![g] = EffectiveResources(r)]
  BY <1>1, CreateFacts
<1>3. /\ rows'[g] = r /\ rendered'[g] = EffectiveResources(r)
      /\ \A h \in Games : h # g => rows'[h] = rows[h] /\ rendered'[h] = rendered[h]
  BY <1>1 DEF CapTypes
<1>4. EditInv'
  <2> SUFFICES ASSUME NEW e \in Editors, edit[e] # NoEdit
               PROVE  Up' /\ rows'[edit[e].game] # NoRow /\ rendered'[edit[e].game] = EffectiveResources(edit[e].row)
    BY <1>2 DEF EditInv
  <2>1. edit[e].game \in Games /\ edit[e].game # g
    BY <1>1, <1>2 DEF CapTypes, Edits, CountedInv, EditInv
  <2> QED BY <1>2, <1>3, <2>1 DEF Up, CountedInv, EditInv
<1>5. CountedIsRendered'
  BY <1>2, <1>3 DEF CountedInv, CountedIsRendered
<1> QED BY <1>4, <1>5

LEMMA CountedKept == OneEditor /\ CountedInv /\ [CapacityNext]_capVars => CountedInv'
<1> SUFFICES ASSUME OneEditor, CountedInv, [CapacityNext]_capVars PROVE CountedInv'
  OBVIOUS
<1>1. CapInv /\ CapInv'
  BY CapKept DEF CountedInv
<1>2. CASE UNCHANGED <<rows, rendered, edit, torn>> /\ (~Up \/ UNCHANGED boot)
  BY <1>1, <1>2, CountedIdle DEF CountedInv
<1>3. \/ UNCHANGED <<rows, rendered, edit, torn>> /\ (~Up \/ UNCHANGED boot)
      \/ Stop \/ BackfillResources \/ AssignWorldID
      \/ \E g \in Games : Create(g)
      \/ \E e \in Editors, g \in Games : SaveResources(e, g) \/ ApplyTier(e, g) \/ UpdateSettings(e, g)
      \/ \E e \in Editors : Upsert(e)
  BY <1>1, OpenFacts, CreditFacts, AdvanceFacts, SeedSettingsFacts, SeedTierFacts, FormFacts
     DEF CapacityNext, capVars, Quiet, Up
<1> QED BY <1>1, <1>2, <1>3, CountedStop, CountedBackfill, CountedCreate, CountedRender, CountedUpsert DEF CountedInv

(* With one edit of a world at a time, what an operator chose stays: also   *)
(* what the budget counts for a world is what its manifests ask for, unless *)
(* an edit has reported an error (SetResources, ApplyTier, UpdateSettings). *)
THEOREM ChosenAndCounted == OneEditor => (CapacitySpec => ChoicesStay)
<1> SUFFICES ASSUME OneEditor PROVE CapacitySpec => ChoicesStay
  OBVIOUS
<1>1. CountedInv => CountedIsRendered
  BY DEF CountedInv
<1>2. CountedInv /\ [CapacityNext]_capVars => CountedInv'
  BY CountedKept
<1>3. CapacitySpec => []CountedIsRendered
  BY <1>1, <1>2, CountedStarts, PTL DEF CapacitySpec
<1>4. ChoicesStay <=> [](SizesAreValid /\ CountedIsRendered) /\ SeedKeepsEdits /\ OnlyAskedResizes
  BY DEF ChoicesStay
<1> QED BY <1>3, <1>4, SavedChoicesStay, PTL
=============================================================================
