--------------------------- MODULE RequestsProofs ---------------------------
(***************************************************************************)
(* Theorems about Requests: what a call knows at each of its steps, the    *)
(* allowance and the pending Requests when no Account submits twice at     *)
(* once, and the decisions when they are taken one after the other.        *)
(***************************************************************************)
EXTENDS Requests, FiniteSetTheorems, TLAPS

-----------------------------------------------------------------------------
(* The invariants *)

(* A call of the wizard is somebody's and about no Request; a decision is   *)
(* about one that was filed, and a denial creates nothing.                  *)
CallIsSound(p) ==
  /\ op[p].kind = "none" <=> op[p].pc = "idle"
  /\ op[p].kind = "wizard" =>
       /\ op[p].pc \in {"count", "list", "file", "create", "grant"}
       /\ op[p].req = 0
       /\ \E a \in Accounts : op[p].by = {a}
  /\ op[p].kind \in {"approve", "deny"} =>
       /\ op[p].pc \in {"get", "create", "grant", "decide"}
       /\ op[p].kind = "deny" => op[p].pc \in {"get", "decide"}
       /\ op[p].req \in DOMAIN requests
  /\ op[p].pc = "grant" => op[p].world \in 1 .. made

CallsAreSound == \A p \in Procs : CallIsSound(p)

(* Every world came out of one create, for a Request that was filed. *)
WorldsAreSound ==
  /\ IsFiniteSet(worlds)
  /\ \A w \in worlds : w.id <= made /\ (w.req # 0 => w.req \in DOMAIN requests)

BaseInv == RequestsTypeOK /\ CallsAreSound /\ WorldsAreSound

-----------------------------------------------------------------------------
(* Steps of a call *)

LEMMA StepFields ==
  ASSUME op \in [Procs -> Calls], NEW p \in Procs, NEW c \in Calls, op' = [op EXCEPT ![p] = c]
  PROVE  /\ op' \in [Procs -> Calls] /\ op'[p] = c
         /\ \A q \in Procs \ {p} : op'[q] = op[q]
OBVIOUS

(* The call of p ends; it goes on at pc; nobody else's call is touched. *)
Others(p) == \A q \in Procs \ {p} : op'[q] = op[q]
Ends(p) == op' \in [Procs -> Calls] /\ op'[p] = Idle /\ Others(p)
Goes(p, pc) ==
  /\ op' \in [Procs -> Calls] /\ op'[p].pc = pc /\ Others(p)
  /\ op'[p].kind = op[p].kind /\ op'[p].by = op[p].by /\ op'[p].game = op[p].game
  /\ op'[p].req = op[p].req

LEMMA ReturnEnds ==
  ASSUME op \in [Procs -> Calls], NEW p \in Procs, Return(p)
  PROVE  Ends(p)
<1>1. Idle \in Calls
  BY RequestsAssumption DEF Calls, Idle, Kinds, Pcs
<1> QED BY <1>1, StepFields DEF Return, Ends, Others

LEMMA GotoGoes ==
  ASSUME op \in [Procs -> Calls], NEW p \in Procs, NEW pc \in Pcs, Goto(p, pc)
  PROVE  Goes(p, pc) /\ op'[p].world = op[p].world
<1> DEFINE c == [op[p] EXCEPT !.pc = pc]
<1>1. op[p] \in Calls
  OBVIOUS
<1>2. /\ c \in Calls /\ c.pc = pc /\ c.kind = op[p].kind /\ c.by = op[p].by /\ c.game = op[p].game
      /\ c.req = op[p].req /\ c.world = op[p].world
  BY <1>1 DEF Calls
<1>3. op' = [op EXCEPT ![p] = c]
  BY DEF Goto
<1> HIDE DEF c
<1> QED BY <1>2, <1>3, StepFields DEF Goes, Others

(* A filed Request stays filed, and what it is about stays. *)
LEMMA RequestsOnlyGrow ==
  ASSUME requests \in Seq(RequestRows), NEW r \in RequestRows, requests' = Append(requests, r)
  PROVE  /\ requests' \in Seq(RequestRows) /\ Len(requests') = Len(requests) + 1
         /\ Len(requests) \in Nat
         /\ DOMAIN requests = 1 .. Len(requests) /\ DOMAIN requests' = 1 .. Len(requests) + 1
         /\ \A i \in DOMAIN requests : requests'[i] = requests[i]
         /\ requests'[Len(requests) + 1] = r
OBVIOUS

-----------------------------------------------------------------------------
(* What each action does, in the terms of the invariants *)

LEMMA SubmitWizardFacts ==
  ASSUME BaseInv, NEW p \in Procs, NEW a \in Accounts, NEW g \in Games, SubmitWizard(p, a, g)
  PROVE  /\ op' \in [Procs -> Calls] /\ Others(p) /\ UNCHANGED <<requests, worlds, granted, made>>
         /\ op'[p].kind = "wizard" /\ op'[p].by = {a} /\ op'[p].req = 0
         /\ op'[p].pc = IF a \in Admins THEN "create" ELSE "count"
         /\ OnePerAccount => \A q \in Procs : op[q].kind = "wizard" => op[q].by # {a}
<1> DEFINE pc == IF a \in Admins THEN "create" ELSE "count"
           c == [Idle EXCEPT !.kind = "wizard", !.by = {a}, !.game = {g}, !.pc = pc]
<1>1. /\ c.kind = "wizard" /\ c.by = {a} /\ c.game = {g} /\ c.req = 0 /\ c.world = 0 /\ c.pc = pc
      /\ DOMAIN c = {"kind", "pc", "by", "game", "req", "world"}
  BY DEF Idle
<1>2. c \in Calls
  <2>1. Idle \in Calls /\ pc \in Pcs /\ {a} \in SUBSET Accounts /\ {g} \in SUBSET Games
    BY RequestsAssumption DEF Idle, Calls, Kinds, Pcs
  <2> HIDE DEF pc
  <2> QED BY <2>1 DEF Calls, Kinds
<1>3. op' = [op EXCEPT ![p] = c] /\ op \in [Procs -> Calls]
  BY DEF SubmitWizard, BaseInv, RequestsTypeOK
<1> HIDE DEF c
<1> QED BY <1>1, <1>2, <1>3, StepFields DEF Others, SubmitWizard

LEMMA CountFacts ==
  ASSUME BaseInv, NEW p \in Procs, MayCreateDirectly(p)
  PROVE  /\ op[p].pc = "count" /\ UNCHANGED <<requests, worlds, granted, made>>
         /\ \/ Ends(p)
            \/ Goes(p, "list")
            \/ Goes(p, "create") /\ \A a \in op[p].by : CreatedBy(a) < CreationLimit
<1>1. op \in [Procs -> Calls]
  BY DEF BaseInv, RequestsTypeOK
<1>2. op[p].pc = "count" /\ UNCHANGED <<requests, worlds, granted, made>>
  BY DEF MayCreateDirectly, At
<1>3. CASE Return(p)
  BY <1>1, <1>2, <1>3, ReturnEnds
<1>4. ASSUME NEW a \in op[p].by, Goto(p, IF CreatedBy(a) < CreationLimit THEN "create" ELSE "list")
      PROVE  Goes(p, "list") \/ (Goes(p, "create") /\ CreatedBy(a) < CreationLimit)
  BY <1>1, <1>4, GotoGoes DEF Pcs
<1>5. \A a, b \in op[p].by : a = b
  BY <1>2 DEF BaseInv, CallsAreSound, CallIsSound, RequestsTypeOK, Calls, Kinds
<1> QED BY <1>2, <1>3, <1>4, <1>5 DEF MayCreateDirectly

LEMMA SubmitFacts ==
  ASSUME BaseInv, NEW p \in Procs, Submit(p)
  PROVE  /\ op[p].pc = "list" /\ UNCHANGED <<requests, worlds, granted, made>>
         /\ \/ Ends(p)
            \/ /\ Goes(p, "file")
               /\ \A r \in DOMAIN requests : op[p].by = {requests[r].by} => ~Pending(r)
<1>1. op \in [Procs -> Calls] /\ "file" \in Pcs
  BY DEF BaseInv, RequestsTypeOK, Pcs
<1>2. Return(p) => Ends(p)
  BY <1>1, ReturnEnds
<1>3. Goto(p, "file") => Goes(p, "file")
  BY <1>1, GotoGoes
<1> QED BY <1>2, <1>3 DEF Submit, At

LEMMA FileFacts ==
  ASSUME BaseInv, NEW p \in Procs, FileRequest(p)
  PROVE  /\ op[p].pc = "file" /\ Ends(p) /\ UNCHANGED <<worlds, granted, made>>
         /\ \/ UNCHANGED requests
            \/ \E a \in Accounts, r \in RequestRows :
                 /\ op[p].by = {a} /\ r.by = a
                 /\ Len(requests) < MaxRequests /\ requests' = Append(requests, r)
<1>1. op \in [Procs -> Calls] /\ op[p] \in Calls
  BY DEF BaseInv, RequestsTypeOK
<1>2. op[p].pc = "file" /\ Ends(p) /\ UNCHANGED <<worlds, granted, made>>
  BY <1>1, ReturnEnds DEF FileRequest, At
<1>3. ASSUME NEW a \in op[p].by, NEW g \in op[p].game, Len(requests) < MaxRequests,
             requests' = Append(requests, [by |-> a, game |-> g, status |-> "pending"])
      PROVE  \E b \in Accounts, r \in RequestRows :
               /\ op[p].by = {b} /\ r.by = b
               /\ Len(requests) < MaxRequests /\ requests' = Append(requests, r)
  <2> DEFINE r == [by |-> a, game |-> g, status |-> "pending"]
  <2>1. r \in RequestRows /\ r.by = a /\ a \in Accounts
    BY <1>1 DEF Calls, RequestRows, Statuses
  <2>2. op[p].by = {a}
    BY <1>1, <1>2 DEF BaseInv, CallsAreSound, CallIsSound, Calls, Kinds
  <2> HIDE DEF r
  <2>3. requests' = Append(requests, r)
    BY <1>3 DEF r
  <2> QED BY <1>3, <2>1, <2>2, <2>3
<1> QED BY <1>2, <1>3 DEF FileRequest

LEMMA CreateFacts ==
  ASSUME BaseInv, NEW p \in Procs, CreateInstance(p)
  PROVE  /\ op[p].pc = "create" /\ UNCHANGED <<requests, granted>>
         /\ \/ Ends(p) /\ UNCHANGED <<worlds, made>>
            \/ \E w \in WorldRows :
                 /\ w.id = made + 1 /\ w.by \in op[p].by /\ w.req = op[p].req
                 /\ worlds' = worlds \cup {w} /\ made' = made + 1 /\ made < MaxWorlds
                 /\ \/ Ends(p) /\ op[p].kind = "wizard"
                    \/ Goes(p, "grant") /\ op'[p].world = made + 1
<1>1. op \in [Procs -> Calls] /\ op[p] \in Calls /\ made \in 0 .. MaxWorlds
  BY DEF BaseInv, RequestsTypeOK
<1>2. op[p].pc = "create" /\ UNCHANGED <<requests, granted>>
  BY DEF CreateInstance, At
<1>3. CASE Return(p) /\ UNCHANGED <<worlds, made>>
  BY <1>1, <1>2, <1>3, ReturnEnds
<1>4. ASSUME made < MaxWorlds, made' = made + 1,
             \E a \in op[p].by, g \in op[p].game :
               worlds' = worlds \cup {[id |-> made + 1, by |-> a, game |-> g, req |-> op[p].req]}
      PROVE  \E w \in WorldRows :
               /\ w.id = made + 1 /\ w.by \in op[p].by /\ w.req = op[p].req
               /\ worlds' = worlds \cup {w}
  <2>1. PICK a \in op[p].by, g \in op[p].game :
          worlds' = worlds \cup {[id |-> made + 1, by |-> a, game |-> g, req |-> op[p].req]}
    BY <1>4
  <2> DEFINE w == [id |-> made + 1, by |-> a, game |-> g, req |-> op[p].req]
  <2>2. made + 1 \in 1 .. MaxWorlds /\ a \in Accounts /\ g \in Games /\ op[p].req \in Ids \cup {0}
    BY <1>1, <1>4, RequestsAssumption DEF Calls
  <2>3. w \in WorldRows /\ w.id = made + 1 /\ w.by = a /\ w.req = op[p].req
    BY <2>2 DEF WorldRows
  <2> HIDE DEF w
  <2>4. worlds' = worlds \cup {w}
    BY <2>1 DEF w
  <2> QED BY <2>3, <2>4
<1>5. ASSUME op' = [op EXCEPT ![p].world = made + 1, ![p].pc = "grant"], made < MaxWorlds
      PROVE  Goes(p, "grant") /\ op'[p].world = made + 1
  <2> DEFINE c == [op[p] EXCEPT !.world = made + 1, !.pc = "grant"]
  <2>1. made + 1 \in 0 .. MaxWorlds
    BY <1>1, <1>5, RequestsAssumption
  <2>2. /\ c \in Calls /\ c.pc = "grant" /\ c.world = made + 1 /\ c.kind = op[p].kind
        /\ c.by = op[p].by /\ c.game = op[p].game /\ c.req = op[p].req
    BY <1>1, <2>1 DEF Calls, Pcs
  <2>3. op' = [op EXCEPT ![p] = c]
    BY <1>1, <1>5
  <2> HIDE DEF c
  <2> QED BY <1>1, <2>2, <2>3, StepFields DEF Goes, Others
<1>6. Return(p) => Ends(p)
  BY <1>1, ReturnEnds
<1> QED BY <1>2, <1>3, <1>4, <1>5, <1>6 DEF CreateInstance

LEMMA GrantFacts ==
  ASSUME BaseInv, NEW p \in Procs, GrantCreator(p)
  PROVE  /\ op[p].pc = "grant" /\ UNCHANGED <<requests, worlds, made>>
         /\ \/ /\ granted' = granted \cup {op[p].world}
               /\ \/ Goes(p, "decide") /\ op[p].kind = "approve"
                  \/ Ends(p) /\ op[p].kind # "approve"
            \/ Ends(p) /\ UNCHANGED granted /\ "grant" \in Faults
<1>1. op \in [Procs -> Calls] /\ "decide" \in Pcs
  BY DEF BaseInv, RequestsTypeOK, Pcs
<1>2. Return(p) => Ends(p)
  BY <1>1, ReturnEnds
<1>3. Goto(p, "decide") => Goes(p, "decide")
  BY <1>1, GotoGoes
<1> QED BY <1>2, <1>3 DEF GrantCreator, At

LEMMA DecideFacts ==
  ASSUME BaseInv, NEW p \in Procs, NEW kind \in {"approve", "deny"}, NEW r \in DOMAIN requests,
         Decide(p, kind, r)
  PROVE  /\ op' \in [Procs -> Calls] /\ Others(p) /\ UNCHANGED <<requests, worlds, granted, made>>
         /\ op'[p].kind = kind /\ op'[p].pc = "get" /\ op'[p].req = r
         /\ OneDecider => \A q \in Procs : op[q].kind \notin {"approve", "deny"}
<1> DEFINE c == [Idle EXCEPT !.kind = kind, !.pc = "get", !.req = r]
<1>1. /\ c.kind = kind /\ c.pc = "get" /\ c.req = r
  BY DEF Idle
<1>2. c \in Calls
  <2>1. requests \in Seq(RequestRows) /\ Len(requests) <= MaxRequests
    BY DEF BaseInv, RequestsTypeOK
  <2>2. DOMAIN requests = 1 .. Len(requests) /\ Len(requests) \in Nat
    BY <2>1
  <2>3. r \in Ids
    BY <2>1, <2>2, RequestsAssumption DEF Ids
  <2>4. Idle \in Calls
    BY RequestsAssumption DEF Idle, Calls, Kinds, Pcs
  <2> QED BY <2>3, <2>4 DEF Calls, Kinds, Pcs
<1>3. op' = [op EXCEPT ![p] = c] /\ op \in [Procs -> Calls]
  BY DEF Decide, BaseInv, RequestsTypeOK
<1> HIDE DEF c
<1> QED BY <1>1, <1>2, <1>3, StepFields DEF Others, Decide

LEMMA GetFacts ==
  ASSUME BaseInv, NEW p \in Procs, GetRequest(p)
  PROVE  /\ op[p].pc = "get" /\ UNCHANGED <<requests, worlds, granted, made>>
         /\ \/ Ends(p)
            \/ /\ Pending(op[p].req) /\ op' \in [Procs -> Calls] /\ Others(p)
               /\ op'[p].kind = op[p].kind /\ op'[p].req = op[p].req
               /\ op'[p].pc = IF op[p].kind = "approve" THEN "create" ELSE "decide"
<1> DEFINE r == op[p].req
           pc == IF op[p].kind = "approve" THEN "create" ELSE "decide"
           c == [op[p] EXCEPT !.by = {requests[r].by}, !.game = {requests[r].game}, !.pc = pc]
<1>1. /\ op \in [Procs -> Calls] /\ op[p] \in Calls /\ requests \in Seq(RequestRows)
      /\ op[p].pc = "get" /\ UNCHANGED <<requests, worlds, granted, made>>
  BY DEF BaseInv, RequestsTypeOK, GetRequest, At
<1>2. r \in DOMAIN requests
  BY <1>1 DEF BaseInv, CallsAreSound, CallIsSound, Calls, Kinds
<1>3. requests[r].by \in Accounts /\ requests[r].game \in Games
  <2>1. requests[r] \in RequestRows
    BY <1>1, <1>2
  <2> QED BY <2>1 DEF RequestRows
<1>4. c \in Calls /\ c.kind = op[p].kind /\ c.req = op[p].req /\ c.pc = pc
  BY <1>1, <1>3 DEF Calls, Pcs
<1>5. CASE Return(p)
  BY <1>1, <1>5, ReturnEnds
<1>6. CASE /\ Pending(r)
           /\ op' = [op EXCEPT ![p].by = {requests[r].by}, ![p].game = {requests[r].game}, ![p].pc = pc]
  <2>1. op' = [op EXCEPT ![p] = c]
    BY <1>1, <1>6
  <2> HIDE DEF c
  <2> QED BY <1>1, <1>4, <1>6, <2>1, StepFields DEF Others
<1> QED BY <1>1, <1>5, <1>6 DEF GetRequest

LEMMA PutFacts ==
  ASSUME BaseInv, NEW p \in Procs, PutDecision(p)
  PROVE  /\ op[p].pc = "decide" /\ Ends(p) /\ UNCHANGED <<worlds, granted, made>>
         /\ requests' \in Seq(RequestRows) /\ Len(requests') = Len(requests)
         /\ DOMAIN requests' = DOMAIN requests /\ op[p].req \in DOMAIN requests
         /\ \A i \in DOMAIN requests :
              /\ requests'[i].by = requests[i].by
              /\ i # op[p].req => requests'[i] = requests[i]
         /\ \/ requests'[op[p].req].status = IF op[p].kind = "approve" THEN "approved" ELSE "denied"
            \/ UNCHANGED requests /\ "put" \in Faults
<1> DEFINE r == op[p].req
           s == IF op[p].kind = "approve" THEN "approved" ELSE "denied"
           row == [requests[r] EXCEPT !.status = s]
<1>1. /\ op \in [Procs -> Calls] /\ op[p] \in Calls /\ requests \in Seq(RequestRows)
      /\ op[p].pc = "decide" /\ UNCHANGED <<worlds, granted, made>>
  BY DEF BaseInv, RequestsTypeOK, PutDecision, At
<1>2. r \in DOMAIN requests
  BY <1>1 DEF BaseInv, CallsAreSound, CallIsSound, Calls, Kinds
<1>3. Ends(p)
  BY <1>1, ReturnEnds DEF PutDecision
<1>4. row \in RequestRows /\ row.by = requests[r].by /\ row.status = s
  <2>1. requests[r] \in RequestRows /\ s \in Statuses
    BY <1>1, <1>2 DEF Statuses
  <2> HIDE DEF s
  <2> QED BY <2>1 DEF RequestRows
<1>5. CASE requests' = [requests EXCEPT ![r].status = s]
  <2>1. requests' = [requests EXCEPT ![r] = row]
    BY <1>5
  <2> HIDE DEF row
  <2>2. requests' \in Seq(RequestRows) /\ Len(requests') = Len(requests) /\ DOMAIN requests' = DOMAIN requests
    BY <1>1, <1>2, <1>4, <2>1
  <2>3. requests'[r] = row /\ \A i \in DOMAIN requests : i # r => requests'[i] = requests[i]
    BY <1>1, <1>2, <2>1
  <2> QED BY <1>1, <1>2, <1>3, <1>4, <2>2, <2>3
<1>6. CASE UNCHANGED requests /\ "put" \in Faults
  BY <1>1, <1>2, <1>3, <1>6
<1> QED BY <1>5, <1>6 DEF PutDecision

-----------------------------------------------------------------------------
(* The type invariant, and what a call knows at each of its steps *)

LEMMA BaseStep ==
  ASSUME BaseInv, NEW p \in Procs, op' \in [Procs -> Calls], Others(p), CallIsSound(p)',
         requests' \in Seq(RequestRows), Len(requests') <= MaxRequests,
         DOMAIN requests \subseteq DOMAIN requests',
         made' \in 0 .. MaxWorlds, made <= made', granted' \subseteq 1 .. MaxWorlds,
         worlds' \subseteq WorldRows, IsFiniteSet(worlds'),
         \A w \in worlds' : w.id <= made' /\ (w.req # 0 => w.req \in DOMAIN requests')
  PROVE  BaseInv'
<1>1. RequestsTypeOK'
  BY DEF RequestsTypeOK
<1>2. ASSUME NEW q \in Procs PROVE CallIsSound(q)'
  <2>1. CASE q = p
    BY <2>1
  <2>2. CASE q # p
    <3>1. op'[q] = op[q] /\ CallIsSound(q) /\ made \in Nat /\ made' \in Nat
      BY <2>2 DEF Others, BaseInv, CallsAreSound, RequestsTypeOK
    <3> QED BY <3>1 DEF CallIsSound
  <2> QED BY <2>1, <2>2
<1>3. WorldsAreSound'
  BY DEF WorldsAreSound
<1> QED BY <1>1, <1>2, <1>3 DEF BaseInv, CallsAreSound

(* A step of p that leaves the tables alone. *)
LEMMA QuietStep ==
  ASSUME BaseInv, NEW p \in Procs, op' \in [Procs -> Calls], Others(p), CallIsSound(p)',
         UNCHANGED <<requests, worlds, made>>, granted' \subseteq 1 .. MaxWorlds
  PROVE  BaseInv'
<1>1. made \in Nat /\ made' \in 0 .. MaxWorlds /\ made <= made'
  BY DEF BaseInv, RequestsTypeOK
<1>2. /\ requests' \in Seq(RequestRows) /\ Len(requests') <= MaxRequests
      /\ DOMAIN requests \subseteq DOMAIN requests' /\ worlds' \subseteq WorldRows
  BY DEF BaseInv, RequestsTypeOK
<1>3. IsFiniteSet(worlds') /\ \A w \in worlds' : w.id <= made' /\ (w.req # 0 => w.req \in DOMAIN requests')
  BY DEF BaseInv, WorldsAreSound
<1> QED BY <1>1, <1>2, <1>3, BaseStep

LEMMA EndsSound ==
  ASSUME NEW p \in Procs, Ends(p)
  PROVE  op' \in [Procs -> Calls] /\ Others(p) /\ CallIsSound(p)'
BY DEF Ends, CallIsSound, Idle

LEMMA BaseInit == Init => BaseInv
<1> SUFFICES ASSUME Init PROVE BaseInv
  OBVIOUS
<1>1. Idle \in Calls
  BY RequestsAssumption DEF Calls, Idle, Kinds, Pcs
<1>2. RequestsTypeOK
  BY <1>1, RequestsAssumption DEF Init, RequestsTypeOK
<1>3. CallsAreSound
  BY DEF Init, CallsAreSound, CallIsSound, Idle
<1>4. WorldsAreSound
  BY FS_EmptySet DEF Init, WorldsAreSound
<1> QED BY <1>2, <1>3, <1>4 DEF BaseInv

LEMMA BaseNext ==
  ASSUME BaseInv, [Next]_vars
  PROVE  BaseInv'
<1> USE DEF BaseInv
<1>0. granted \subseteq 1 .. MaxWorlds /\ made \in 0 .. MaxWorlds /\ op \in [Procs -> Calls]
  BY DEF RequestsTypeOK
<1>1. ASSUME NEW p \in Procs, NEW a \in Accounts, NEW g \in Games, SubmitWizard(p, a, g)
      PROVE  BaseInv'
  <2>1. CallIsSound(p)'
    BY <1>1, SubmitWizardFacts DEF CallIsSound
  <2> QED BY <1>0, <1>1, <2>1, SubmitWizardFacts, QuietStep
<1>2. ASSUME NEW p \in Procs, NEW kind \in {"approve", "deny"}, NEW r \in DOMAIN requests, Decide(p, kind, r)
      PROVE  BaseInv'
  <2>1. CallIsSound(p)'
    BY <1>2, DecideFacts DEF CallIsSound
  <2> QED BY <1>0, <1>2, <2>1, DecideFacts, QuietStep
<1>3. ASSUME NEW p \in Procs, MayCreateDirectly(p) PROVE BaseInv'
  <2>1. op'\in [Procs -> Calls] /\ Others(p) /\ CallIsSound(p)'
    <3>1. CASE Ends(p)
      BY <3>1, EndsSound
    <3>2. CASE Goes(p, "list") \/ Goes(p, "create")
      BY <1>0, <1>3, <3>2, CountFacts DEF Goes, CallIsSound, CallsAreSound, Calls, Kinds
    <3> QED BY <1>3, <3>1, <3>2, CountFacts
  <2> QED BY <1>0, <1>3, <2>1, CountFacts, QuietStep
<1>4. ASSUME NEW p \in Procs, Submit(p) PROVE BaseInv'
  <2>1. op'\in [Procs -> Calls] /\ Others(p) /\ CallIsSound(p)'
    <3>1. CASE Ends(p)
      BY <3>1, EndsSound
    <3>2. CASE Goes(p, "file")
      BY <1>0, <1>4, <3>2, SubmitFacts DEF Goes, CallIsSound, CallsAreSound, Calls, Kinds
    <3> QED BY <1>4, <3>1, <3>2, SubmitFacts
  <2> QED BY <1>0, <1>4, <2>1, SubmitFacts, QuietStep
<1>5. ASSUME NEW p \in Procs, FileRequest(p) PROVE BaseInv'
  <2>1. op'\in [Procs -> Calls] /\ Others(p) /\ CallIsSound(p)'
    BY <1>5, FileFacts, EndsSound
  <2>2. CASE UNCHANGED requests
    BY <1>0, <1>5, <2>1, <2>2, FileFacts, QuietStep
  <2>3. ASSUME NEW r \in RequestRows, Len(requests) < MaxRequests, requests' = Append(requests, r)
        PROVE  BaseInv'
    <3>1. /\ requests' \in Seq(RequestRows) /\ Len(requests') <= MaxRequests
          /\ DOMAIN requests \subseteq DOMAIN requests'
      BY <2>3, RequestsOnlyGrow, RequestsAssumption DEF RequestsTypeOK
    <3>2. UNCHANGED <<worlds, granted, made>>
      BY <1>5, FileFacts
    <3> QED BY <1>0, <2>1, <3>1, <3>2, BaseStep DEF RequestsTypeOK, WorldsAreSound
  <2> QED BY <1>5, <2>2, <2>3, FileFacts
<1>6. ASSUME NEW p \in Procs, CreateInstance(p) PROVE BaseInv'
  <2>1. op[p].pc = "create" /\ UNCHANGED <<requests, granted>>
    BY <1>6, CreateFacts
  <2>2. CASE Ends(p) /\ UNCHANGED <<worlds, made>>
    BY <1>0, <2>1, <2>2, EndsSound, QuietStep
  <2>3. ASSUME NEW w \in WorldRows, w.id = made + 1, w.req = op[p].req,
               worlds' = worlds \cup {w}, made' = made + 1, made < MaxWorlds,
               \/ Ends(p) \/ (Goes(p, "grant") /\ op'[p].world = made + 1)
        PROVE  BaseInv'
    <3>1. op'\in [Procs -> Calls] /\ Others(p) /\ CallIsSound(p)'
      <4>1. CASE Ends(p)
        BY <4>1, EndsSound
      <4>2. CASE Goes(p, "grant") /\ op'[p].world = made + 1
        BY <1>0, <2>1, <2>3, <4>2, RequestsAssumption
           DEF Goes, CallIsSound, CallsAreSound, Calls, Kinds
      <4> QED BY <2>3, <4>1, <4>2
    <3>2. made' \in 0 .. MaxWorlds /\ made <= made'
      BY <1>0, <2>3, RequestsAssumption
    <3>3. worlds' \subseteq WorldRows /\ IsFiniteSet(worlds')
      BY <2>3, FS_AddElement DEF RequestsTypeOK, WorldsAreSound
    <3>4. w.req # 0 => w.req \in DOMAIN requests
      BY <1>0, <2>1, <2>3 DEF CallsAreSound, CallIsSound, Calls, Kinds
    <3>5. ASSUME NEW v \in worlds' PROVE v.id <= made' /\ (v.req # 0 => v.req \in DOMAIN requests')
      <4>1. CASE v = w
        BY <1>0, <2>1, <2>3, <3>4, <4>1
      <4>2. CASE v \in worlds
        <5>1. v.id <= made /\ v.id \in Nat /\ (v.req # 0 => v.req \in DOMAIN requests)
          BY <4>2 DEF WorldsAreSound, RequestsTypeOK, WorldRows
        <5> QED BY <1>0, <2>1, <2>3, <5>1
      <4> QED BY <2>3, <4>1, <4>2
    <3>6. /\ requests' \in Seq(RequestRows) /\ Len(requests') <= MaxRequests
          /\ DOMAIN requests \subseteq DOMAIN requests' /\ granted' \subseteq 1 .. MaxWorlds
      BY <1>0, <2>1 DEF RequestsTypeOK
    <3> QED BY <3>1, <3>2, <3>3, <3>5, <3>6, BaseStep
  <2> QED BY <1>6, <2>2, <2>3, CreateFacts
<1>7. ASSUME NEW p \in Procs, GrantCreator(p) PROVE BaseInv'
  <2>1. op[p].pc = "grant" /\ UNCHANGED <<requests, worlds, made>>
    BY <1>7, GrantFacts
  <2>2. op'\in [Procs -> Calls] /\ Others(p) /\ CallIsSound(p)'
    <3>1. CASE Ends(p)
      BY <3>1, EndsSound
    <3>2. CASE Goes(p, "decide") /\ op[p].kind = "approve"
      BY <2>1, <3>2 DEF Goes, CallIsSound, CallsAreSound
    <3> QED BY <1>7, <3>1, <3>2, GrantFacts
  <2>3. granted' \subseteq 1 .. MaxWorlds
    <3>1. op[p].world \in 1 .. MaxWorlds
      BY <1>0, <2>1, RequestsAssumption DEF CallsAreSound, CallIsSound
    <3> QED BY <1>0, <1>7, <3>1, GrantFacts
  <2> QED BY <2>1, <2>2, <2>3, QuietStep
<1>8. ASSUME NEW p \in Procs, GetRequest(p) PROVE BaseInv'
  <2>1. op'\in [Procs -> Calls] /\ Others(p) /\ CallIsSound(p)'
    <3>1. CASE Ends(p)
      BY <3>1, EndsSound
    <3>2. CASE ~Ends(p)
      <4>1. op[p].kind \in {"approve", "deny"} /\ op[p].req \in DOMAIN requests
        BY <1>0, <1>8, GetFacts DEF CallIsSound, CallsAreSound, Calls, Kinds
      <4> QED BY <1>8, <3>2, <4>1, GetFacts DEF CallIsSound
    <3> QED BY <3>1, <3>2
  <2> QED BY <1>0, <1>8, <2>1, GetFacts, QuietStep
<1>9. ASSUME NEW p \in Procs, PutDecision(p) PROVE BaseInv'
  <2>1. op'\in [Procs -> Calls] /\ Others(p) /\ CallIsSound(p)'
    BY <1>9, PutFacts, EndsSound
  <2>2. /\ requests' \in Seq(RequestRows) /\ Len(requests') <= MaxRequests
        /\ DOMAIN requests' = DOMAIN requests /\ UNCHANGED <<worlds, granted, made>>
    BY <1>9, PutFacts DEF RequestsTypeOK
  <2> QED BY <1>0, <2>1, <2>2, BaseStep DEF RequestsTypeOK, WorldsAreSound
<1>10. ASSUME NEW w \in worlds, DeleteInstance(w) PROVE BaseInv'
  <2>1. worlds' \subseteq WorldRows /\ IsFiniteSet(worlds')
    BY <1>10, FS_RemoveElement DEF DeleteInstance, RequestsTypeOK, WorldsAreSound
  <2>2. UNCHANGED <<requests, granted, made, op>> /\ worlds' \subseteq worlds
    BY <1>10 DEF DeleteInstance
  <2>3. RequestsTypeOK' /\ WorldsAreSound'
    BY <2>1, <2>2 DEF RequestsTypeOK, WorldsAreSound
  <2>4. CallsAreSound'
    BY <2>2 DEF CallsAreSound, CallIsSound
  <2> QED BY <2>3, <2>4
<1>11. CASE UNCHANGED vars
  BY <1>11 DEF vars, RequestsTypeOK, WorldsAreSound, CallsAreSound, CallIsSound
<1> HIDE DEF BaseInv
<1> QED
  BY <1>1, <1>2, <1>3, <1>4, <1>5, <1>6, <1>7, <1>8, <1>9, <1>10, <1>11 DEF Next, Arrive, Step

LEMMA BaseHolds == Spec => []BaseInv
<1>1. Init => BaseInv
  BY BaseInit
<1>2. BaseInv /\ [Next]_vars => BaseInv'
  BY BaseNext
<1> QED BY <1>1, <1>2, PTL DEF Spec

(* Whatever is submitted, decided, deleted and fails, in any order, every    *)
(* variable holds what its declaration says.                                 *)
THEOREM RequestsTypeCorrect == Spec => []RequestsTypeOK
<1>1. BaseInv => RequestsTypeOK
  BY DEF BaseInv
<1> QED BY <1>1, BaseHolds, PTL

-----------------------------------------------------------------------------
(* The allowance and the pending Requests, one submission at a time *)

Direct(a) == {w \in worlds : w.by = a /\ w.req = 0}

(* The Account's call of the wizard is its only one; where it goes on to     *)
(* create, it has been counted and nobody else has created for it since;     *)
(* where it goes on to file, no Request of the Account is pending.           *)
OneCall ==
  \A p, q \in Procs : op[p].kind = "wizard" /\ op[q].kind = "wizard" /\ op[p].by = op[q].by => p = q

CountedBefore ==
  \A p \in Procs, a \in Accounts \ Admins :
    op[p].kind = "wizard" /\ op[p].pc = "create" /\ op[p].by = {a} =>
      Cardinality(Direct(a)) < CreationLimit

ListedBefore ==
  \A p \in Procs, a \in Accounts :
    op[p].pc = "file" /\ op[p].by = {a} => \A r \in DOMAIN requests : requests[r].by = a => ~Pending(r)

WizardInv == OneCall /\ CountedBefore /\ ListedBefore /\ LimitsKept

(* What one Account created unaided is finite, and all of it is counted. *)
LEMMA DirectCounted ==
  ASSUME BaseInv, NEW a \in Accounts
  PROVE  /\ IsFiniteSet(Direct(a)) /\ Cardinality(Direct(a)) \in Nat
         /\ Games \subseteq Counted => Cardinality(Direct(a)) <= CreatedBy(a) /\ CreatedBy(a) \in Nat
<1>1. IsFiniteSet(worlds) /\ worlds \subseteq WorldRows
  BY DEF BaseInv, WorldsAreSound, RequestsTypeOK
<1>2. Direct(a) \subseteq worlds
  BY DEF Direct
<1>3. IsFiniteSet(Direct(a)) /\ Cardinality(Direct(a)) \in Nat
  BY <1>1, <1>2, FS_Subset, FS_CardinalityType
<1> DEFINE all == {w \in worlds : w.by = a /\ w.game \in Counted}
<1>4. IsFiniteSet(all) /\ Cardinality(all) \in Nat
  <2>1. all \subseteq worlds
    OBVIOUS
  <2> HIDE DEF all
  <2> QED BY <1>1, <2>1, FS_Subset, FS_CardinalityType
<1>5. Games \subseteq Counted => Direct(a) \subseteq all
  BY <1>1 DEF Direct, WorldRows
<1>6. CreatedBy(a) = Cardinality(all)
  BY DEF CreatedBy
<1> HIDE DEF all
<1> QED BY <1>3, <1>4, <1>5, <1>6, FS_Subset

(* A step that adds no world of the allowance and files no Request. *)
LEMMA WizardQuiet ==
  ASSUME BaseInv, WizardInv, NEW p \in Procs, Others(p),
         \A a \in Accounts : Direct(a)' \subseteq Direct(a),
         DOMAIN requests' = DOMAIN requests,
         \A r \in DOMAIN requests : requests'[r].by = requests[r].by /\ (Pending(r)' => Pending(r)),
         op'[p].kind = "wizard" =>
           /\ \A q \in Procs \ {p} : op[q].kind = "wizard" => op[q].by # op'[p].by
           /\ op'[p].pc = "create" => \A a \in Accounts \ Admins : op'[p].by = {a} =>
                Cardinality(Direct(a)) < CreationLimit,
         op'[p].pc = "file" => \A r \in DOMAIN requests : op'[p].by = {requests[r].by} => ~Pending(r)
  PROVE  WizardInv'
<1>0. \A q \in Procs : q # p => op'[q] = op[q]
  BY DEF Others
<1>1. OneCall'
  BY <1>0 DEF OneCall, WizardInv
<1>2. ASSUME NEW a \in Accounts
      PROVE  /\ Cardinality(Direct(a)') <= Cardinality(Direct(a))
             /\ Cardinality(Direct(a)') \in Nat /\ Cardinality(Direct(a)) \in Nat
  <2>1. IsFiniteSet(Direct(a)) /\ Cardinality(Direct(a)) \in Nat /\ Direct(a)' \in SUBSET Direct(a)
    BY DirectCounted
  <2> QED BY <2>1, FS_Subset, FS_CardinalityType
<1>3. CountedBefore'
  <2> SUFFICES ASSUME NEW q \in Procs, NEW a \in Accounts \ Admins,
                      op'[q].kind = "wizard", op'[q].pc = "create", op'[q].by = {a}
               PROVE  Cardinality(Direct(a)') < CreationLimit
    BY DEF CountedBefore
  <2>1. Cardinality(Direct(a)) < CreationLimit
    <3>1. CASE q = p
      BY <3>1
    <3>2. CASE q # p
      BY <1>0, <3>2 DEF WizardInv, CountedBefore
    <3> QED BY <3>1, <3>2
  <2> QED BY <1>2, <2>1, RequestsAssumption
<1>4. ListedBefore'
  <2> SUFFICES ASSUME NEW q \in Procs, NEW a \in Accounts, op'[q].pc = "file", op'[q].by = {a},
                      NEW r \in DOMAIN requests', requests'[r].by = a
               PROVE  ~Pending(r)'
    BY DEF ListedBefore
  <2>1. CASE q = p
    BY <2>1
  <2>2. CASE q # p
    BY <1>0, <2>2 DEF WizardInv, ListedBefore
  <2> QED BY <2>1, <2>2
<1>5. AllowanceKept'
  <2> SUFFICES ASSUME NEW a \in Accounts \ Admins PROVE Cardinality(Direct(a)') <= CreationLimit
    BY DEF AllowanceKept, Direct
  <2>1. Cardinality(Direct(a)) <= CreationLimit
    BY DEF WizardInv, LimitsKept, AllowanceKept, Direct
  <2> QED BY <1>2, <2>1, RequestsAssumption
<1>6. OnePendingRequest'
  BY DEF WizardInv, LimitsKept, OnePendingRequest
<1> QED BY <1>1, <1>3, <1>4, <1>5, <1>6 DEF WizardInv, LimitsKept

LEMMA WizardInit == Init => WizardInv
<1> SUFFICES ASSUME Init PROVE WizardInv
  OBVIOUS
<1>1. OneCall /\ CountedBefore /\ ListedBefore
  BY DEF Init, Idle, OneCall, CountedBefore, ListedBefore
<1>2. AllowanceKept
  BY FS_EmptySet, RequestsAssumption DEF Init, AllowanceKept
<1>3. OnePendingRequest
  BY DEF Init, OnePendingRequest
<1> QED BY <1>1, <1>2, <1>3 DEF WizardInv, LimitsKept

LEMMA WizardNext ==
  ASSUME OnePerAccount, Games \subseteq Counted, BaseInv, WizardInv, [Next]_vars
  PROVE  WizardInv'
<1>0. /\ op \in [Procs -> Calls] /\ requests \in Seq(RequestRows)
      /\ \A p \in Procs : CallIsSound(p)
  BY DEF BaseInv, RequestsTypeOK, CallsAreSound
<1>a. ASSUME UNCHANGED <<requests, worlds>>
      PROVE  /\ \A a \in Accounts : Direct(a)' \subseteq Direct(a)
             /\ DOMAIN requests' = DOMAIN requests
             /\ \A r \in DOMAIN requests : requests'[r].by = requests[r].by /\ (Pending(r)' => Pending(r))
  BY <1>a DEF Direct, Pending
<1>b. ASSUME NEW p \in Procs, NEW pc \in Pcs, Goes(p, pc), op[p].kind = "wizard"
      PROVE  \A q \in Procs \ {p} : op[q].kind = "wizard" => op[q].by # op'[p].by
  BY <1>b DEF WizardInv, OneCall, Goes
<1>1. ASSUME NEW p \in Procs, NEW a \in Accounts, NEW g \in Games, SubmitWizard(p, a, g)
      PROVE  WizardInv'
  <2>1. /\ Others(p) /\ UNCHANGED <<requests, worlds>> /\ op'[p].kind = "wizard" /\ op'[p].by = {a}
        /\ op'[p].pc = (IF a \in Admins THEN "create" ELSE "count")
        /\ \A q \in Procs : op[q].kind = "wizard" => op[q].by # {a}
    BY <1>1, SubmitWizardFacts
  <2>2. op'[p].pc = "create" => \A b \in Accounts \ Admins : op'[p].by # {b}
    BY <2>1
  <2> QED BY <1>a, <2>1, <2>2, WizardQuiet
<1>2. ASSUME NEW p \in Procs, NEW kind \in {"approve", "deny"}, NEW r \in DOMAIN requests, Decide(p, kind, r)
      PROVE  WizardInv'
  <2>1. Others(p) /\ UNCHANGED <<requests, worlds>> /\ op'[p].kind = kind /\ op'[p].pc = "get"
    BY <1>2, DecideFacts
  <2> QED BY <1>a, <2>1, WizardQuiet
<1>e. ASSUME NEW p \in Procs, Ends(p), UNCHANGED <<requests, worlds>> PROVE WizardInv'
  <2>1. Others(p) /\ op'[p].kind = "none" /\ op'[p].pc = "idle"
    BY <1>e DEF Ends, Idle
  <2> QED BY <1>a, <1>e, <2>1, WizardQuiet
<1>3. ASSUME NEW p \in Procs, MayCreateDirectly(p) PROVE WizardInv'
  <2>1. op[p].pc = "count" /\ UNCHANGED <<requests, worlds>>
    BY <1>3, CountFacts
  <2>2. op[p].kind = "wizard"
    BY <1>0, <2>1 DEF CallIsSound, Calls, Kinds
  <2>3. CASE Ends(p)
    BY <1>e, <2>1, <2>3
  <2>4. CASE Goes(p, "list")
    BY <1>a, <1>b, <2>1, <2>2, <2>4, WizardQuiet DEF Goes, Pcs
  <2>5. CASE Goes(p, "create") /\ \A a \in op[p].by : CreatedBy(a) < CreationLimit
    <3>1. ASSUME NEW a \in Accounts, op'[p].by = {a} PROVE Cardinality(Direct(a)) < CreationLimit
      <4>1. CreatedBy(a) < CreationLimit
        BY <2>5, <3>1 DEF Goes
      <4> QED BY <4>1, DirectCounted, RequestsAssumption
    <3> QED BY <1>a, <1>b, <2>1, <2>2, <2>5, <3>1, WizardQuiet DEF Goes, Pcs
  <2> QED BY <1>3, <2>3, <2>4, <2>5, CountFacts
<1>4. ASSUME NEW p \in Procs, Submit(p) PROVE WizardInv'
  <2>1. op[p].pc = "list" /\ UNCHANGED <<requests, worlds>>
    BY <1>4, SubmitFacts
  <2>2. op[p].kind = "wizard"
    BY <1>0, <2>1 DEF CallIsSound, Calls, Kinds
  <2>3. CASE Ends(p)
    BY <1>e, <2>1, <2>3
  <2>4. CASE Goes(p, "file") /\ \A r \in DOMAIN requests : op[p].by = {requests[r].by} => ~Pending(r)
    BY <1>a, <1>b, <2>1, <2>2, <2>4, WizardQuiet DEF Goes, Pcs
  <2> QED BY <1>4, <2>3, <2>4, SubmitFacts
<1>5. ASSUME NEW p \in Procs, FileRequest(p) PROVE WizardInv'
  <2>1. op[p].pc = "file" /\ Ends(p) /\ UNCHANGED worlds /\ op[p].kind = "wizard"
    BY <1>0, <1>5, FileFacts DEF CallIsSound, Calls, Kinds
  <2>2. CASE UNCHANGED requests
    BY <1>e, <2>1, <2>2
  <2>3. ASSUME NEW a \in Accounts, NEW r \in RequestRows, op[p].by = {a}, r.by = a,
               requests' = Append(requests, r)
        PROVE  WizardInv'
    <3>1. /\ Others(p) /\ op'[p].kind = "none" /\ op'[p].pc = "idle"
      BY <2>1 DEF Ends, Idle
    <3>2. /\ DOMAIN requests = 1 .. Len(requests) /\ DOMAIN requests' = 1 .. Len(requests) + 1
          /\ Len(requests) \in Nat /\ requests'[Len(requests) + 1] = r
          /\ \A i \in DOMAIN requests : requests'[i] = requests[i]
      BY <1>0, <2>3, RequestsOnlyGrow
    <3>3. \A b \in Accounts : Direct(b)' = Direct(b)
      BY <2>1 DEF Direct
    <3>4. OneCall'
      BY <3>1 DEF Others, WizardInv, OneCall
    <3>5. CountedBefore'
      BY <3>1, <3>3 DEF Others, WizardInv, CountedBefore
    <3>6. AllowanceKept'
      BY <2>1 DEF AllowanceKept, WizardInv, LimitsKept
    <3>7. \A i \in DOMAIN requests : requests[i].by = a => ~Pending(i)
      BY <2>1, <2>3 DEF WizardInv, ListedBefore
    <3>8. ListedBefore'
      <4> SUFFICES ASSUME NEW q \in Procs, NEW b \in Accounts, op'[q].pc = "file", op'[q].by = {b},
                          NEW i \in DOMAIN requests', requests'[i].by = b
                   PROVE  ~Pending(i)'
        BY DEF ListedBefore
      <4>1. q # p /\ op'[q] = op[q] /\ op[q].kind = "wizard"
        BY <1>0, <3>1 DEF Others, CallIsSound, Calls, Kinds
      <4>2. b # a
        BY <2>1, <2>3, <4>1 DEF WizardInv, OneCall
      <4>3. i \in DOMAIN requests /\ requests'[i] = requests[i]
        BY <2>3, <3>2, <4>2
      <4> QED BY <4>1, <4>3 DEF WizardInv, ListedBefore, Pending
    <3>9. OnePendingRequest'
      <4> SUFFICES ASSUME NEW i \in DOMAIN requests', NEW j \in DOMAIN requests',
                          requests'[i].by = requests'[j].by, Pending(i)', Pending(j)'
                   PROVE  i = j
        BY DEF OnePendingRequest
      <4>1. ASSUME NEW k \in DOMAIN requests, Pending(k)' PROVE Pending(k) /\ requests'[k].by # a
        BY <3>2, <3>7, <4>1 DEF Pending
      <4>2. CASE i \in DOMAIN requests /\ j \in DOMAIN requests
        BY <3>2, <4>1, <4>2 DEF WizardInv, LimitsKept, OnePendingRequest
      <4>3. CASE i \notin DOMAIN requests \/ j \notin DOMAIN requests
        BY <2>3, <3>2, <4>1, <4>3
      <4> QED BY <4>2, <4>3
    <3> QED BY <3>4, <3>5, <3>6, <3>8, <3>9 DEF WizardInv, LimitsKept
  <2> QED BY <1>5, <2>2, <2>3, FileFacts
<1>6. ASSUME NEW p \in Procs, CreateInstance(p) PROVE WizardInv'
  <2>1. op[p].pc = "create" /\ UNCHANGED requests
    BY <1>6, CreateFacts
  <2>2. CASE Ends(p) /\ UNCHANGED worlds
    BY <1>e, <2>1, <2>2
  <2>3. ASSUME NEW w \in WorldRows, w.by \in op[p].by, w.req = op[p].req, worlds' = worlds \cup {w},
               \/ Ends(p) \/ Goes(p, "grant")
        PROVE  WizardInv'
    <3>1. Others(p) /\ op'[p].pc \in {"idle", "grant"}
      BY <2>3 DEF Ends, Goes, Idle
    <3>2. OneCall'
      BY <2>3 DEF Ends, Goes, Idle, Others, WizardInv, OneCall
    <3>3. ASSUME NEW a \in Accounts, a \notin Admins,
                 ~(op[p].kind = "wizard" /\ op[p].by = {a})
          PROVE  Direct(a)' = Direct(a)
      <4>1. w \notin Direct(a)'
        <5>1. CASE op[p].kind = "wizard"
          BY <1>0, <2>3, <3>3, <5>1 DEF CallIsSound, Direct
        <5>2. CASE op[p].kind # "wizard"
          <6>1. op[p].req \in DOMAIN requests
            BY <1>0, <2>1, <5>2 DEF CallIsSound, Calls, Kinds
          <6>2. w.req # 0
            BY <1>0, <2>3, <6>1
          <6> QED BY <6>2 DEF Direct
        <5> QED BY <5>1, <5>2
      <4> QED BY <2>3, <4>1 DEF Direct
    <3>4. ASSUME NEW a \in Accounts, a \notin Admins, op[p].kind = "wizard", op[p].by = {a}
          PROVE  Cardinality(Direct(a)') <= CreationLimit
      <4>1. Cardinality(Direct(a)) < CreationLimit
        BY <2>1, <3>4 DEF WizardInv, CountedBefore
      <4>2. Direct(a)' \subseteq Direct(a) \cup {w}
        BY <2>3 DEF Direct
      <4>3. IsFiniteSet(Direct(a)) /\ Cardinality(Direct(a)) \in Nat
        BY DirectCounted
      <4>4. /\ IsFiniteSet(Direct(a) \cup {w})
            /\ Cardinality(Direct(a) \cup {w}) <= Cardinality(Direct(a)) + 1
            /\ Cardinality(Direct(a) \cup {w}) \in Nat
        <5> DEFINE D == Direct(a)
        <5>1. IsFiniteSet(D) /\ Cardinality(D) \in Nat
          BY <4>3
        <5> HIDE DEF D
        <5>2. /\ IsFiniteSet(D \cup {w})
              /\ Cardinality(D \cup {w}) = IF w \in D THEN Cardinality(D) ELSE Cardinality(D) + 1
          BY <5>1, FS_AddElement
        <5>3. IsFiniteSet(D \cup {w}) /\ Cardinality(D \cup {w}) <= Cardinality(D) + 1
              /\ Cardinality(D \cup {w}) \in Nat
          BY <5>1, <5>2
        <5> QED BY <5>3 DEF D
      <4>5. Cardinality(Direct(a)') <= Cardinality(Direct(a) \cup {w}) /\ Cardinality(Direct(a)') \in Nat
        BY <4>2, <4>4, FS_Subset, FS_CardinalityType
      <4> QED BY <4>1, <4>3, <4>4, <4>5, RequestsAssumption
    <3>5. CountedBefore'
      <4> SUFFICES ASSUME NEW q \in Procs, NEW a \in Accounts \ Admins,
                          op'[q].kind = "wizard", op'[q].pc = "create", op'[q].by = {a}
                   PROVE  Cardinality(Direct(a)') < CreationLimit
        BY DEF CountedBefore
      <4>1. q # p /\ op'[q] = op[q]
        BY <3>1 DEF Others
      <4>2. ~(op[p].kind = "wizard" /\ op[p].by = {a})
        BY <4>1 DEF WizardInv, OneCall
      <4> QED BY <3>3, <4>1, <4>2 DEF WizardInv, CountedBefore
    <3>6. ListedBefore'
      BY <2>1, <3>1 DEF Others, WizardInv, ListedBefore, Pending
    <3>7. AllowanceKept'
      <4> SUFFICES ASSUME NEW a \in Accounts \ Admins PROVE Cardinality(Direct(a)') <= CreationLimit
        BY DEF AllowanceKept, Direct
      <4>1. Cardinality(Direct(a)) <= CreationLimit
        BY DEF WizardInv, LimitsKept, AllowanceKept, Direct
      <4> QED BY <3>3, <3>4, <4>1
    <3>8. OnePendingRequest'
      BY <2>1 DEF WizardInv, LimitsKept, OnePendingRequest, Pending
    <3> QED BY <3>2, <3>5, <3>6, <3>7, <3>8 DEF WizardInv, LimitsKept
  <2> QED BY <1>6, <2>2, <2>3, CreateFacts
<1>7. ASSUME NEW p \in Procs, GrantCreator(p) PROVE WizardInv'
  <2>1. UNCHANGED <<requests, worlds>> /\ (Ends(p) \/ (Goes(p, "decide") /\ op[p].kind = "approve"))
    BY <1>7, GrantFacts
  <2>2. CASE Goes(p, "decide") /\ op[p].kind = "approve"
    BY <1>a, <2>1, <2>2, WizardQuiet DEF Goes
  <2> QED BY <1>e, <2>1, <2>2
<1>8. ASSUME NEW p \in Procs, GetRequest(p) PROVE WizardInv'
  <2>1. op[p].pc = "get" /\ UNCHANGED <<requests, worlds>>
    BY <1>8, GetFacts
  <2>2. CASE ~Ends(p)
    <3>1. /\ Others(p) /\ op'[p].kind = op[p].kind /\ op'[p].pc \in {"create", "decide"}
      BY <1>8, <2>2, GetFacts
    <3>2. op[p].kind # "wizard"
      BY <1>0, <2>1 DEF CallIsSound
    <3> QED BY <1>a, <2>1, <3>1, <3>2, WizardQuiet
  <2> QED BY <1>e, <2>1, <2>2
<1>9. ASSUME NEW p \in Procs, PutDecision(p) PROVE WizardInv'
  <2>1. /\ Others(p) /\ op'[p].kind = "none" /\ op'[p].pc = "idle"
    BY <1>9, PutFacts DEF Ends, Idle
  <2>2. \A a \in Accounts : Direct(a)' \subseteq Direct(a)
    BY <1>9, PutFacts DEF Direct
  <2>3. /\ DOMAIN requests' = DOMAIN requests
        /\ \A r \in DOMAIN requests : requests'[r].by = requests[r].by /\ (Pending(r)' => Pending(r))
    BY <1>9, PutFacts DEF Pending
  <2> QED BY <2>1, <2>2, <2>3, WizardQuiet
<1>10. ASSUME NEW w \in worlds, DeleteInstance(w) PROVE WizardInv'
  <2>1. UNCHANGED <<requests, op>> /\ worlds' \subseteq worlds
    BY <1>10 DEF DeleteInstance
  <2>2. ASSUME NEW a \in Accounts
        PROVE  /\ Cardinality(Direct(a)') <= Cardinality(Direct(a))
               /\ Cardinality(Direct(a)') \in Nat /\ Cardinality(Direct(a)) \in Nat
    <3>1. IsFiniteSet(Direct(a)) /\ Cardinality(Direct(a)) \in Nat
      BY DirectCounted
    <3>2. Direct(a)' \in SUBSET Direct(a)
      BY <2>1 DEF Direct
    <3> QED BY <3>1, <3>2, FS_Subset, FS_CardinalityType
  <2>3. OneCall' /\ ListedBefore' /\ OnePendingRequest'
    BY <2>1 DEF WizardInv, LimitsKept, OneCall, ListedBefore, OnePendingRequest, Pending
  <2>4. CountedBefore'
    BY <2>1, <2>2, RequestsAssumption DEF WizardInv, CountedBefore
  <2>5. AllowanceKept'
    <3> SUFFICES ASSUME NEW a \in Accounts \ Admins PROVE Cardinality(Direct(a)') <= CreationLimit
      BY DEF AllowanceKept, Direct
    <3>1. Cardinality(Direct(a)) <= CreationLimit
      BY DEF WizardInv, LimitsKept, AllowanceKept, Direct
    <3> QED BY <2>2, <3>1, RequestsAssumption
  <2> QED BY <2>3, <2>4, <2>5 DEF WizardInv, LimitsKept
<1>11. CASE UNCHANGED vars
  BY <1>11 DEF vars, WizardInv, LimitsKept, OneCall, CountedBefore, ListedBefore, AllowanceKept,
               OnePendingRequest, Pending, Direct
<1> QED
  BY <1>1, <1>2, <1>3, <1>4, <1>5, <1>6, <1>7, <1>8, <1>9, <1>10, <1>11 DEF Next, Arrive, Step

(* As long as no Account submits the form twice at once, and every game is   *)
(* counted: no Account has more worlds it created unaided than CreationLimit *)
(* (MayCreateDirectly), nor two Requests pending (Submit), whatever other    *)
(* Accounts, decisions, deletes and faults do between the check and the act. *)
THEOREM LimitsHold == OnePerAccount /\ Games \subseteq Counted => (Spec => []LimitsKept)
<1> SUFFICES ASSUME OnePerAccount, Games \subseteq Counted PROVE Spec => []LimitsKept
  OBVIOUS
<1>1. Init => WizardInv
  BY WizardInit
<1>2. BaseInv /\ WizardInv /\ [Next]_vars => WizardInv'
  BY WizardNext
<1>3. WizardInv => LimitsKept
  BY DEF WizardInv
<1> QED BY <1>1, <1>2, <1>3, BaseHolds, PTL DEF Spec

-----------------------------------------------------------------------------
(* The decisions, taken one after the other *)

Deciding(p) == op[p].kind \in {"approve", "deny"}

(* One decision is taken at a time, on a Request that is still pending; and  *)
(* where a pending Request has a world, that decision is the approval that   *)
(* has created it and is about to grant it, or has, and to save.             *)
OneDecision == \A p, q \in Procs : Deciding(p) /\ Deciding(q) => p = q

StillPending ==
  \A p \in Procs : Deciding(p) /\ op[p].pc \in {"create", "grant", "decide"} => Pending(op[p].req)

Approving(p, w) ==
  /\ op[p].kind = "approve" /\ op[p].req = w.req
  /\ \/ op[p].pc = "grant" /\ op[p].world = w.id
     \/ op[p].pc = "decide" /\ w.id \in granted

BeingApproved ==
  \A w \in worlds : w.req # 0 /\ Pending(w.req) => \E p \in Procs : Approving(p, w)

DecisionInv == OneDecision /\ StillPending /\ BeingApproved /\ OneWorldPerRequest /\ ApprovalIsWhole

(* A step of a call that is not in the middle of an approval, and that        *)
(* decides nothing.                                                          *)
LEMMA DecisionQuiet ==
  ASSUME BaseInv, DecisionInv, NEW p \in Procs, Others(p),
         DOMAIN requests \subseteq DOMAIN requests',
         \A r \in DOMAIN requests : requests'[r] = requests[r],
         worlds' \subseteq worlds \cup {w \in WorldRows : w.req = 0}, granted \subseteq granted',
         ~(op[p].kind = "approve" /\ op[p].pc \in {"grant", "decide"}),
         op'[p].kind \in {"approve", "deny"} =>
           /\ Deciding(p) \/ \A q \in Procs : ~Deciding(q)
           /\ op'[p].pc \in {"create", "grant", "decide"} =>
                op'[p].req \in DOMAIN requests /\ Pending(op'[p].req)
  PROVE  DecisionInv'
<1>0. \A q \in Procs : q # p => op'[q] = op[q]
  BY DEF Others
<1>1. OneDecision'
  BY <1>0 DEF DecisionInv, OneDecision, Deciding
<1>2. \A r \in DOMAIN requests : Pending(r)' <=> Pending(r)
  BY DEF Pending
<1>3. StillPending'
  <2> SUFFICES ASSUME NEW q \in Procs, Deciding(q)', op'[q].pc \in {"create", "grant", "decide"}
               PROVE  requests'[op'[q].req].status = "pending"
    BY DEF StillPending, Pending
  <2>1. CASE q = p
    BY <1>2, <2>1 DEF Deciding, Pending
  <2>2. CASE q # p
    <3>1. op'[q] = op[q] /\ Deciding(q) /\ op[q].req \in DOMAIN requests
      BY <1>0, <2>2 DEF Deciding, BaseInv, CallsAreSound, CallIsSound
    <3>2. Pending(op[q].req)
      BY <3>1 DEF DecisionInv, StillPending
    <3> QED BY <1>2, <3>1, <3>2 DEF Pending
  <2> QED BY <2>1, <2>2
<1>4. ASSUME NEW w \in worlds', w.req # 0
      PROVE  w \in worlds /\ w.req \in DOMAIN requests
  BY <1>4 DEF BaseInv, WorldsAreSound
<1>5. BeingApproved'
  <2> SUFFICES ASSUME NEW w \in worlds', w.req # 0, requests'[w.req].status = "pending"
               PROVE  \E q \in Procs : Approving(q, w)'
    BY DEF BeingApproved, Pending
  <2>1. w \in worlds /\ Pending(w.req)
    BY <1>4 DEF Pending
  <2>2. PICK q \in Procs : Approving(q, w)
    BY <2>1 DEF DecisionInv, BeingApproved
  <2>3. q # p
    BY <2>2 DEF Approving
  <2> QED BY <1>0, <2>2, <2>3 DEF Approving
<1>6. OneWorldPerRequest'
  BY <1>4 DEF DecisionInv, OneWorldPerRequest
<1>7. ApprovalIsWhole'
  BY <1>4 DEF DecisionInv, ApprovalIsWhole
<1> QED BY <1>1, <1>3, <1>5, <1>6, <1>7 DEF DecisionInv

LEMMA DecisionInit == Init => DecisionInv
BY DEF Init, Idle, DecisionInv, OneDecision, StillPending, BeingApproved, OneWorldPerRequest,
       ApprovalIsWhole, Deciding

LEMMA DecisionNext ==
  ASSUME OneDecider, Faults \cap {"grant", "put"} = {}, BaseInv, DecisionInv, [Next]_vars
  PROVE  /\ DecisionInv'
         /\ \A r \in DOMAIN requests : ~Pending(r) => requests'[r] = requests[r]
<1> DEFINE Final == \A r \in DOMAIN requests : ~Pending(r) => requests'[r] = requests[r]
<1>0. /\ op \in [Procs -> Calls] /\ requests \in Seq(RequestRows)
      /\ \A p \in Procs : CallIsSound(p)
  BY DEF BaseInv, RequestsTypeOK, CallsAreSound
<1>1. ASSUME NEW p \in Procs, NEW a \in Accounts, NEW g \in Games, SubmitWizard(p, a, g)
      PROVE  DecisionInv' /\ Final
  <2>1. Others(p) /\ UNCHANGED <<requests, worlds, granted>> /\ op'[p].kind = "wizard" /\ op[p].pc = "idle"
    BY <1>1, SubmitWizardFacts DEF SubmitWizard, At
  <2> QED BY <2>1, DecisionQuiet
<1>2. ASSUME NEW p \in Procs, NEW kind \in {"approve", "deny"}, NEW r \in DOMAIN requests, Decide(p, kind, r)
      PROVE  DecisionInv' /\ Final
  <2>1. /\ Others(p) /\ UNCHANGED <<requests, worlds, granted>> /\ op'[p].pc = "get" /\ op[p].pc = "idle"
        /\ \A q \in Procs : ~Deciding(q)
    BY <1>2, DecideFacts DEF Decide, At, Deciding
  <2> QED BY <2>1, DecisionQuiet
<1>e. ASSUME NEW p \in Procs, Ends(p), UNCHANGED <<requests, worlds>>, granted \subseteq granted',
             ~(op[p].kind = "approve" /\ op[p].pc \in {"grant", "decide"})
      PROVE  DecisionInv' /\ Final
  <2>1. Others(p) /\ op'[p].kind = "none"
    BY <1>e DEF Ends, Idle
  <2> QED BY <1>e, <2>1, DecisionQuiet
<1>3. ASSUME NEW p \in Procs, MayCreateDirectly(p) PROVE DecisionInv' /\ Final
  <2>1. op[p].pc = "count" /\ UNCHANGED <<requests, worlds, granted>> /\ op[p].kind = "wizard"
    BY <1>0, <1>3, CountFacts DEF CallIsSound, Calls, Kinds
  <2>2. CASE Goes(p, "list") \/ Goes(p, "create")
    BY <2>1, <2>2, DecisionQuiet DEF Goes
  <2> QED BY <1>3, <1>e, <2>1, <2>2, CountFacts
<1>4. ASSUME NEW p \in Procs, Submit(p) PROVE DecisionInv' /\ Final
  <2>1. op[p].pc = "list" /\ UNCHANGED <<requests, worlds, granted>> /\ op[p].kind = "wizard"
    BY <1>0, <1>4, SubmitFacts DEF CallIsSound, Calls, Kinds
  <2>2. CASE Goes(p, "file")
    BY <2>1, <2>2, DecisionQuiet DEF Goes
  <2> QED BY <1>4, <1>e, <2>1, <2>2, SubmitFacts
<1>5. ASSUME NEW p \in Procs, FileRequest(p) PROVE DecisionInv' /\ Final
  <2>1. op[p].pc = "file" /\ Ends(p) /\ UNCHANGED <<worlds, granted>>
    BY <1>5, FileFacts
  <2>2. DOMAIN requests \subseteq DOMAIN requests' /\ \A r \in DOMAIN requests : requests'[r] = requests[r]
    <3>1. ASSUME NEW r \in RequestRows, requests' = Append(requests, r)
          PROVE  DOMAIN requests \subseteq DOMAIN requests' /\ \A i \in DOMAIN requests : requests'[i] = requests[i]
      BY <1>0, <3>1, RequestsOnlyGrow
    <3> QED BY <1>5, <3>1, FileFacts
  <2>3. Others(p) /\ op'[p].kind = "none"
    BY <2>1 DEF Ends, Idle
  <2> QED BY <2>1, <2>2, <2>3, DecisionQuiet
<1>6. ASSUME NEW p \in Procs, CreateInstance(p) PROVE DecisionInv' /\ Final
  <2>1. op[p].pc = "create" /\ UNCHANGED <<requests, granted>>
    BY <1>6, CreateFacts
  <2>2. CASE Ends(p) /\ UNCHANGED worlds
    BY <1>e, <2>1, <2>2
  <2>3. ASSUME NEW w \in WorldRows, w.id = made + 1, w.req = op[p].req, worlds' = worlds \cup {w},
               \/ Ends(p) /\ op[p].kind = "wizard"
               \/ Goes(p, "grant") /\ op'[p].world = made + 1
        PROVE  DecisionInv' /\ Final
    <3>1. CASE op[p].kind = "wizard"
      <4>1. w.req = 0
        BY <1>0, <2>3, <3>1 DEF CallIsSound
      <4>2. Others(p) /\ op'[p].kind \in {"none", "wizard"}
        BY <2>3, <3>1 DEF Ends, Goes, Idle
      <4> QED BY <2>1, <2>3, <3>1, <4>1, <4>2, DecisionQuiet
    <3>2. CASE op[p].kind # "wizard"
      <4>1. op[p].kind = "approve" /\ Deciding(p) /\ op[p].req \in DOMAIN requests /\ Pending(op[p].req)
        BY <1>0, <2>1, <3>2 DEF CallIsSound, Calls, Kinds, Deciding, DecisionInv, StillPending
      <4>2. /\ op'[p].kind = "approve" /\ op'[p].req = op[p].req /\ op'[p].pc = "grant"
            /\ op'[p].world = w.id /\ \A q \in Procs : q # p => op'[q] = op[q]
        BY <2>3, <3>2, <4>1 DEF Goes, Others
      <4>3. ASSUME NEW v \in worlds, v.req # 0 PROVE v.req # w.req /\ ~Pending(v.req)
        <5>1. \A q \in Procs : ~Approving(q, v)
          BY <2>1, <4>1 DEF DecisionInv, OneDecision, Deciding, Approving
        <5>2. ~Pending(v.req)
          BY <4>3, <5>1 DEF DecisionInv, BeingApproved
        <5> QED BY <2>3, <4>1, <5>2
      <4>4. OneDecision'
        BY <4>1, <4>2 DEF DecisionInv, OneDecision, Deciding
      <4>5. StillPending'
        BY <2>1, <4>1, <4>2 DEF DecisionInv, StillPending, Deciding, Pending
      <4>6. BeingApproved'
        <5> SUFFICES ASSUME NEW v \in worlds', v.req # 0, requests'[v.req].status = "pending"
                     PROVE  \E q \in Procs : Approving(q, v)'
          BY DEF BeingApproved, Pending
        <5>1. v = w
          BY <2>1, <2>3, <4>3 DEF Pending
        <5> QED BY <2>3, <4>2, <5>1 DEF Approving
      <4>7. OneWorldPerRequest'
        BY <2>3, <4>3 DEF DecisionInv, OneWorldPerRequest
      <4>8. ApprovalIsWhole'
        <5>1. requests[w.req].status = "pending"
          BY <2>3, <4>1 DEF Pending
        <5> QED BY <2>1, <2>3, <5>1 DEF DecisionInv, ApprovalIsWhole
      <4> QED BY <2>1, <4>4, <4>5, <4>6, <4>7, <4>8 DEF DecisionInv
    <3> QED BY <3>1, <3>2
  <2> QED BY <1>6, <2>2, <2>3, CreateFacts
<1>7. ASSUME NEW p \in Procs, GrantCreator(p) PROVE DecisionInv' /\ Final
  <2>1. op[p].pc = "grant" /\ UNCHANGED <<requests, worlds>> /\ granted' = granted \cup {op[p].world}
    BY <1>7, GrantFacts
  <2>2. CASE Ends(p) /\ op[p].kind # "approve"
    BY <1>e, <2>1, <2>2
  <2>3. CASE Goes(p, "decide") /\ op[p].kind = "approve"
    <3>1. /\ op'[p].kind = "approve" /\ op'[p].req = op[p].req /\ op'[p].pc = "decide"
          /\ \A q \in Procs : q # p => op'[q] = op[q]
      BY <2>3 DEF Goes, Others
    <3>2. OneDecision'
      BY <2>3, <3>1 DEF DecisionInv, OneDecision, Deciding
    <3>3. StillPending'
      BY <2>1, <2>3, <3>1 DEF DecisionInv, StillPending, Deciding, Pending
    <3>4. BeingApproved'
      <4> SUFFICES ASSUME NEW w \in worlds', w.req # 0, requests'[w.req].status = "pending"
                   PROVE  \E q \in Procs : Approving(q, w)'
        BY DEF BeingApproved, Pending
      <4>1. PICK q \in Procs : Approving(q, w)
        BY <2>1 DEF DecisionInv, BeingApproved, Pending
      <4>2. Approving(q, w)'
        BY <2>1, <3>1, <4>1 DEF Approving
      <4> QED BY <4>2
    <3>5. OneWorldPerRequest' /\ ApprovalIsWhole'
      BY <2>1 DEF DecisionInv, OneWorldPerRequest, ApprovalIsWhole
    <3> QED BY <2>1, <3>2, <3>3, <3>4, <3>5 DEF DecisionInv
  <2> QED BY <1>7, <2>2, <2>3, GrantFacts
<1>8. ASSUME NEW p \in Procs, GetRequest(p) PROVE DecisionInv' /\ Final
  <2>1. op[p].pc = "get" /\ UNCHANGED <<requests, worlds, granted>>
    BY <1>8, GetFacts
  <2>2. CASE ~Ends(p)
    <3>1. /\ Others(p) /\ op'[p].kind = op[p].kind /\ op'[p].req = op[p].req /\ Pending(op[p].req)
      BY <1>8, <2>2, GetFacts
    <3>2. Deciding(p) /\ op[p].req \in DOMAIN requests
      BY <1>0, <2>1 DEF CallIsSound, Calls, Kinds, Deciding
    <3> QED BY <2>1, <3>1, <3>2, DecisionQuiet
  <2> QED BY <1>e, <2>1, <2>2
<1>9. ASSUME NEW p \in Procs, PutDecision(p) PROVE DecisionInv' /\ Final
  <2> DEFINE r == op[p].req
  <2>1. /\ op[p].pc = "decide" /\ Ends(p) /\ UNCHANGED <<worlds, granted>>
        /\ DOMAIN requests' = DOMAIN requests /\ r \in DOMAIN requests
        /\ \A i \in DOMAIN requests : i # r => requests'[i] = requests[i]
        /\ requests'[r].status = IF op[p].kind = "approve" THEN "approved" ELSE "denied"
    BY <1>9, PutFacts
  <2>2. Deciding(p) /\ Pending(r)
    BY <1>0, <2>1 DEF CallIsSound, Calls, Kinds, Deciding, DecisionInv, StillPending
  <2>3. Final
    BY <2>1, <2>2
  <2>4. ~Deciding(p)' /\ \A q \in Procs : q # p => op'[q] = op[q] /\ ~Deciding(q)
    BY <2>1, <2>2 DEF Ends, Others, Idle, Deciding, DecisionInv, OneDecision
  <2>5. OneDecision' /\ StillPending'
    BY <2>4 DEF OneDecision, StillPending, Deciding
  <2>6. ASSUME NEW w \in worlds, w.req # 0, Pending(w.req)
        PROVE  w.req = r /\ op[p].kind = "approve" /\ w.id \in granted
    <3>1. PICK q \in Procs : Approving(q, w)
      BY <2>6 DEF DecisionInv, BeingApproved
    <3>2. q = p
      BY <2>4, <3>1 DEF Approving, Deciding
    <3> QED BY <2>1, <3>1, <3>2 DEF Approving
  <2>7. \A w \in worlds : w.req # 0 => w.req \in DOMAIN requests
    BY DEF BaseInv, WorldsAreSound
  <2>8. BeingApproved'
    BY <2>1, <2>6, <2>7 DEF BeingApproved, Pending
  <2>9. OneWorldPerRequest'
    BY <2>1 DEF DecisionInv, OneWorldPerRequest
  <2>10. ApprovalIsWhole'
    <3> SUFFICES ASSUME NEW w \in worlds, w.req # 0
                 PROVE  /\ requests'[w.req].status = "approved" => w.id \in granted
                        /\ requests'[w.req].status # "denied"
      BY <2>1 DEF ApprovalIsWhole
    <3>1. CASE w.req = r
      BY <2>1, <2>2, <2>6, <3>1
    <3>2. CASE w.req # r
      BY <2>1, <2>7, <3>2 DEF DecisionInv, ApprovalIsWhole
    <3> QED BY <3>1, <3>2
  <2> QED BY <2>3, <2>5, <2>8, <2>9, <2>10 DEF DecisionInv
<1>10. ASSUME NEW w \in worlds, DeleteInstance(w) PROVE DecisionInv' /\ Final
  <2>1. UNCHANGED <<requests, granted, op>> /\ worlds' \subseteq worlds
    BY <1>10 DEF DeleteInstance
  <2>2. OneDecision' /\ StillPending' /\ OneWorldPerRequest' /\ ApprovalIsWhole'
    BY <2>1 DEF DecisionInv, OneDecision, StillPending, OneWorldPerRequest, ApprovalIsWhole,
                Deciding, Pending
  <2>3. BeingApproved'
    BY <2>1 DEF DecisionInv, BeingApproved, Approving, Pending
  <2> QED BY <2>1, <2>2, <2>3 DEF DecisionInv
<1>11. ASSUME UNCHANGED vars PROVE DecisionInv' /\ Final
  BY <1>11 DEF vars, DecisionInv, OneDecision, StillPending, BeingApproved, OneWorldPerRequest,
               ApprovalIsWhole, Deciding, Approving, Pending
<1> HIDE DEF Final
<1>12. DecisionInv' /\ Final
  BY <1>1, <1>2, <1>3, <1>4, <1>5, <1>6, <1>7, <1>8, <1>9, <1>10, <1>11 DEF Next, Arrive, Step
<1> QED BY <1>12 DEF Final

(* As long as decisions are taken one after the other, and the calls that    *)
(* follow a create do not fail: a Request makes one world at most, granted to *)
(* whoever asked once it is approved and none if it is denied, and a decision *)
(* is never overturned (Approve, Deny), for any number of Accounts, calls,   *)
(* failed reads and creates, and deletes in between.                         *)
THEOREM DecisionsAreFinal ==
  OneDecider /\ Faults \cap {"grant", "put"} = {} => (Spec => DecidedOnceAndWhole)
<1> SUFFICES ASSUME OneDecider, Faults \cap {"grant", "put"} = {} PROVE Spec => DecidedOnceAndWhole
  OBVIOUS
<1>1. Init => DecisionInv
  BY DecisionInit
<1>2. BaseInv /\ DecisionInv /\ [Next]_vars => DecisionInv'
  BY DecisionNext
<1>3. BaseInv /\ DecisionInv /\ [Next]_vars =>
        [\A r \in DOMAIN requests : ~Pending(r) => requests'[r] = requests[r]]_vars
  BY DecisionNext
<1>4. DecisionInv => OneWorldPerRequest /\ ApprovalIsWhole
  BY DEF DecisionInv
<1> QED BY <1>1, <1>2, <1>3, <1>4, BaseHolds, PTL DEF Spec, DecidedOnceAndWhole, DecisionIsFinal

=============================================================================
