-------------------------- MODULE InstancesProofs --------------------------
(***************************************************************************)
(* Proofs about Instances for every number of slots, requests and worlds.  *)
(***************************************************************************)
EXTENDS Instances, FiniteSetTheorems, WellFoundedInduction, TLAPS

-----------------------------------------------------------------------------
(* Lemmas about the lowest Number of a set *)

(* The refresh loop of ListInstances and the allocation of CreateInstance   *)
(* take the lowest Number of a set: it is a member, and none is lower.       *)
LEMMA MinIsLeast ==
  ASSUME NEW S \in SUBSET Nat, S # {}
  PROVE  Min(S) \in S /\ \A y \in S : Min(S) <= y
<1> DEFINE R == OpToRel(<, Nat)
<1>1. IsWellFoundedOn(R, Nat)
  BY NatLessThanWellFounded
<1>2. \A i, j \in Nat : i < j => <<i, j>> \in R
  BY DEF OpToRel
<1> HIDE DEF R
<1>3. PICK x \in S : \A y \in S : ~ (<<y, x>> \in R)
  BY <1>1, WFMin
<1>4. ASSUME NEW y \in S PROVE x =< y
  <2>1. x \in Nat /\ y \in Nat
    OBVIOUS
  <2>2. ~ (y < x)
    BY <1>2, <1>3, <2>1, Zenon
  <2> QED
    BY <2>1, <2>2
<1> QED
  BY <1>4 DEF Min

(* It is a member of the set.                                                *)
LEMMA MinIsMember ==
  ASSUME NEW S \in SUBSET Nat, S # {}
  PROVE  Min(S) \in S
BY MinIsLeast

(* When CanCreate admits a create, some Number is free and the lowest of    *)
(* them is a Number.                                                        *)
LEMMA FreeNumber ==
  ASSUME CanCreate(Used)
  PROVE  /\ Min(Numbers \ Used) \in Numbers
         /\ Min(Numbers \ Used) \notin Used
<1>1. Used \subseteq Numbers
  BY DEF Used
<1>2. IsFiniteSet(Numbers) /\ Cardinality(Numbers) = MaxInstances
  BY FS_Interval, ConstantsAssumption DEF Numbers
<1>3. ASSUME Numbers \ Used = {} PROVE FALSE
  <2>1. Used = Numbers
    BY <1>1, <1>3
  <2> QED
    BY <1>2, <2>1, ConstantsAssumption DEF CanCreate
<1>4. Numbers \ Used \in SUBSET Nat
  BY ConstantsAssumption DEF Numbers
<1> QED
  BY <1>3, <1>4, MinIsMember

-----------------------------------------------------------------------------
(* Types: what one request's record and the tables may hold *)

(* The fields of a request's record, and the members of the sets it holds.  *)
LEMMA OpFields ==
  ASSUME TypeOK, NEW p \in Procs
  PROVE  /\ op[p] \in Ops
         /\ op[p].kind \in AllKinds \cup {"none"}
         /\ op[p].pc \in Pcs
         /\ op[p].n \in Numbers \cup {0}
         /\ op[p].size \in Sizes \cup {0}
         /\ op[p].inst \in Rows
         /\ op[p].copy \in [Numbers -> Rows]
         /\ op[p].todo \in SUBSET Numbers
         /\ op[p].second \in BOOLEAN
         /\ op[p].todo # {} => Min(op[p].todo) \in op[p].todo /\ Min(op[p].todo) \in Numbers
<1>1. op[p] \in Ops
  BY DEF TypeOK
<1>2. op[p].todo \in SUBSET Numbers
  BY <1>1 DEF Ops
<1>3. ASSUME op[p].todo # {} PROVE Min(op[p].todo) \in op[p].todo /\ Min(op[p].todo) \in Numbers
  <2>1. op[p].todo \in SUBSET Nat
    BY <1>2, ConstantsAssumption DEF Numbers
  <2>2. Min(op[p].todo) \in op[p].todo
    BY <1>3, <2>1, MinIsMember
  <2> QED
    BY <1>2, <2>2
<1> QED
  BY <1>1, <1>2, <1>3 DEF Ops

(* A step of one request replaces its record and leaves the others alone. *)
LEMMA OpUpdate ==
  ASSUME TypeOK, PcOK, NEW p \in Procs, NEW o \in Ops, CallOK(o), op' = [op EXCEPT ![p] = o]
  PROVE  op' \in [Procs -> Ops] /\ PcOK'
<1>1. op' \in [Procs -> Ops]
  BY DEF TypeOK
<1>2. ASSUME NEW q \in Procs PROVE CallOK(op'[q])
  <2>1. CASE q = p
    BY <2>1 DEF TypeOK
  <2>2. CASE q # p
    BY <2>2 DEF TypeOK, PcOK
  <2> QED
    BY <2>1, <2>2
<1> QED
  BY <1>1, <1>2 DEF PcOK

(* A goroutine with no request is well typed and makes no call. *)
LEMMA IdleType == Idle \in Ops /\ CallOK(Idle)
<1>1. Idle \in Ops
  BY ConstantsAssumption DEF Ops, Rows, Pcs, Idle, NoRow, WorldIDs, States, Addresses, Numbers
<1>2. CallOK(Idle)
  BY DEF CallOK, Idle
<1> QED
  BY <1>1, <1>2

(* Return: the record is idle again, and the mutex is still held by nobody  *)
(* or by a request.                                                         *)
LEMMA ReturnStep ==
  ASSUME TypeOK, PcOK, NEW p \in Procs, Return(p)
  PROVE  op' \in [Procs -> Ops] /\ lock' \in Procs \cup {NoProc} /\ PcOK'
<1>1. op' \in [Procs -> Ops] /\ PcOK'
  BY IdleType, OpUpdate DEF Return
<1>2. lock' \in Procs \cup {NoProc}
  BY DEF Return, TypeOK
<1> QED
  BY <1>1, <1>2

(* Goto: only the pc of the record changes. *)
LEMMA GotoStep ==
  ASSUME TypeOK, PcOK, NEW p \in Procs, NEW c \in Pcs, Goto(p, c), CallOK([op[p] EXCEPT !.pc = c])
  PROVE  op' \in [Procs -> Ops] /\ PcOK'
<1>1. op[p] \in Ops
  BY OpFields
<1>2. [op[p] EXCEPT !.pc = c] \in Ops
  BY <1>1 DEF Ops
<1>3. op' = [op EXCEPT ![p] = [op[p] EXCEPT !.pc = c]]
  BY DEF Goto, TypeOK
<1> QED
  BY <1>2, <1>3, OpUpdate

(* A request that needs no record any more keeps its kind and its Number. *)
LEMMA LaterFields ==
  ASSUME NEW o \in Ops, NEW c \in Pcs
  PROVE  /\ Later(o, c) \in Ops
         /\ Later(o, c).kind = o.kind /\ Later(o, c).pc = c /\ Later(o, c).n = o.n
         /\ Later(o, c).copy = [k \in Numbers |-> NoRow]
         /\ Later(o, c).inst = NoRow /\ ~Later(o, c).second
<1>1. Idle \in Ops
  BY IdleType
<1>2. Idle.copy = [k \in Numbers |-> NoRow] /\ Idle.inst = NoRow /\ ~Idle.second
  BY DEF Idle
<1> QED
  BY <1>1, <1>2 DEF Later, Ops

(* repo.Upsert and repo.UpdateState keep the table a table of rows. *)
LEMMA UpsertType ==
  ASSUME NEW t \in [Numbers -> Rows], NEW n \in Numbers, NEW r \in Rows
  PROVE  Upsert(t, n, r) \in [Numbers -> Rows]
<1>1. t[n].world \in WorldIDs
  BY DEF Rows
<1>2. [r EXCEPT !.world = t[n].world] \in Rows
  BY <1>1 DEF Rows
<1> QED
  BY <1>2 DEF Upsert

(* UpdateState keeps the table well typed. *)
LEMMA UpdateStateType ==
  ASSUME NEW t \in [Numbers -> Rows], NEW n \in Numbers, NEW s \in States
  PROVE  UpdateState(t, n, s) \in [Numbers -> Rows]
<1>1. [t[n] EXCEPT !.state = s] \in Rows
  BY DEF Rows
<1> QED
  BY <1>1 DEF UpdateState

(* The empty record, directory and server are well typed. *)
LEMMA EmptyRecords == NoRow \in Rows /\ NoDir \in Dirs /\ NoServer \in Servers
BY ConstantsAssumption
   DEF NoRow, NoDir, NoServer, Rows, Dirs, Servers, WorldIDs, States, Addresses, Phases

(* The record a request works on is well typed. *)
LEMMA HeldType ==
  ASSUME TypeOK, NEW p \in Procs, op[p].n \in Numbers
  PROVE  Held(p) \in Rows /\ Held(p).world \in WorldIDs /\ Held(p).mem \in Sizes \cup {0}
<1>1. Held(p) \in Rows
  BY OpFields DEF Held
<1> QED
  BY <1>1 DEF Rows

(* A server keeps its type whatever phase it enters. *)
LEMMA PhaseType ==
  ASSUME TypeOK, NEW n \in Numbers, NEW ph \in Phases
  PROVE  [srv EXCEPT ![n].phase = ph] \in [Numbers -> Servers]
<1>1. [srv[n] EXCEPT !.phase = ph] \in Servers
  BY DEF TypeOK, Servers
<1> QED
  BY <1>1 DEF TypeOK

(* Retiring a Role keeps the types of the identity provider. *)
LEMMA RemoveRoleType ==
  ASSUME TypeOK, NEW n \in Numbers, RemoveRole(n)
  PROVE  role' \in [Numbers -> BOOLEAN] /\ keepers' \in [Numbers -> SUBSET (1 .. MaxWorlds)]
BY DEF TypeOK, RemoveRole

-----------------------------------------------------------------------------
(* Type correctness: one step per action *)

(* Every call a request makes keeps the types, and leaves the request at a  *)
(* call its operation really makes.                                         *)
LEMMA TypeStep ==
  ASSUME TypeOK, PcOK, NEW p \in Procs, Step(p)
  PROVE  TypeOK' /\ PcOK'
<1> DEFINE n == op[p].n
<1> DEFINE m == Min(op[p].todo)
<1> DEFINE Locks == Procs \cup {NoProc}
<1> DEFINE OpOK == op' \in [Procs -> Ops] /\ lock' \in Locks /\ PcOK'
<1>a. CallOK(op[p])
  BY DEF PcOK
<1>b. lock \in Locks
  BY DEF TypeOK
<1>r. Return(p) => OpOK
  BY ReturnStep
<1>g. ASSUME NEW c \in Pcs, CallOK([op[p] EXCEPT !.pc = c]), Goto(p, c), UNCHANGED lock
      PROVE  OpOK
  BY <1>b, <1>g, GotoStep
<1>u. ASSUME NEW o \in Ops, CallOK(o), op' = [op EXCEPT ![p] = o], lock' \in Locks
      PROVE  OpOK
  BY <1>u, OpUpdate
<1>l. ASSUME NEW c \in {"mark", "destroy", "undir"}, GotoForgetting(p, c), UNCHANGED lock,
             op[p].kind = IF c = "mark" THEN op[p].kind ELSE "delete",
             c = "mark" => op[p].kind \in {"start", "stop"}, n \in Numbers
      PROVE  OpOK
  <2>1. c \in Pcs /\ op[p] \in Ops
    BY OpFields DEF Pcs
  <2>2. CallOK(Later(op[p], c))
    BY <1>l, <2>1, LaterFields DEF CallOK
  <2> QED
    BY <1>b, <1>l, <1>u, <2>1, <2>2, LaterFields DEF GotoForgetting
<1>1. CASE AcquireBudget(p)
  <2> DEFINE c == IF op[p].kind = "create" THEN "pick" ELSE "get"
  <2>1. CallOK([op[p] EXCEPT !.pc = c]) /\ c \in Pcs
    BY <1>1, <1>a, OpFields DEF AcquireBudget, CallOK, Ops, Pcs, At
  <2>2. op' \in [Procs -> Ops] /\ PcOK'
    BY <1>1, <2>1, GotoStep DEF AcquireBudget
  <2> QED
    BY <1>1, <2>2 DEF AcquireBudget, TypeOK
<1>2. CASE GetInstance(p)
  <2>1. CASE Return(p)
    BY <1>2, <1>r, <2>1 DEF GetInstance, TypeOK
  <2>2. CASE ~Return(p)
    <3> DEFINE o == [op[p] EXCEPT !.pc = "status", !.todo = {n}, !.copy = [op[p].copy EXCEPT ![n] = row[n]]]
    <3>1. n \in Numbers
      BY <1>2, <1>a DEF GetInstance, CallOK, At
    <3>2. op' = [op EXCEPT ![p] = o] /\ UNCHANGED lock
      <4>1. /\ op' = [op EXCEPT ![p].pc = "status", ![p].todo = {n}, ![p].copy[n] = row[n]]
            /\ UNCHANGED lock
        BY <1>2, <2>2 DEF GetInstance
      <4> QED
        BY <3>1, <4>1, OpFields DEF TypeOK, Ops
    <3>3. [op[p].copy EXCEPT ![n] = row[n]] \in [Numbers -> Rows]
      BY <3>1, OpFields DEF TypeOK
    <3>4. o \in Ops
      BY <3>1, <3>3, OpFields DEF Ops, Pcs
    <3>5. CallOK(o)
      BY <1>2, <1>a, OpFields DEF CallOK, Ops, GetInstance, At
    <3>6. OpOK
      BY <1>b, <1>u, <3>2, <3>4, <3>5
    <3> QED
      BY <1>2, <3>6 DEF GetInstance, TypeOK
  <2> QED
    BY <2>1, <2>2
<1>3. CASE ListInstances(p)
  <2>1. CASE Return(p)
    BY <1>3, <1>r, <2>1 DEF ListInstances, TypeOK
  <2>2. CASE ~Return(p)
    <3> DEFINE o == [op[p] EXCEPT !.pc = "status", !.todo = Used, !.copy = row, !.second = TRUE]
    <3>1. op' = [op EXCEPT ![p] = o] /\ UNCHANGED lock
      BY <1>3, <2>2 DEF ListInstances, TypeOK
    <3>2. Used \in SUBSET Numbers /\ row \in [Numbers -> Rows]
      BY DEF Used, TypeOK
    <3>3. o \in Ops
      BY <3>2, OpFields DEF Ops, Pcs
    <3>4. CallOK(o)
      BY <1>3, <1>a, OpFields DEF CallOK, Ops, ListInstances, At
    <3>5. OpOK
      BY <1>b, <1>u, <3>1, <3>3, <3>4
    <3> QED
      BY <1>3, <3>5 DEF ListInstances, TypeOK
  <2> QED
    BY <2>1, <2>2
<1>4. CASE ReadStatus(p)
  <2> DEFINE s == stateFromStatus(srv[m].phase)
  <2> DEFINE o1 == [op[p] EXCEPT !.todo = op[p].todo \ {m}]
  <2> DEFINE r == [op[p].copy[m] EXCEPT !.state = s]
  <2> DEFINE o2 == [op[p] EXCEPT !.pc = "persist", !.copy = [op[p].copy EXCEPT ![m] = r]]
  <2>1. m \in Numbers /\ op[p].todo # {}
    BY <1>4, OpFields DEF ReadStatus
  <2>2. r \in Rows
    <3>1. s \in States
      BY DEF stateFromStatus, States
    <3>2. op[p].copy[m] \in Rows
      BY <2>1, OpFields
    <3> QED
      BY <3>1, <3>2 DEF Rows
  <2>3. op' = [op EXCEPT ![p] = o1] \/ op' = [op EXCEPT ![p] = o2]
    BY <1>4, <2>1, OpFields DEF ReadStatus, TypeOK, Ops
  <2>4. o1 \in Ops /\ o2 \in Ops
    BY <2>1, <2>2, OpFields DEF Ops, Pcs
  <2>5. CallOK(o1) /\ CallOK(o2)
    BY <1>4, <1>a, <2>1, OpFields DEF CallOK, Ops, ReadStatus, At
  <2>6. lock' \in Locks
    BY <1>4, <1>b DEF ReadStatus
  <2>7. OpOK
    BY <1>u, <2>3, <2>4, <2>5, <2>6
  <2> QED
    BY <1>4, <2>7 DEF ReadStatus, TypeOK
<1>5. CASE PersistStatus(p)
  <2> DEFINE r == [op[p].copy[m] EXCEPT !.addr = RuntimeAddress]
  <2> DEFINE o == [op[p] EXCEPT !.pc = "status", !.todo = op[p].todo \ {m}, !.copy = [op[p].copy EXCEPT ![m] = r]]
  <2>1. m \in Numbers
    BY <1>5, <1>a, OpFields DEF PersistStatus, CallOK, At
  <2>2. r \in Rows /\ r.state \in States
    <3>1. op[p].copy[m] \in Rows
      BY <2>1, OpFields
    <3> QED
      BY <3>1, ConstantsAssumption DEF Rows
  <2>3. op' = [op EXCEPT ![p] = o]
    BY <1>5, <2>1, OpFields DEF PersistStatus, TypeOK, Ops
  <2>4. o \in Ops
    BY <2>1, <2>2, OpFields DEF Ops, Pcs
  <2>5. CallOK(o)
    BY <1>5, <1>a, OpFields DEF CallOK, Ops, PersistStatus, At
  <2>6. OpOK
    BY <1>5, <1>b, <1>u, <2>3, <2>4, <2>5 DEF PersistStatus
  <2>7. row' \in [Numbers -> Rows]
    <3>1. Upsert(row, m, r) \in [Numbers -> Rows] /\ UpdateState(row, m, r.state) \in [Numbers -> Rows]
      BY <2>1, <2>2, UpsertType, UpdateStateType DEF TypeOK
    <3> QED
      BY <1>5, <3>1 DEF PersistStatus, TypeOK
  <2> QED
    BY <1>5, <2>6, <2>7 DEF PersistStatus, TypeOK
<1>6. CASE ViewInstances(p)
  <2> QED
    BY <1>6, <1>r DEF ViewInstances, TypeOK
<1>7. CASE PickNumber(p)
  <2>1. CASE Return(p)
    BY <1>7, <1>r, <2>1 DEF PickNumber, TypeOK
  <2>2. CASE ~Return(p)
    <3> DEFINE k == Min(Numbers \ Used)
    <3> DEFINE r == [world |-> op[p].inst.world, state |-> CreatedState, mem |-> op[p].size, addr |-> "planned"]
    <3> DEFINE o == [op[p] EXCEPT !.pc = "dirfree", !.n = k, !.copy = [op[p].copy EXCEPT ![k] = r]]
    <3>1. k \in Numbers
      BY <1>7, <2>2, FreeNumber DEF PickNumber
    <3>2. op' = [op EXCEPT ![p] = o] /\ UNCHANGED lock
      <4>1. /\ op' = [op EXCEPT ![p].pc = "dirfree", ![p].n = k, ![p].copy[k] = r]
            /\ UNCHANGED lock
        BY <1>7, <2>2 DEF PickNumber
      <4> HIDE DEF k, r
      <4> QED
        BY <3>1, <4>1, OpFields DEF TypeOK, Ops
    <3>3. r \in Rows
      BY OpFields, ConstantsAssumption DEF Rows, States, Addresses
    <3>4. o \in Ops
      BY <3>1, <3>3, OpFields DEF Ops, Pcs
    <3>5. CallOK(o)
      BY <1>7, <1>a, <3>1, OpFields DEF CallOK, Ops, PickNumber, At
    <3>6. OpOK
      BY <1>b, <1>u, <3>2, <3>4, <3>5
    <3> QED
      BY <1>7, <3>6 DEF PickNumber, TypeOK
  <2> QED
    BY <2>1, <2>2
<1>8. CASE CheckInstanceDirFree(p)
  <2>1. OpOK
    <3>1. CASE Return(p)
      BY <1>r, <3>1
    <3>2. CASE Goto(p, "role") /\ UNCHANGED lock
      <4>1. CallOK([op[p] EXCEPT !.pc = "role"]) /\ "role" \in Pcs
        BY <1>8, <1>a, OpFields DEF CheckInstanceDirFree, CallOK, Ops, Pcs, At
      <4> QED
        BY <1>g, <3>2, <4>1
    <3> QED
      BY <1>8, <3>1, <3>2 DEF CheckInstanceDirFree
  <2> QED
    BY <1>8, <2>1 DEF CheckInstanceDirFree, TypeOK
<1>9. CASE ReserveRole(p)
  <2>1. OpOK
    <3>1. CASE Return(p)
      BY <1>r, <3>1
    <3>2. CASE Goto(p, "write") /\ UNCHANGED lock
      <4>1. CallOK([op[p] EXCEPT !.pc = "write"]) /\ "write" \in Pcs
        BY <1>9, <1>a, OpFields DEF ReserveRole, CallOK, Ops, Pcs, At
      <4> QED
        BY <1>g, <3>2, <4>1
    <3> QED
      BY <1>9, <3>1, <3>2 DEF ReserveRole
  <2>2. role' \in [Numbers -> BOOLEAN]
    BY <1>9 DEF ReserveRole, TypeOK
  <2> QED
    BY <1>9, <2>1, <2>2 DEF ReserveRole, TypeOK
<1>10. CASE UndoRole(p)
  <2>1. n \in Numbers
    BY <1>10, <1>a DEF UndoRole, CallOK, At
  <2>2. role' \in [Numbers -> BOOLEAN] /\ keepers' \in [Numbers -> SUBSET (1 .. MaxWorlds)]
    BY <1>10, <2>1, RemoveRoleType DEF UndoRole
  <2> QED
    BY <1>10, <1>r, <2>2 DEF UndoRole, TypeOK
<1>11. CASE ApplyTier(p)
  <2> DEFINE o == [op[p] EXCEPT !.pc = "get", !.second = TRUE, !.inst = op[p].copy[n]]
  <2>1. n \in Numbers
    BY <1>11, <1>a DEF ApplyTier, CallOK, Refreshed
  <2>2. op' = [op EXCEPT ![p] = o] /\ UNCHANGED lock
    BY <1>11 DEF ApplyTier, TypeOK
  <2>3. o \in Ops
    BY <2>1, OpFields DEF Ops, Pcs
  <2>4. CallOK(o)
    BY <1>11, <1>a, OpFields DEF CallOK, Ops, ApplyTier, Refreshed
  <2>5. OpOK
    BY <1>b, <1>u, <2>2, <2>3, <2>4
  <2> QED
    BY <1>11, <2>5 DEF ApplyTier, TypeOK
<1>12. CASE EditInstance(p)
  <2> DEFINE r == [op[p].copy[n] EXCEPT !.mem = op[p].size]
  <2> DEFINE o1 == [op[p] EXCEPT !.pc = "write", !.copy = [op[p].copy EXCEPT ![n] = r]]
  <2> DEFINE o2 == [op[p] EXCEPT !.pc = "write"]
  <2>1. n \in Numbers /\ op[p].kind \in {"resize", "tier", "settings"}
    BY <1>12, <1>a DEF EditInstance, CallOK, Refreshed
  <2>2. op' = [op EXCEPT ![p] = o1] \/ op' = [op EXCEPT ![p] = o2]
    BY <1>12, <2>1, OpFields DEF EditInstance, TypeOK, Goto, Ops
  <2>3. r \in Rows
    <3>1. op[p].copy[n] \in Rows
      BY <2>1, OpFields
    <3> QED
      BY <3>1, OpFields DEF Rows
  <2>4. o1 \in Ops /\ o2 \in Ops
    BY <2>1, <2>3, OpFields DEF Ops, Pcs
  <2>5. CallOK(o1) /\ CallOK(o2)
    BY <1>a, <2>1, OpFields DEF CallOK, Ops
  <2>6. lock' \in Locks
    BY <1>12, <1>b DEF EditInstance
  <2>7. OpOK
    BY <1>u, <2>2, <2>4, <2>5, <2>6
  <2> QED
    BY <1>12, <2>7 DEF EditInstance, TypeOK
<1>13. CASE SaveTier(p)
  <2> DEFINE r == [op[p].inst EXCEPT !.mem = op[p].size]
  <2>1. n \in Numbers
    BY <1>13, <1>a DEF SaveTier, CallOK, At
  <2>2. r \in Rows
    BY OpFields DEF Rows
  <2>3. row' \in [Numbers -> Rows]
    <3>1. Upsert(row, n, r) \in [Numbers -> Rows]
      BY <2>1, <2>2, UpsertType DEF TypeOK
    <3> QED
      BY <1>13, <3>1 DEF SaveTier, TypeOK
  <2> QED
    BY <1>13, <1>r, <2>3 DEF SaveTier, TypeOK
<1>14. CASE WriteManifests(p)
  <2>1. n \in Numbers /\ op[p].pc # "idle"
    BY <1>14, <1>a DEF WriteManifests, CallOK, At
  <2>2. Held(p) \in Rows /\ Held(p).world \in WorldIDs /\ Held(p).mem \in Sizes \cup {0}
    BY <2>1, HeldType
  <2>3. OpOK
    <3>f. CASE Fail(p)
      <4>1. CASE Return(p)
        BY <1>r, <4>1
      <4>2. CASE op[p].kind = "create" /\ Goto(p, "undo") /\ UNCHANGED lock
        <5>1. CallOK([op[p] EXCEPT !.pc = "undo"]) /\ "undo" \in Pcs
          BY <1>a, <2>1, <4>2, OpFields DEF CallOK, Ops, Pcs
        <5> QED
          BY <1>g, <4>2, <5>1
      <4> QED
        BY <3>f, <4>1, <4>2 DEF Fail
    <3>g. CASE Goto(p, (IF Host = "docker" /\ op[p].kind # "settings" THEN "converge" ELSE AfterManifests(op[p].kind))) /\ UNCHANGED lock
      <4>1. CallOK([op[p] EXCEPT !.pc = (IF Host = "docker" /\ op[p].kind # "settings" THEN "converge" ELSE AfterManifests(op[p].kind))]) /\ (IF Host = "docker" /\ op[p].kind # "settings" THEN "converge" ELSE AfterManifests(op[p].kind)) \in Pcs
        BY <1>14, <1>a, OpFields DEF WriteManifests, CallOK, Ops, Pcs, At, AfterManifests
      <4> QED
        BY <1>g, <3>g, <4>1
    <3> QED
      BY <1>14, <3>f, <3>g DEF WriteManifests
  <2>4. dir' \in [Numbers -> Dirs]
    <3>1. [world |-> Held(p).world, mem |-> Held(p).mem, run |-> (Held(p).state = "running")] \in Dirs
      BY <2>2 DEF Dirs
    <3> QED
      BY <1>14, <2>1, <3>1 DEF WriteManifests, TypeOK
  <2> QED
    BY <1>14, <2>3, <2>4 DEF WriteManifests, TypeOK
<1>15. CASE Converge(p)
  <2>1. n \in Numbers /\ op[p].pc # "idle"
    BY <1>15, <1>a DEF Converge, CallOK, At
  <2>2. Held(p) \in Rows /\ Held(p).world \in WorldIDs /\ Held(p).mem \in Sizes \cup {0}
    BY <2>1, HeldType
  <2>3. OpOK
    <3>f. CASE Fail(p)
      <4>1. CASE Return(p)
        BY <1>r, <4>1
      <4>2. CASE op[p].kind = "create" /\ Goto(p, "undo") /\ UNCHANGED lock
        <5>1. CallOK([op[p] EXCEPT !.pc = "undo"]) /\ "undo" \in Pcs
          BY <1>a, <2>1, <4>2, OpFields DEF CallOK, Ops, Pcs
        <5> QED
          BY <1>g, <4>2, <5>1
      <4> QED
        BY <3>f, <4>1, <4>2 DEF Fail
    <3>g. CASE Goto(p, AfterManifests(op[p].kind)) /\ UNCHANGED lock
      <4>1. CallOK([op[p] EXCEPT !.pc = AfterManifests(op[p].kind)]) /\ AfterManifests(op[p].kind) \in Pcs
        BY <1>15, <1>a, OpFields DEF Converge, CallOK, Ops, Pcs, At, AfterManifests
      <4> QED
        BY <1>g, <3>g, <4>1
    <3> QED
      BY <1>15, <3>f, <3>g DEF Converge
  <2>4. srv' \in [Numbers -> Servers]
    <3>1. [phase |-> UpPhase, mem |-> Held(p).mem] \in Servers
      BY <2>2 DEF Servers, UpPhase, Phases
    <3> QED
      BY <1>15, <2>1, <3>1 DEF Converge, TypeOK
  <2> QED
    BY <1>15, <2>3, <2>4 DEF Converge, TypeOK
<1>16. CASE SaveRow(p)
  <2>1. n \in Numbers /\ op[p].pc # "idle"
    BY <1>16, <1>a DEF SaveRow, CallOK, At
  <2>2. Held(p) \in Rows /\ Held(p).world \in WorldIDs /\ Held(p).mem \in Sizes \cup {0}
    BY <2>1, HeldType
  <2>3. OpOK
    <3>f. CASE Fail(p)
      <4>1. CASE Return(p)
        BY <1>r, <4>1
      <4>2. CASE op[p].kind = "create" /\ Goto(p, "undo") /\ UNCHANGED lock
        <5>1. CallOK([op[p] EXCEPT !.pc = "undo"]) /\ "undo" \in Pcs
          BY <1>a, <2>1, <4>2, OpFields DEF CallOK, Ops, Pcs
        <5> QED
          BY <1>g, <4>2, <5>1
      <4> QED
        BY <3>f, <4>1, <4>2 DEF Fail
    <3>g. CASE op[p].kind = "tier" /\ Goto(p, "tierrow") /\ UNCHANGED lock
      <4>1. CallOK([op[p] EXCEPT !.pc = "tierrow"]) /\ "tierrow" \in Pcs
        BY <1>16, <1>a, <3>g, OpFields DEF SaveRow, CallOK, Ops, Pcs, At, AfterManifests
      <4> QED
        BY <1>g, <3>g, <4>1
    <3> QED
      BY <1>16, <1>r, <3>f, <3>g DEF SaveRow
  <2>4. row' \in [Numbers -> Rows]
    <3>1. Upsert(row, n, Held(p)) \in [Numbers -> Rows]
      BY <2>1, <2>2, UpsertType DEF TypeOK
    <3> QED
      BY <1>16, <3>1 DEF SaveRow, TypeOK
  <2> QED
    BY <1>16, <2>3, <2>4 DEF SaveRow, TypeOK
<1>17. CASE StartCheck(p)
  <2>1. CASE Return(p)
    BY <1>17, <1>r, <2>1 DEF StartCheck, TypeOK
  <2>2. CASE ~Return(p)
    <3> DEFINE o == [op[p] EXCEPT !.pc = "list", !.inst = op[p].copy[n]]
    <3>1. n \in Numbers
      BY <1>17, <1>a DEF StartCheck, CallOK, Refreshed
    <3>2. op' = [op EXCEPT ![p] = o] /\ UNCHANGED lock
      BY <1>17, <2>2 DEF StartCheck, TypeOK
    <3>3. o \in Ops
      BY <3>1, OpFields DEF Ops, Pcs
    <3>4. CallOK(o)
      BY <1>17, <1>a, OpFields DEF CallOK, Ops, StartCheck, Refreshed
    <3>5. OpOK
      BY <1>b, <1>u, <3>2, <3>3, <3>4
    <3> QED
      BY <1>17, <3>5 DEF StartCheck, TypeOK
  <2> QED
    BY <2>1, <2>2
<1>18. CASE StartGate(p)
  <2>1. OpOK
    <3>1. CASE Return(p)
      BY <1>r, <3>1
    <3>2. CASE Goto(p, (IF Host = "docker" THEN "write" ELSE "scale")) /\ UNCHANGED lock
      <4>1. CallOK([op[p] EXCEPT !.pc = (IF Host = "docker" THEN "write" ELSE "scale")]) /\ (IF Host = "docker" THEN "write" ELSE "scale") \in Pcs
        BY <1>18, <1>a, OpFields DEF StartGate, CallOK, Ops, Pcs, Refreshed
      <4> QED
        BY <1>g, <3>2, <4>1
    <3> QED
      BY <1>18, <3>1, <3>2 DEF StartGate
  <2> QED
    BY <1>18, <2>1 DEF StartGate, TypeOK
<1>19. CASE ScaleUp(p)
  <2>1. OpOK
    <3>1. CASE Return(p)
      BY <1>r, <3>1
    <3>2. CASE GotoForgetting(p, "mark") /\ UNCHANGED lock
      <4>1. op[p].kind \in {"start", "stop"} /\ n \in Numbers
        BY <1>19, <1>a DEF ScaleUp, CallOK, At, Refreshed
      <4> QED
        BY <1>l, <3>2, <4>1
    <3> QED
      BY <1>19, <3>1, <3>2 DEF ScaleUp
  <2>2. n \in Numbers
    BY <1>19, <1>a DEF ScaleUp, CallOK, At, Refreshed
  <2>3. srv' \in [Numbers -> Servers]
    <3>1. (IF srv[n].phase \in Up THEN srv[n].phase ELSE UpPhase) \in Phases
      BY DEF Up, UpPhase, Phases
    <3> QED
      BY <1>19, <2>2, <3>1, PhaseType DEF ScaleUp, TypeOK
  <2> QED
    BY <1>19, <2>1, <2>3 DEF ScaleUp, TypeOK
<1>20. CASE MarkState(p)
  <2>1. n \in Numbers
    BY <1>20, <1>a DEF MarkState, CallOK, At
  <2>2. (IF op[p].kind = "start" THEN "running" ELSE "stopped") \in States
    BY DEF States
  <2>3. row' \in [Numbers -> Rows]
    BY <1>20, <2>1, <2>2, UpdateStateType DEF MarkState, TypeOK
  <2> QED
    BY <1>20, <1>r, <2>3 DEF MarkState, TypeOK
<1>21. CASE StopInstance(p)
  <2>1. OpOK
    <3>1. CASE Return(p)
      BY <1>r, <3>1
    <3>2. CASE GotoForgetting(p, "mark") /\ UNCHANGED lock
      <4>1. op[p].kind \in {"start", "stop"} /\ n \in Numbers
        BY <1>21, <1>a DEF StopInstance, CallOK, At, Refreshed
      <4> QED
        BY <1>l, <3>2, <4>1
    <3> QED
      BY <1>21, <3>1, <3>2 DEF StopInstance
  <2>2. n \in Numbers
    BY <1>21, <1>a DEF StopInstance, CallOK, At, Refreshed
  <2>3. srv' \in [Numbers -> Servers]
    <3>1. "stopped" \in Phases
      BY DEF Phases
    <3> QED
      BY <1>21, <2>2, <3>1, PhaseType DEF StopInstance, TypeOK
  <2> QED
    BY <1>21, <2>1, <2>3 DEF StopInstance, TypeOK
<1>22. CASE RestartInstance(p)
  <2>2. n \in Numbers
    BY <1>22, <1>a DEF RestartInstance, CallOK, At, Refreshed
  <2>3. srv' \in [Numbers -> Servers]
    <3>1. (IF Host = "docker" \/ srv[n].phase \in Up THEN UpPhase ELSE srv[n].phase) \in Phases
      BY <2>2 DEF UpPhase, Phases, TypeOK, Servers
    <3> QED
      BY <1>22, <2>2, <3>1, PhaseType DEF RestartInstance, TypeOK
  <2> QED
    BY <1>22, <1>r, <2>3 DEF RestartInstance, TypeOK
<1>23. CASE DeleteInstance(p)
  <2>1. OpOK
    <3>1. CASE Return(p)
      BY <1>r, <3>1
    <3>2. CASE GotoForgetting(p, (IF Host = "docker" THEN "destroy" ELSE "undir")) /\ UNCHANGED lock
      <4>1. op[p].kind = "delete" /\ n \in Numbers
        BY <1>23, <1>a DEF DeleteInstance, CallOK, Refreshed
      <4> QED
        BY <1>l, <3>2, <4>1
    <3> QED
      BY <1>23, <3>1, <3>2 DEF DeleteInstance
  <2> QED
    BY <1>23, <2>1 DEF DeleteInstance, TypeOK
<1>24. CASE DestroyServer(p)
  <2>1. OpOK
    <3>1. CASE Return(p)
      BY <1>r, <3>1
    <3>2. CASE Goto(p, "undir") /\ UNCHANGED lock
      <4>1. CallOK([op[p] EXCEPT !.pc = "undir"]) /\ "undir" \in Pcs
        BY <1>24, <1>a, OpFields DEF DestroyServer, CallOK, Ops, Pcs, At
      <4> QED
        BY <1>g, <3>2, <4>1
    <3> QED
      BY <1>24, <3>1, <3>2 DEF DestroyServer
  <2>2. srv' \in [Numbers -> Servers]
    BY <1>24, EmptyRecords DEF DestroyServer, TypeOK
  <2> QED
    BY <1>24, <2>1, <2>2 DEF DestroyServer, TypeOK
<1>25. CASE DeleteDir(p)
  <2>1. OpOK
    <3>1. CASE Return(p)
      BY <1>r, <3>1
    <3>2. CASE Goto(p, "unrow") /\ UNCHANGED lock
      <4>1. CallOK([op[p] EXCEPT !.pc = "unrow"]) /\ "unrow" \in Pcs
        BY <1>25, <1>a, OpFields DEF DeleteDir, CallOK, Ops, Pcs, At
      <4> QED
        BY <1>g, <3>2, <4>1
    <3> QED
      BY <1>25, <3>1, <3>2 DEF DeleteDir
  <2>2. dir' \in [Numbers -> Dirs]
    BY <1>25, EmptyRecords DEF DeleteDir, TypeOK
  <2> QED
    BY <1>25, <2>1, <2>2 DEF DeleteDir, TypeOK
<1>26. CASE DeleteRow(p)
  <2>1. OpOK
    <3>1. CASE Return(p)
      BY <1>r, <3>1
    <3>2. CASE Goto(p, "unrole") /\ UNCHANGED lock
      <4>1. CallOK([op[p] EXCEPT !.pc = "unrole"]) /\ "unrole" \in Pcs
        BY <1>26, <1>a, OpFields DEF DeleteRow, CallOK, Ops, Pcs, At
      <4> QED
        BY <1>g, <3>2, <4>1
    <3> QED
      BY <1>26, <3>1, <3>2 DEF DeleteRow
  <2>2. row' \in [Numbers -> Rows]
    BY <1>26, EmptyRecords DEF DeleteRow, TypeOK
  <2>3. gone' \subseteq 1 .. MaxWorlds
    <3>1. n \in Numbers
      BY <1>26, <1>a DEF DeleteRow, CallOK, At
    <3>2. row[n].world \in WorldIDs
      BY <3>1 DEF TypeOK, Rows
    <3>3. gone \cup ({row[n].world} \ {0}) \subseteq 1 .. MaxWorlds
      <4>1. row[n].world = 0 \/ row[n].world \in 1 .. MaxWorlds
        BY <3>2, ConstantsAssumption DEF WorldIDs
      <4> QED
        BY <4>1 DEF TypeOK
    <3> QED
      BY <1>26, <3>3 DEF DeleteRow, TypeOK
  <2> QED
    BY <1>26, <2>1, <2>2, <2>3 DEF DeleteRow, TypeOK
<1>27. CASE RetireRole(p)
  <2>1. n \in Numbers
    BY <1>27, <1>a DEF RetireRole, CallOK, At
  <2>2. role' \in [Numbers -> BOOLEAN] /\ keepers' \in [Numbers -> SUBSET (1 .. MaxWorlds)]
    BY <1>27, <2>1, RemoveRoleType DEF RetireRole
  <2> QED
    BY <1>27, <1>r, <2>2 DEF RetireRole, TypeOK
<1>28. CASE ReconcileInstanceRoles(p)
  <2>1. CASE Return(p)
    BY <1>28, <1>r, <2>1 DEF ReconcileInstanceRoles, TypeOK
  <2>2. CASE ~Return(p)
    <3> DEFINE listed == {k \in Numbers : op[p].copy[k].world # 0}
    <3> DEFINE o == [op[p] EXCEPT !.pc = "ensure", !.todo = listed]
    <3>1. op' = [op EXCEPT ![p] = o] /\ UNCHANGED lock /\ listed # {}
      BY <1>28, <2>2 DEF ReconcileInstanceRoles, TypeOK
    <3>2. listed \in SUBSET Numbers
      OBVIOUS
    <3> HIDE DEF listed
    <3>3. o \in Ops
      BY <3>2, OpFields DEF Ops, Pcs
    <3>4. CallOK(o)
      BY <1>28, <1>a, <3>1, OpFields DEF CallOK, Ops, ReconcileInstanceRoles, Refreshed
    <3>5. OpOK
      BY <1>b, <1>u, <3>1, <3>3, <3>4
    <3> QED
      BY <1>28, <3>5 DEF ReconcileInstanceRoles, TypeOK
  <2> QED
    BY <2>1, <2>2
<1>29. CASE EnsureInstanceRole(p)
  <2> DEFINE o == [op[p] EXCEPT !.todo = op[p].todo \ {m}]
  <2>1. OpOK
    <3>1. CASE Return(p)
      BY <1>r, <3>1
    <3>2. CASE op[p].todo # {m} /\ op' = [op EXCEPT ![p].todo = op[p].todo \ {m}] /\ UNCHANGED lock
      <4>1. op' = [op EXCEPT ![p] = o]
        BY <3>2 DEF TypeOK
      <4>2. o \in Ops
        BY OpFields DEF Ops
      <4>3. CallOK(o)
        BY <1>29, <1>a, <3>2, OpFields DEF CallOK, Ops, EnsureInstanceRole, At
      <4> QED
        BY <1>b, <1>u, <3>2, <4>1, <4>2, <4>3
    <3> QED
      BY <1>29, <3>1, <3>2 DEF EnsureInstanceRole, TypeOK
  <2>2. role' \in [Numbers -> BOOLEAN]
    BY <1>29 DEF EnsureInstanceRole, TypeOK
  <2> QED
    BY <1>29, <2>1, <2>2 DEF EnsureInstanceRole, TypeOK
<1> QED
  BY <1>1, <1>2, <1>3, <1>4, <1>5, <1>6, <1>7, <1>8, <1>9, <1>10,
     <1>11, <1>12, <1>13, <1>14, <1>15, <1>16, <1>17, <1>18, <1>19, <1>20,
     <1>21, <1>22, <1>23, <1>24, <1>25, <1>26, <1>27, <1>28, <1>29
  DEF Step

(* A request arrives with a record of its own. *)
LEMMA TypeRequest ==
  ASSUME TypeOK, PcOK, NEW p \in Procs, NEW kind \in Kinds, NEW k \in Numbers \cup {0},
         NEW size \in Sizes \cup {0}, Begin(p, kind, k, size)
  PROVE  TypeOK' /\ PcOK'
<1> DEFINE w == IF kind = "create" THEN minted + 1 ELSE 0
<1> DEFINE o == [Idle EXCEPT !.kind = kind, !.pc = FirstPc(kind), !.n = k, !.size = size,
                             !.inst = [NoRow EXCEPT !.world = w]]
<1>1. w \in WorldIDs /\ minted' \in WorldIDs
  BY ConstantsAssumption DEF Begin, TypeOK, WorldIDs
<1>2. op' = [op EXCEPT ![p] = o]
  BY DEF Begin, Idle
<1>3. o \in Ops
  <2>1. [NoRow EXCEPT !.world = w] \in Rows
    BY <1>1, EmptyRecords DEF Rows
  <2>2. FirstPc(kind) \in Pcs /\ kind \in AllKinds
    BY ConstantsAssumption DEF FirstPc, Pcs
  <2> QED
    BY <2>1, <2>2, IdleType DEF Ops
<1>4. CallOK(o)
  <2>1. kind \notin {"create", "view", "reconcile"} => k \in Numbers
    BY DEF Begin
  <2>2. kind \in AllKinds
    BY ConstantsAssumption
  <2>3. o.kind = kind /\ o.pc = FirstPc(kind) /\ o.n = k
    BY DEF Idle
  <2> QED
    BY <2>1, <2>2, <2>3 DEF CallOK, FirstPc, AllKinds
<1>5. op' \in [Procs -> Ops] /\ PcOK'
  BY <1>2, <1>3, <1>4, OpUpdate
<1> QED
  BY <1>1, <1>5 DEF Begin, TypeOK

(* Grants, ArgoCD, the servers and a restart of agrelha keep the types. *)
LEMMA TypeEnvironment ==
  ASSUME TypeOK, PcOK, NEW n \in Numbers, Grant(n) \/ Environment(n)
  PROVE  TypeOK' /\ PcOK'
<1>1. CASE Grant(n)
  <2>1. row[n].world = 0 \/ row[n].world \in 1 .. MaxWorlds
    BY ConstantsAssumption DEF TypeOK, Rows, WorldIDs
  <2>2. keepers' \in [Numbers -> SUBSET (1 .. MaxWorlds)]
    BY <1>1, <2>1 DEF Grant, TypeOK
  <2> QED
    BY <1>1, <2>2 DEF Grant, TypeOK, PcOK
<1>2. CASE ArgoSync(n)
  <2> DEFINE ph == CASE srv[n].phase \in Up -> UpPhase
                     [] srv[n].phase = "absent" /\ dir[n].run -> UpPhase
                     [] OTHER -> "stopped"
  <2>1. ph \in Phases
    BY DEF Phases, UpPhase, TypeOK, Servers
  <2>2. [phase |-> ph, mem |-> dir[n].mem] \in Servers
    BY <2>1 DEF Servers, TypeOK, Dirs
  <2>3. srv' = [srv EXCEPT ![n] = [phase |-> ph, mem |-> dir[n].mem]]
    BY <1>2 DEF ArgoSync
  <2> HIDE DEF ph
  <2>4. srv' \in [Numbers -> Servers]
    BY <2>2, <2>3 DEF TypeOK
  <2> QED
    BY <1>2, <2>4 DEF ArgoSync, TypeOK, PcOK
<1>3. CASE ArgoPrune(n)
  BY <1>3, EmptyRecords DEF ArgoPrune, TypeOK, PcOK
<1>4. CASE ServerReady(n)
  <2>1. srv' \in [Numbers -> Servers]
    BY <1>4, PhaseType DEF ServerReady, Phases
  <2> QED
    BY <1>4, <2>1 DEF ServerReady, TypeOK, PcOK
<1>5. CASE ServerCrash(n)
  <2>1. srv' \in [Numbers -> Servers]
    BY <1>5, PhaseType DEF ServerCrash, Phases
  <2> QED
    BY <1>5, <2>1 DEF ServerCrash, TypeOK, PcOK
<1> QED
  BY <1>1, <1>2, <1>3, <1>4, <1>5 DEF Environment

(* A restart of agrelha keeps the types. *)
LEMMA TypeRestart ==
  ASSUME TypeOK, PcOK, AgrelhaRestart
  PROVE  TypeOK' /\ PcOK'
<1>1. op' \in [Procs -> Ops] /\ PcOK'
  BY IdleType DEF AgrelhaRestart, PcOK
<1> QED
  BY <1>1 DEF AgrelhaRestart, TypeOK

(* The initial states are well typed. *)
LEMMA TypeInit == Init => TypeOK /\ PcOK
<1> SUFFICES ASSUME Init PROVE TypeOK /\ PcOK
  OBVIOUS
<1>1. PICK size \in [Numbers -> Sizes] :
        /\ row = [n \in Numbers |-> IF n \in Existing
             THEN [world |-> n, state |-> "stopped", mem |-> size[n], addr |-> "planned"]
             ELSE NoRow]
        /\ dir = [n \in Numbers |-> IF n \in Existing THEN [world |-> n, mem |-> size[n], run |-> FALSE] ELSE NoDir]
        /\ srv = [n \in Numbers |-> IF n \in Existing THEN [phase |-> "stopped", mem |-> size[n]]
                                                      ELSE NoServer]
  BY DEF Init
<1>2. \A n \in Numbers : n \in WorldIDs
  BY ConstantsAssumption DEF Numbers, WorldIDs
<1>3. row \in [Numbers -> Rows]
  BY <1>1, <1>2, EmptyRecords DEF Rows, States, Addresses
<1>4. dir \in [Numbers -> Dirs]
  BY <1>1, <1>2, EmptyRecords DEF Dirs
<1>5. srv \in [Numbers -> Servers]
  BY <1>1, EmptyRecords DEF Servers, Phases
<1>6. op \in [Procs -> Ops] /\ PcOK
  BY IdleType DEF Init, PcOK
<1>7. minted \in WorldIDs
  BY ConstantsAssumption DEF Init, WorldIDs
<1>8. role \in [Numbers -> BOOLEAN]
  BY DEF Init
<1>9. /\ keepers \in [Numbers -> SUBSET (1 .. MaxWorlds)]
      /\ lock \in Procs \cup {NoProc}
      /\ reconciled \in BOOLEAN
      /\ gone \subseteq 1 .. MaxWorlds
  BY DEF Init
<1> QED
  BY <1>3, <1>4, <1>5, <1>6, <1>7, <1>8, <1>9 DEF TypeOK

(* Every step keeps the types. *)
LEMMA TypeNext ==
  ASSUME TypeOK, PcOK, [Next]_vars
  PROVE  TypeOK' /\ PcOK'
<1>1. CASE \E p \in Procs : Request(p)
  BY <1>1, TypeRequest DEF Request
<1>2. CASE \E p \in Procs : Step(p)
  BY <1>2, TypeStep
<1>3. CASE \E n \in Numbers : Grant(n) \/ Environment(n)
  BY <1>3, TypeEnvironment
<1>4. CASE AgrelhaRestart
  BY <1>4, TypeRestart
<1>5. CASE UNCHANGED vars
  BY <1>5 DEF vars, TypeOK, PcOK
<1> QED
  BY <1>1, <1>2, <1>3, <1>4, <1>5 DEF Next

(* Type correctness of every behaviour of InstanceManager, its stores and   *)
(* its runtime: for any number of slots, requests in flight and worlds,     *)
(* every request stays at a call its operation makes and no table ever      *)
(* holds anything but rows, manifests and servers of Numbers.               *)
THEOREM TypeCorrect == Spec => []TypeOK
<1>1. Init => TypeOK /\ PcOK
  BY TypeInit
<1>2. TypeOK /\ PcOK /\ [Next]_vars => (TypeOK /\ PcOK)'
  BY TypeNext
<1> QED
  BY <1>1, <1>2, PTL DEF Spec

-----------------------------------------------------------------------------
(* A Number changes hands only through a delete *)

(* Which calls of a request change which shared state. *)
LEMMA StepFrame ==
  ASSUME NEW p \in Procs, Step(p)
  PROVE  /\ \/ UNCHANGED row
            \/ PersistStatus(p) \/ SaveRow(p) \/ SaveTier(p) \/ MarkState(p) \/ DeleteRow(p)
         /\ UNCHANGED dir \/ WriteManifests(p) \/ DeleteDir(p)
         /\ \/ UNCHANGED <<role, keepers>>
            \/ ReserveRole(p) \/ UndoRole(p) \/ RetireRole(p) \/ EnsureInstanceRole(p)
BY DEF Step, AcquireBudget, GetInstance, ListInstances, ReadStatus, PersistStatus, ViewInstances,
       PickNumber, CheckInstanceDirFree, ReserveRole, UndoRole, ApplyTier, EditInstance, SaveTier,
       WriteManifests, Converge, SaveRow, StartCheck, StartGate, ScaleUp, MarkState, StopInstance,
       RestartInstance, DeleteInstance, DestroyServer, DeleteDir, DeleteRow, RetireRole,
       ReconcileInstanceRoles, EnsureInstanceRole

(* repo.Upsert and repo.UpdateState write one row, and never change the     *)
(* world of a row that is there.                                            *)
LEMMA UpsertWorld ==
  ASSUME NEW t \in [Numbers -> Rows], NEW n \in Numbers, NEW r \in Rows, NEW k \in Numbers
  PROVE  /\ t[k].world # 0 => Upsert(t, n, r)[k].world = t[k].world
         /\ k # n => Upsert(t, n, r)[k] = t[k]
         /\ t[n].world = 0 => Upsert(t, n, r)[n] = r
BY DEF Upsert, Rows

(* UpdateState changes no world. *)
LEMMA UpdateStateWorld ==
  ASSUME NEW t \in [Numbers -> Rows], NEW n \in Numbers, NEW s \in States, NEW k \in Numbers
  PROVE  /\ UpdateState(t, n, s)[k].world = t[k].world
         /\ UpdateState(t, n, s)[k].addr = t[k].addr
BY DEF UpdateState, Rows

(* No step changes the world of a row that stays. *)
LEMMA StableStep ==
  ASSUME TypeOK, PcOK, NEW p \in Procs, Step(p), NEW k \in Numbers,
         row[k].world # 0, row'[k].world # 0
  PROVE  row'[k].world = row[k].world
<1> DEFINE n == op[p].n
<1>a. row \in [Numbers -> Rows]
  BY DEF TypeOK
<1>b. CallOK(op[p])
  BY DEF PcOK
<1>1. CASE PersistStatus(p)
  <2> DEFINE m == Min(op[p].todo)
  <2> DEFINE r == [op[p].copy[m] EXCEPT !.addr = RuntimeAddress]
  <2>1. m \in Numbers
    BY <1>1, <1>b, OpFields DEF PersistStatus, CallOK, At
  <2>2. r \in Rows /\ r.state \in States
    <3>1. op[p].copy[m] \in Rows
      BY <2>1, OpFields
    <3> QED
      BY <3>1, ConstantsAssumption DEF Rows
  <2>3. row' = Upsert(row, m, r) \/ row' = UpdateState(row, m, r.state) \/ row' = row
    BY <1>1 DEF PersistStatus
  <2> HIDE DEF m, r
  <2> QED
    BY <1>a, <2>1, <2>2, <2>3, UpsertWorld, UpdateStateWorld
<1>2. CASE SaveRow(p)
  <2>1. n \in Numbers
    BY <1>2, <1>b DEF SaveRow, CallOK, At
  <2>2. Held(p) \in Rows
    BY <2>1, HeldType
  <2>3. row' = Upsert(row, n, Held(p)) \/ row' = row
    BY <1>2 DEF SaveRow
  <2> QED
    BY <1>a, <2>1, <2>2, <2>3, UpsertWorld
<1>3. CASE SaveTier(p)
  <2> DEFINE r == [op[p].inst EXCEPT !.mem = op[p].size]
  <2>1. n \in Numbers
    BY <1>3, <1>b DEF SaveTier, CallOK, At
  <2>2. r \in Rows
    BY OpFields DEF Rows
  <2>3. row' = Upsert(row, n, r) \/ row' = row
    BY <1>3 DEF SaveTier
  <2> HIDE DEF r
  <2> QED
    BY <1>a, <2>1, <2>2, <2>3, UpsertWorld
<1>4. CASE MarkState(p)
  <2> DEFINE s == IF op[p].kind = "start" THEN "running" ELSE "stopped"
  <2>1. n \in Numbers /\ s \in States
    BY <1>4, <1>b DEF MarkState, CallOK, At, States
  <2>2. row' = UpdateState(row, n, s) \/ row' = row
    BY <1>4 DEF MarkState
  <2> HIDE DEF s
  <2> QED
    BY <1>a, <2>1, <2>2, UpdateStateWorld
<1>5. CASE DeleteRow(p)
  BY <1>a, <1>5 DEF DeleteRow, NoRow
<1>6. CASE UNCHANGED row
  BY <1>6
<1> QED
  BY <1>1, <1>2, <1>3, <1>4, <1>5, <1>6, StepFrame

(* Whatever stale record a settings save, a resize, a Tier or a status      *)
(* refresh writes back, the world of a row never changes while the row is   *)
(* there: the world_id of upsertSQL keeps its first writer.                 *)
THEOREM WorldIDStable == Spec => WorldIDIsStable
<1>1. ASSUME TypeOK, PcOK, [Next]_vars, NEW k \in Numbers, row[k].world # 0, row'[k].world # 0
      PROVE  row'[k].world = row[k].world
  <2>1. CASE \E p \in Procs : Step(p)
    BY <1>1, <2>1, StableStep
  <2>2. CASE UNCHANGED row
    BY <2>2
  <2> QED
    BY <1>1, <2>1, <2>2 DEF Next, vars, Request, Begin, Grant, Environment, ArgoSync, ArgoPrune,
       ServerReady, ServerCrash, AgrelhaRestart
<1>2. TypeOK /\ PcOK /\ [Next]_vars =>
        [\A n \in Numbers : row[n].world # 0 /\ row'[n].world # 0
            => row'[n].world = row[n].world]_vars
  BY <1>1
<1>3. Init => TypeOK /\ PcOK
  BY TypeInit
<1>4. TypeOK /\ PcOK /\ [Next]_vars => (TypeOK /\ PcOK)'
  BY TypeNext
<1> QED
  BY <1>2, <1>3, <1>4, PTL DEF Spec, WorldIDIsStable

-----------------------------------------------------------------------------
(* The Number reservation *)

(* What a request holds after it returned or moved to its next call. *)
LEMMA ReturnRecord ==
  ASSUME TypeOK, NEW p \in Procs, Return(p)
  PROVE  /\ op'[p] = Idle
         /\ \A q \in Procs \ {p} : op'[q] = op[q]
BY DEF Return, TypeOK

(* A request that moves on keeps everything else it holds. *)
LEMMA GotoRecord ==
  ASSUME TypeOK, NEW p \in Procs, NEW c, Goto(p, c)
  PROVE  /\ op'[p] = [op[p] EXCEPT !.pc = c]
         /\ op'[p].pc = c
         /\ op'[p].kind = op[p].kind /\ op'[p].n = op[p].n /\ op'[p].inst = op[p].inst
         /\ op'[p].copy = op[p].copy /\ op'[p].second = op[p].second
         /\ \A q \in Procs \ {p} : op'[q] = op[q]
<1>1. op[p] \in Ops /\ op' = [op EXCEPT ![p].pc = c]
  BY OpFields DEF Goto
<1> QED
  BY <1>1 DEF TypeOK, Ops

(* A request that needs its records no more keeps its kind and its Number.   *)
LEMMA ForgetRecord ==
  ASSUME TypeOK, NEW p \in Procs, NEW c \in Pcs, GotoForgetting(p, c)
  PROVE  /\ op'[p].pc = c /\ op'[p].kind = op[p].kind /\ op'[p].n = op[p].n
         /\ op'[p].copy = [k \in Numbers |-> NoRow]
         /\ op'[p].inst = NoRow /\ ~op'[p].second
         /\ \A q \in Procs \ {p} : op'[q] = op[q]
<1>1. op[p] \in Ops
  BY OpFields
<1> DEFINE o == Later(op[p], c)
<1>2. op'[p] = o /\ \A q \in Procs \ {p} : op'[q] = op[q]
  BY DEF GotoForgetting, TypeOK
<1>3. /\ o.pc = c /\ o.kind = op[p].kind /\ o.n = op[p].n /\ ~o.second
      /\ o.copy = [k \in Numbers |-> NoRow] /\ o.inst = NoRow
  BY <1>1, LaterFields
<1> HIDE DEF o
<1> QED
  BY <1>2, <1>3

(* A request past the Lock, or one that never takes it, makes a step that   *)
(* leaves budgetMu alone.                                                   *)
Beyond(p) ==
  /\ UNCHANGED lock
  /\ op'[p].kind = op[p].kind
  /\ op[p].pc # "lock" /\ op'[p].pc # "lock"

(* budgetMu and the step of one request: it leaves the other requests       *)
(* alone, and either returns, or takes the free mutex, or stays on its side *)
(* of the Lock.                                                              *)
LEMMA StepShape ==
  ASSUME TypeOK, PcOK, NEW p \in Procs, Step(p)
  PROVE  /\ \A q \in Procs \ {p} : op'[q] = op[q]
         /\ Return(p) \/ AcquireBudget(p) \/ Beyond(p)
<1> DEFINE Shape == /\ \A q \in Procs \ {p} : op'[q] = op[q]
                    /\ Return(p) \/ AcquireBudget(p) \/ Beyond(p)
<1>r. Return(p) => Shape
  BY ReturnRecord
<1>g. ASSUME NEW c \in Pcs \ {"lock"}, Goto(p, c), UNCHANGED lock, op[p].pc # "lock"
      PROVE  Shape
  BY <1>g, GotoRecord DEF Beyond
<1>l. ASSUME NEW c \in Pcs \ {"lock"}, GotoForgetting(p, c), UNCHANGED lock, op[p].pc # "lock"
      PROVE  Shape
  BY <1>l, ForgetRecord DEF Beyond
<1>1. CASE AcquireBudget(p)
  BY <1>1, GotoRecord DEF AcquireBudget
<1>2. CASE GetInstance(p)
  BY <1>2, <1>r, OpFields DEF GetInstance, Beyond, At, Refreshed, TypeOK, Ops, Goto
<1>3. CASE ListInstances(p)
  BY <1>3, <1>r, OpFields DEF ListInstances, Beyond, At, Refreshed, TypeOK, Ops, Goto
<1>4. CASE ReadStatus(p)
  <2> DEFINE m == Min(op[p].todo)
  <2> DEFINE s == stateFromStatus(srv[m].phase)
  <2>1. /\ op[p].pc = "status" /\ UNCHANGED lock
        /\ \/ op' = [op EXCEPT ![p].todo = @ \ {m}]
           \/ op' = [op EXCEPT ![p].pc = "persist", ![p].copy[m].state = s]
    BY <1>4 DEF ReadStatus, At
  <2> HIDE DEF m, s
  <2>2. CASE op' = [op EXCEPT ![p].todo = @ \ {m}]
    BY <2>1, <2>2, OpFields DEF Beyond, TypeOK, Ops
  <2>3. CASE op' = [op EXCEPT ![p].pc = "persist", ![p].copy[m].state = s]
    BY <2>1, <2>3, OpFields DEF Beyond, TypeOK, Ops
  <2> QED
    BY <2>1, <2>2, <2>3
<1>5. CASE PersistStatus(p)
  BY <1>5, <1>r, OpFields DEF PersistStatus, Beyond, At, Refreshed, TypeOK, Ops, Goto
<1>6. CASE ViewInstances(p)
  BY <1>6, <1>r DEF ViewInstances
<1>7. CASE PickNumber(p)
  <2>1. CASE op' = [op EXCEPT ![p].pc = "dirfree", ![p].n = Min(Numbers \ Used),
                        ![p].copy[Min(Numbers \ Used)] = [world |-> op[p].inst.world,
                          state |-> CreatedState, mem |-> op[p].size, addr |-> "planned"]]
    BY <1>7, <2>1, OpFields DEF PickNumber, Beyond, At, TypeOK, Ops, Return
  <2>2. CASE Return(p)
    BY <1>r, <2>2
  <2> QED
    BY <1>7, <2>1, <2>2 DEF PickNumber
<1>8. CASE CheckInstanceDirFree(p)
  BY <1>8, <1>r, <1>g DEF CheckInstanceDirFree, At, Refreshed, Pcs
<1>9. CASE ReserveRole(p)
  BY <1>9, <1>r, <1>g DEF ReserveRole, At, Refreshed, Pcs
<1>10. CASE UndoRole(p)
  BY <1>10, <1>r DEF UndoRole
<1>11. CASE ApplyTier(p)
  BY <1>11, <1>r, OpFields DEF ApplyTier, Beyond, At, Refreshed, TypeOK, Ops, Goto
<1>12. CASE EditInstance(p)
  BY <1>12, <1>r, OpFields DEF EditInstance, Beyond, At, Refreshed, TypeOK, Ops, Goto
<1>13. CASE SaveTier(p)
  BY <1>13, <1>r DEF SaveTier
<1>14. CASE WriteManifests(p)
  <2>1. op[p].pc # "lock"
    BY <1>14 DEF WriteManifests, At
  <2>2. CASE Goto(p, (IF Host = "docker" /\ op[p].kind # "settings" THEN "converge" ELSE AfterManifests(op[p].kind))) /\ UNCHANGED lock
    BY <1>g, <2>1, <2>2 DEF Pcs, AfterManifests
  <2>3. CASE Fail(p)
    BY <1>g, <1>r, <2>1, <2>3 DEF Pcs, Fail
  <2> QED
    BY <1>14, <1>r, <2>2, <2>3 DEF WriteManifests
<1>15. CASE Converge(p)
  <2>1. op[p].pc # "lock"
    BY <1>15 DEF Converge, At
  <2>2. CASE Goto(p, AfterManifests(op[p].kind)) /\ UNCHANGED lock
    BY <1>g, <2>1, <2>2 DEF Pcs, AfterManifests
  <2>3. CASE Fail(p)
    BY <1>g, <1>r, <2>1, <2>3 DEF Pcs, Fail
  <2> QED
    BY <1>15, <1>r, <2>2, <2>3 DEF Converge
<1>16. CASE SaveRow(p)
  <2>1. op[p].pc # "lock"
    BY <1>16 DEF SaveRow, At
  <2>2. CASE Goto(p, "tierrow") /\ UNCHANGED lock
    BY <1>g, <2>1, <2>2 DEF Pcs, AfterManifests
  <2>3. CASE Fail(p)
    BY <1>g, <1>r, <2>1, <2>3 DEF Pcs, Fail
  <2> QED
    BY <1>16, <1>r, <2>2, <2>3 DEF SaveRow
<1>17. CASE StartCheck(p)
  BY <1>17, <1>r, OpFields DEF StartCheck, Beyond, At, Refreshed, TypeOK, Ops, Goto
<1>18. CASE StartGate(p)
  BY <1>18, <1>r, <1>g DEF StartGate, At, Refreshed, Pcs
<1>19. CASE ScaleUp(p)
  BY <1>19, <1>r, <1>l DEF ScaleUp, At, Refreshed, Pcs
<1>20. CASE MarkState(p)
  BY <1>20, <1>r DEF MarkState
<1>21. CASE StopInstance(p)
  BY <1>21, <1>r, <1>l DEF StopInstance, At, Refreshed, Pcs
<1>22. CASE RestartInstance(p)
  BY <1>22, <1>r DEF RestartInstance
<1>23. CASE DeleteInstance(p)
  BY <1>23, <1>r, <1>l DEF DeleteInstance, At, Refreshed, Pcs
<1>24. CASE DestroyServer(p)
  BY <1>24, <1>r, <1>g DEF DestroyServer, At, Refreshed, Pcs
<1>25. CASE DeleteDir(p)
  BY <1>25, <1>r, <1>g DEF DeleteDir, At, Refreshed, Pcs
<1>26. CASE DeleteRow(p)
  BY <1>26, <1>r, <1>g DEF DeleteRow, At, Refreshed, Pcs
<1>27. CASE RetireRole(p)
  BY <1>27, <1>r DEF RetireRole
<1>28. CASE ReconcileInstanceRoles(p)
  BY <1>28, <1>r, OpFields DEF ReconcileInstanceRoles, Beyond, At, Refreshed, TypeOK, Ops, Goto
<1>29. CASE EnsureInstanceRole(p)
  <2>1. CASE op' = [op EXCEPT ![p].todo = @ \ {Min(op[p].todo)}]
    BY <1>29, <2>1, OpFields DEF EnsureInstanceRole, Beyond, At, TypeOK, Ops, Return
  <2>2. CASE Return(p)
    BY <1>r, <2>2
  <2> QED
    BY <1>29, <2>1, <2>2 DEF EnsureInstanceRole
<1> QED
  BY <1>1, <1>2, <1>3, <1>4, <1>5, <1>6, <1>7, <1>8, <1>9, <1>10,
     <1>11, <1>12, <1>13, <1>14, <1>15, <1>16, <1>17, <1>18, <1>19, <1>20,
     <1>21, <1>22, <1>23, <1>24, <1>25, <1>26, <1>27, <1>28, <1>29
  DEF Step

(* Under NoStaleUpserts a step changes the world of a row only to delete it *)
(* or, when it is CreateInstance at its Upsert, to insert its own.          *)
LEMMA RowEffect ==
  ASSUME NoStaleUpserts, SlotInv, NEW p \in Procs, Step(p), NEW k \in Numbers
  PROVE  /\ row'[k].addr = "planned"
         /\ \/ row'[k].world \in {0, row[k].world}
            \/ /\ op[p].kind = "create" /\ op[p].pc = "row" /\ k = op[p].n
               /\ row'[k].world = op[p].copy[k].world
<1> DEFINE n == op[p].n
<1>a. row \in [Numbers -> Rows] /\ CallOK(op[p]) /\ row[k].addr = "planned" /\ Planned(op[p])
  BY DEF SlotInv, TypeOK, PcOK, PlannedAddresses
<1>b. TypeOK
  BY DEF SlotInv
<1>1. CASE PersistStatus(p)
  <2> DEFINE m == Min(op[p].todo)
  <2> DEFINE r == [op[p].copy[m] EXCEPT !.addr = RuntimeAddress]
  <2>1. m \in Numbers
    BY <1>1, <1>a, <1>b, OpFields DEF PersistStatus, CallOK, At
  <2>2. op[p].copy[m] \in Rows /\ op[p].copy[m].addr = "planned"
    BY <1>a, <1>b, <2>1, OpFields DEF Planned
  <2>3. r = op[p].copy[m] /\ r.state \in States
    BY <2>2 DEF NoStaleUpserts, Rows
  <2>4. row' = UpdateState(row, m, r.state) \/ row' = row
    BY <1>1, <2>3 DEF PersistStatus
  <2> HIDE DEF m, r
  <2> QED
    BY <1>a, <2>1, <2>3, <2>4, UpdateStateWorld
<1>2. CASE SaveRow(p)
  <2>1. n \in Numbers /\ op[p].kind = "create" /\ op[p].pc = "row"
    BY <1>2, <1>a DEF SaveRow, CallOK, At, Planned
  <2>2. op[p].copy[n] \in Rows /\ Held(p) = op[p].copy[n] /\ op[p].copy[n].addr = "planned"
    BY <1>a, <1>b, <2>1, OpFields DEF Planned, Held
  <2>3. row[n].world = 0
    BY <2>1 DEF SlotInv, CreateOwnsNumber, CreateOwns
  <2>4. row' = Upsert(row, n, op[p].copy[n]) \/ row' = row
    BY <1>2, <2>2 DEF SaveRow
  <2> QED
    BY <1>a, <2>1, <2>2, <2>3, <2>4, UpsertWorld
<1>3. CASE SaveTier(p)
  BY <1>3, <1>a DEF SaveTier, CallOK, At, Planned
<1>4. CASE MarkState(p)
  <2> DEFINE s == IF op[p].kind = "start" THEN "running" ELSE "stopped"
  <2>1. n \in Numbers /\ s \in States
    BY <1>4, <1>a DEF MarkState, CallOK, At, States
  <2>2. row' = UpdateState(row, n, s) \/ row' = row
    BY <1>4 DEF MarkState
  <2> HIDE DEF s
  <2> QED
    BY <1>a, <2>1, <2>2, UpdateStateWorld
<1>5. CASE DeleteRow(p)
  BY <1>a, <1>5 DEF DeleteRow, NoRow
<1>6. CASE UNCHANGED row
  BY <1>6, <1>a
<1> QED
  BY <1>1, <1>2, <1>3, <1>4, <1>5, <1>6, StepFrame

(* A step changes the world of a directory only to delete it or to write    *)
(* the record CreateInstance or StartInstance holds.                        *)
LEMMA DirEffect ==
  ASSUME SlotInv, NEW p \in Procs, Step(p), NEW k \in Numbers
  PROVE  \/ dir'[k].world \in {0, dir[k].world}
         \/ /\ op[p].kind \in {"create", "start"} /\ op[p].pc = "write" /\ k = op[p].n
            /\ dir'[k].world = Held(p).world
<1>a. dir \in [Numbers -> Dirs] /\ CallOK(op[p]) /\ Planned(op[p])
  BY DEF SlotInv, TypeOK, PcOK, PlannedAddresses
<1>1. CASE WriteManifests(p)
  BY <1>1, <1>a DEF WriteManifests, At, CallOK, Planned
<1>2. CASE DeleteDir(p)
  BY <1>2, <1>a DEF DeleteDir, NoDir
<1>3. CASE UNCHANGED dir
  BY <1>3
<1> QED
  BY <1>1, <1>2, <1>3, StepFrame

(* A step never adds an Account to a Role, and takes the Accounts of a Role *)
(* it removes.                                                              *)
LEMMA RoleEffect ==
  ASSUME SlotInv, NEW p \in Procs, Step(p), NEW k \in Numbers
  PROVE  /\ keepers'[k] \subseteq keepers[k]
         /\ keepers'[k] # {} => role'[k]
<1>a. /\ role \in [Numbers -> BOOLEAN] /\ keepers \in [Numbers -> SUBSET (1 .. MaxWorlds)]
      /\ keepers[k] # {} => role[k]
  BY DEF SlotInv, TypeOK, GrantsNeedRole
<1>1. CASE ReserveRole(p)
  BY <1>1, <1>a DEF ReserveRole
<1>2. CASE UndoRole(p)
  BY <1>2, <1>a DEF UndoRole, RemoveRole
<1>3. CASE RetireRole(p)
  BY <1>3, <1>a DEF RetireRole, RemoveRole
<1>4. CASE EnsureInstanceRole(p)
  BY <1>4, <1>a DEF EnsureInstanceRole
<1>5. CASE UNCHANGED <<role, keepers>>
  BY <1>5, <1>a
<1> QED
  BY <1>1, <1>2, <1>3, <1>4, <1>5, StepFrame

(* budgetMu excludes: while one request is past the Lock, no other is, so   *)
(* the request whose step this is did not write for another one.            *)
LEMMA OthersKeep ==
  ASSUME NoStaleUpserts, SlotInv, NEW p \in Procs, Step(p), NEW q \in Procs \ {p}
  PROVE  CreateOwns(op[q])' /\ StartKeeps(op[q])'
<1> DEFINE o == op[q]
<1>a. /\ op'[q] = o /\ TypeOK /\ CreateOwns(o) /\ StartKeeps(o) /\ CallOK(o)
  BY StepShape DEF SlotInv, CreateOwnsNumber, StartKeepsWorld, PcOK
<1>1. CASE o.kind \in {"create", "start"} /\ o.pc # "lock"
  <2>1. lock = q /\ ~(op[p].kind \in {"create", "start"} /\ op[p].pc # "lock")
    BY <1>1 DEF SlotInv, BudgetMutex
  <2>2. \A k \in Numbers : /\ row'[k].world \in {0, row[k].world}
                           /\ dir'[k].world \in {0, dir[k].world}
                           /\ keepers'[k] \subseteq keepers[k]
    BY <2>1, RowEffect, DirEffect, RoleEffect
  <2>3. o.pc \in {"dirfree", "role", "write", "converge", "row"} \/ o.kind = "start" => o.n \in Numbers
    BY <1>a DEF CallOK
  <2>4. CreateOwns(op[q])'
    BY <1>a, <2>2, <2>3 DEF CreateOwns
  <2>5. StartKeeps(op[q])'
    BY <1>a, <2>2, <2>3 DEF StartKeeps
  <2> QED
    BY <2>4, <2>5
<1>2. CASE ~(o.kind \in {"create", "start"} /\ o.pc # "lock")
  <2>1. CreateOwns(op[q])'
    BY <1>a, <1>2 DEF CreateOwns
  <2>2. StartKeeps(op[q])'
    BY <1>a, <1>2 DEF StartKeeps
  <2> QED
    BY <2>1, <2>2
<1> QED
  BY <1>1, <1>2

(* What a request still relies on about its own Number after its own step. *)
LEMMA OwnStep ==
  ASSUME NoStaleUpserts, SlotInv, NEW p \in Procs, Step(p)
  PROVE  Planned(op[p])' /\ CreateOwns(op[p])' /\ StartKeeps(op[p])'
<1> DEFINE n == op[p].n
<1> DEFINE m == Min(op[p].todo)
<1> DEFINE Own == Planned(op[p])' /\ CreateOwns(op[p])' /\ StartKeeps(op[p])'
<1>a. /\ TypeOK /\ PcOK /\ GrantsNeedRole
      /\ CallOK(op[p]) /\ Planned(op[p]) /\ CreateOwns(op[p]) /\ StartKeeps(op[p])
      /\ \A k \in Numbers : row[k].addr = "planned"
  BY DEF SlotInv, PcOK, PlannedAddresses, CreateOwnsNumber, StartKeepsWorld
<1>r. Return(p) => Own
  <2> SUFFICES ASSUME Return(p) PROVE Own
    OBVIOUS
  <2>1. op'[p] = Idle
    BY <1>a, ReturnRecord
  <2>2. Planned(op[p])'
    BY <2>1 DEF Planned, Idle, NoRow
  <2> QED
    BY <2>1, <2>2 DEF CreateOwns, StartKeeps, Idle
<1> DEFINE Moved(c) ==
      /\ op'[p].kind = op[p].kind /\ op'[p].n = n /\ op'[p].pc = c /\ op'[p].inst = op[p].inst
      /\ op'[p].copy = op[p].copy /\ op'[p].second = op[p].second
<1>g. ASSUME NEW c, Goto(p, c) PROVE Moved(c)
  BY <1>a, <1>g, GotoRecord
<1>o. ASSUME NEW c, Goto(p, c), op[p].kind \notin {"create", "start"} PROVE Own
  BY <1>a, <1>o, GotoRecord DEF Planned, CreateOwns, StartKeeps
<1>l. ASSUME NEW c \in {"mark", "destroy", "undir"}, GotoForgetting(p, c), op[p].kind # "create"
      PROVE  Own
  <2>1. c \in Pcs
    BY DEF Pcs
  <2>2. /\ op'[p].pc = c /\ op'[p].kind = op[p].kind /\ op'[p].inst = NoRow /\ ~op'[p].second
        /\ op'[p].copy = [k \in Numbers |-> NoRow]
    BY <1>a, <1>l, <2>1, ForgetRecord
  <2>3. Planned(op[p])'
    BY <1>a, <2>2 DEF Planned, NoRow
  <2>4. CreateOwns(op[p])' /\ StartKeeps(op[p])'
    BY <1>l, <2>2 DEF CreateOwns, StartKeeps
  <2> QED
    BY <2>3, <2>4
<1>f. Fail(p) => Own
  <2> SUFFICES ASSUME Fail(p) PROVE Own
    OBVIOUS
  <2>1. CASE op[p].kind = "create" /\ Goto(p, "undo")
    <3>1. Moved("undo")
      BY <1>g, <2>1
    <3> QED
      BY <1>a, <2>1, <3>1 DEF Planned, CreateOwns, StartKeeps
  <2> QED
    BY <1>r, <2>1 DEF Fail
<1>1. CASE AcquireBudget(p)
  <2>1. row' = row /\ Goto(p, IF op[p].kind = "create" THEN "pick" ELSE "get") /\ op[p].pc = "lock"
    BY <1>1 DEF AcquireBudget, At
  <2>2. Moved(IF op[p].kind = "create" THEN "pick" ELSE "get")
    BY <1>g, <2>1
  <2> QED
    BY <1>a, <2>1, <2>2 DEF Planned, CreateOwns, StartKeeps
<1>2. CASE GetInstance(p)
  <2>1. n \in Numbers /\ op[p].kind # "create" /\ op[p].pc = "get" /\ row' = row
    BY <1>2, <1>a DEF GetInstance, CallOK, At
  <2>2. CASE op' = [op EXCEPT ![p].pc = "status", ![p].todo = {n}, ![p].copy[n] = row[n]]
    <3>1. /\ op'[p].kind = op[p].kind /\ op'[p].n = n /\ op'[p].pc = "status"
          /\ op'[p].inst = op[p].inst /\ op'[p].second = op[p].second
          /\ op'[p].copy = [op[p].copy EXCEPT ![n] = row[n]]
      BY <1>a, <2>1, <2>2, OpFields DEF TypeOK, Ops
    <3> QED
      BY <1>a, <2>1, <3>1, OpFields DEF Planned, CreateOwns, StartKeeps
  <2> QED
    BY <1>2, <1>r, <2>2 DEF GetInstance
<1>3. CASE ListInstances(p)
  <2>1. op[p].kind # "create" /\ op[p].pc = "list" /\ row' = row
    BY <1>3, <1>a DEF ListInstances, CallOK, At
  <2>2. CASE op' = [op EXCEPT ![p].pc = "status", ![p].todo = Used, ![p].copy = row, ![p].second = TRUE]
    <3>1. /\ op'[p].kind = op[p].kind /\ op'[p].n = n /\ op'[p].pc = "status"
          /\ op'[p].inst = op[p].inst /\ op'[p].second = TRUE /\ op'[p].copy = row
      BY <1>a, <2>2, OpFields DEF TypeOK, Ops
    <3> QED
      BY <1>a, <2>1, <3>1 DEF Planned, CreateOwns, StartKeeps
  <2> QED
    BY <1>3, <1>r, <2>2 DEF ListInstances
<1>4. CASE ReadStatus(p)
  <2> DEFINE s == stateFromStatus(srv[m].phase)
  <2>1. op[p].kind # "create" /\ op[p].pc = "status" /\ row' = row /\ m \in Numbers
    BY <1>4, <1>a, OpFields DEF ReadStatus, CallOK, At
  <2>2. CASE op' = [op EXCEPT ![p].todo = @ \ {m}]
    <3>1. /\ op'[p].kind = op[p].kind /\ op'[p].n = n /\ op'[p].pc = "status"
          /\ op'[p].inst = op[p].inst /\ op'[p].second = op[p].second /\ op'[p].copy = op[p].copy
      BY <1>a, <2>1, <2>2, OpFields DEF TypeOK, Ops
    <3> QED
      BY <1>a, <2>1, <3>1 DEF Planned, CreateOwns, StartKeeps
  <2>3. CASE op' = [op EXCEPT ![p].pc = "persist", ![p].copy[m].state = s]
    <3>1. /\ op'[p].kind = op[p].kind /\ op'[p].n = n /\ op'[p].pc = "persist"
          /\ op'[p].inst = op[p].inst /\ op'[p].second = op[p].second
          /\ op'[p].copy = [op[p].copy EXCEPT ![m].state = s]
      BY <1>a, <2>1, <2>3, OpFields DEF TypeOK, Ops
    <3>2. \A k \in Numbers : /\ op'[p].copy[k].world = op[p].copy[k].world
                             /\ op'[p].copy[k].addr = op[p].copy[k].addr
      BY <1>a, <2>1, <3>1, OpFields DEF Rows
    <3>3. op[p].kind = "start" => n \in Numbers
      BY <1>a DEF CallOK
    <3> QED
      BY <1>a, <2>1, <3>1, <3>2, <3>3 DEF Planned, CreateOwns, StartKeeps
  <2> QED
    BY <1>4, <2>2, <2>3 DEF ReadStatus
<1>5. CASE PersistStatus(p)
  <2> DEFINE r == [op[p].copy[m] EXCEPT !.addr = RuntimeAddress]
  <2>1. op[p].kind # "create" /\ op[p].pc = "persist" /\ m \in Numbers
    BY <1>5, <1>a, OpFields DEF PersistStatus, CallOK, At
  <2>2. r = op[p].copy[m]
    <3>1. op[p].copy[m] \in Rows /\ op[p].copy[m].addr = "planned"
      BY <1>a, <2>1, OpFields DEF Planned
    <3> QED
      BY <3>1 DEF NoStaleUpserts, Rows
  <2>3. /\ op'[p].kind = op[p].kind /\ op'[p].n = n /\ op'[p].pc = "status"
        /\ op'[p].inst = op[p].inst /\ op'[p].second = op[p].second /\ op'[p].copy = op[p].copy
    <3>1. op' = [op EXCEPT ![p].pc = "status", ![p].todo = @ \ {m}, ![p].copy[m] = r]
      BY <1>5 DEF PersistStatus
    <3> HIDE DEF m, r
    <3> QED
      BY <1>a, <2>1, <2>2, <3>1, OpFields DEF TypeOK, Ops
  <2>4. \A k \in Numbers : row'[k].world \in {0, row[k].world}
    BY <2>1, RowEffect
  <2>5. op[p].kind = "start" => n \in Numbers
    BY <1>a DEF CallOK
  <2> QED
    BY <1>a, <2>1, <2>3, <2>4, <2>5 DEF Planned, CreateOwns, StartKeeps
<1>6. CASE ViewInstances(p)
  BY <1>6, <1>r DEF ViewInstances
<1>7. CASE PickNumber(p)
  <2> DEFINE k == Min(Numbers \ Used)
  <2> DEFINE r == [world |-> op[p].inst.world, state |-> CreatedState, mem |-> op[p].size, addr |-> "planned"]
  <2>1. CASE CanCreate(Used) /\ op' = [op EXCEPT ![p].pc = "dirfree", ![p].n = k, ![p].copy[k] = r]
    <3>1. k \in Numbers /\ row[k].world = 0
      BY <2>1, FreeNumber DEF Used
    <3>2. r.addr = "planned" /\ op[p].kind = "create" /\ row' = row
      BY <1>7, <1>a DEF PickNumber, CallOK, At
    <3> HIDE DEF k, r
    <3>3. /\ op'[p].kind = op[p].kind /\ op'[p].n = k /\ op'[p].pc = "dirfree"
          /\ op'[p].inst = op[p].inst /\ op'[p].copy = [op[p].copy EXCEPT ![k] = r]
      BY <1>a, <2>1, <3>1, OpFields DEF TypeOK, Ops
    <3> QED
      BY <1>a, <3>1, <3>2, <3>3, OpFields DEF Planned, CreateOwns, StartKeeps
  <2> QED
    BY <1>7, <1>r, <2>1 DEF PickNumber
<1>8. CASE CheckInstanceDirFree(p)
  <2>1. CASE (dir[n].world = 0 \/ "read" \in Faults) /\ Goto(p, "role")
    <3>1. op[p].kind = "create" /\ op[p].pc = "dirfree" /\ UNCHANGED <<row, dir>>
      BY <1>8, <1>a DEF CheckInstanceDirFree, CallOK, At
    <3>2. Moved("role")
      BY <1>g, <2>1
    <3> QED
      BY <1>a, <2>1, <3>1, <3>2 DEF Planned, CreateOwns, StartKeeps
  <2> QED
    BY <1>8, <1>r, <2>1 DEF CheckInstanceDirFree
<1>9. CASE ReserveRole(p)
  <2>1. CASE ~role[n] /\ Goto(p, "write")
    <3>1. /\ op[p].kind = "create" /\ op[p].pc = "role" /\ n \in Numbers
          /\ UNCHANGED <<row, dir, keepers>>
      BY <1>9, <1>a DEF ReserveRole, CallOK, At
    <3>2. keepers[n] = {}
      BY <1>a, <2>1, <3>1 DEF GrantsNeedRole
    <3>3. Moved("write")
      BY <1>g, <2>1
    <3> QED
      BY <1>a, <2>1, <3>1, <3>2, <3>3 DEF Planned, CreateOwns, StartKeeps
  <2> QED
    BY <1>9, <1>r, <2>1 DEF ReserveRole
<1>10. CASE UndoRole(p)
  BY <1>10, <1>r DEF UndoRole
<1>11. CASE ApplyTier(p) \/ EditInstance(p) \/ SaveTier(p)
  BY <1>11, <1>a DEF ApplyTier, EditInstance, SaveTier, Refreshed, CallOK, At, Planned
<1>12. CASE WriteManifests(p)
  <2> DEFINE c == IF Host = "docker" /\ op[p].kind # "settings" THEN "converge" ELSE AfterManifests(op[p].kind)
  <2>1. CASE /\ Goto(p, c)
             /\ dir' = [dir EXCEPT ![n] = [world |-> Held(p).world, mem |-> Held(p).mem, run |-> (Held(p).state = "running")]]
    <3>1. /\ op[p].kind \in {"create", "start"} /\ op[p].pc = "write" /\ n \in Numbers
          /\ UNCHANGED <<row, keepers>>
      BY <1>12, <1>a DEF WriteManifests, CallOK, At, Planned
    <3>2. dir'[n].world = Held(p).world
      BY <1>a, <2>1, <3>1 DEF TypeOK
    <3>3. op[p].kind = "create" => Held(p) = op[p].copy[n] /\ c \in {"converge", "row"}
      BY DEF Held, AfterManifests
    <3>4. op[p].kind = "start" => c \in {"converge", "mark"}
      BY DEF AfterManifests
    <3> HIDE DEF c
    <3>5. Moved(c)
      BY <1>g, <2>1
    <3> QED
      BY <1>a, <3>1, <3>2, <3>3, <3>4, <3>5 DEF Planned, CreateOwns, StartKeeps
  <2> QED
    BY <1>12, <1>f, <2>1 DEF WriteManifests
<1>13. CASE Converge(p)
  <2>1. CASE Goto(p, AfterManifests(op[p].kind))
    <3>1. /\ op[p].kind \in {"create", "start"} /\ op[p].pc = "converge"
          /\ UNCHANGED <<row, dir, keepers>>
      BY <1>13, <1>a DEF Converge, CallOK, At, Planned
    <3>2. Moved(AfterManifests(op[p].kind))
      BY <1>g, <2>1
    <3> QED
      BY <1>a, <2>1, <3>1, <3>2 DEF Planned, CreateOwns, StartKeeps, AfterManifests
  <2> QED
    BY <1>13, <1>f, <2>1 DEF Converge
<1>14. CASE SaveRow(p)
  BY <1>14, <1>a, <1>f, <1>r DEF SaveRow, Planned
<1>15. CASE StartCheck(p)
  <2>1. CASE op' = [op EXCEPT ![p].pc = "list", ![p].inst = op[p].copy[n]]
    <3>1. /\ op[p].kind = "start" /\ op[p].pc = "status" /\ ~op[p].second /\ n \in Numbers
          /\ row' = row
      BY <1>15, <1>a DEF StartCheck, CallOK, Refreshed
    <3>2. /\ op'[p].kind = "start" /\ op'[p].n = n /\ op'[p].pc = "list"
          /\ op'[p].inst = op[p].copy[n] /\ op'[p].copy = op[p].copy /\ op'[p].second = op[p].second
      BY <1>a, <2>1, <3>1, OpFields DEF TypeOK, Ops
    <3> QED
      BY <1>a, <3>1, <3>2 DEF Planned, CreateOwns, StartKeeps
  <2> QED
    BY <1>15, <1>r, <2>1 DEF StartCheck
<1>16. CASE StartGate(p)
  <2>1. CASE Goto(p, IF Host = "docker" THEN "write" ELSE "scale")
    <3>1. op[p].kind = "start" /\ op[p].second /\ row' = row
      BY <1>16 DEF StartGate, Refreshed
    <3>2. Moved(IF Host = "docker" THEN "write" ELSE "scale")
      BY <1>g, <2>1
    <3> QED
      BY <1>a, <2>1, <3>1, <3>2 DEF Planned, CreateOwns, StartKeeps
  <2> QED
    BY <1>16, <1>r, <2>1 DEF StartGate
<1>17. CASE ScaleUp(p)
  <2>1. CASE GotoForgetting(p, "mark")
    <3>1. op[p].kind = "start"
      BY <1>17, <1>a DEF ScaleUp, CallOK, At
    <3> QED
      BY <1>l, <2>1, <3>1 DEF Pcs
  <2> QED
    BY <1>17, <1>r, <2>1 DEF ScaleUp
<1>18. CASE MarkState(p) \/ RestartInstance(p) \/ RetireRole(p)
  BY <1>18, <1>r DEF MarkState, RestartInstance, RetireRole
<1>19. CASE StopInstance(p)
  BY <1>19, <1>r, <1>l DEF StopInstance, Refreshed, Pcs
<1>20. CASE DeleteInstance(p)
  BY <1>20, <1>r, <1>l DEF DeleteInstance, Refreshed, Pcs
<1>21. CASE DestroyServer(p)
  BY <1>21, <1>a, <1>r, <1>o DEF DestroyServer, At, CallOK
<1>22. CASE DeleteDir(p)
  BY <1>22, <1>a, <1>r, <1>o DEF DeleteDir, At, CallOK
<1>23. CASE DeleteRow(p)
  BY <1>23, <1>a, <1>r, <1>o DEF DeleteRow, At, CallOK
<1>24. CASE ReconcileInstanceRoles(p)
  <2> DEFINE listed == {k \in Numbers : op[p].copy[k].world # 0}
  <2>1. CASE op' = [op EXCEPT ![p].pc = "ensure", ![p].todo = listed]
    <3>1. op[p].kind = "reconcile"
      BY <1>24 DEF ReconcileInstanceRoles, Refreshed
    <3>2. op'[p].kind = op[p].kind /\ op'[p].inst = op[p].inst /\ op'[p].copy = op[p].copy
      BY <1>a, <2>1, OpFields DEF TypeOK, Ops
    <3> QED
      BY <1>a, <3>1, <3>2 DEF Planned, CreateOwns, StartKeeps
  <2> QED
    BY <1>24, <1>r, <2>1 DEF ReconcileInstanceRoles
<1>25. CASE EnsureInstanceRole(p)
  <2>1. CASE op' = [op EXCEPT ![p].todo = @ \ {m}]
    <3>1. op[p].pc = "ensure"
      BY <1>25 DEF EnsureInstanceRole, At
    <3>2. /\ op'[p].kind = op[p].kind /\ op'[p].inst = op[p].inst /\ op'[p].copy = op[p].copy
          /\ op'[p].pc = op[p].pc /\ op'[p].n = n /\ op'[p].second = op[p].second
      BY <1>a, <2>1, OpFields DEF TypeOK, Ops
    <3>3. row' = row
      BY <1>25 DEF EnsureInstanceRole
    <3> QED
      BY <1>a, <3>1, <3>2, <3>3 DEF Planned, CreateOwns, StartKeeps
  <2> QED
    BY <1>25, <1>r, <2>1 DEF EnsureInstanceRole
<1> QED
  BY <1>1, <1>2, <1>3, <1>4, <1>5, <1>6, <1>7, <1>8, <1>9, <1>10, <1>11, <1>12, <1>13,
     <1>14, <1>15, <1>16, <1>17, <1>18, <1>19, <1>20, <1>21, <1>22, <1>23, <1>24, <1>25
  DEF Step

(* The step of one request keeps the whole invariant. *)
LEMMA SlotStep ==
  ASSUME NoStaleUpserts, SlotInv, NEW p \in Procs, Step(p)
  PROVE  SlotInv'
<1>a. TypeOK /\ PcOK
  BY DEF SlotInv
<1>1. TypeOK' /\ PcOK'
  BY <1>a, TypeStep
<1>2. \A q \in Procs \ {p} : op'[q] = op[q]
  BY <1>a, StepShape
<1>3. BudgetMutex'
  <2> SUFFICES ASSUME NEW q \in Procs, op'[q].kind \in {"create", "start"}, op'[q].pc # "lock"
               PROVE  lock' = q
    BY DEF BudgetMutex
  <2>1. \A x \in Procs : op[x].kind \in {"create", "start"} /\ op[x].pc # "lock" => lock = x
    BY DEF SlotInv, BudgetMutex
  <2>2. CASE Return(p)
    <3>1. op'[p] = Idle
      BY <1>a, <2>2, ReturnRecord
    <3>2. q # p
      BY <3>1 DEF Idle
    <3>3. lock = q
      BY <1>2, <2>1, <3>2
    <3> QED
      BY <2>2, <3>2, <3>3 DEF Return
  <2>3. CASE AcquireBudget(p)
    <3>1. lock = NoProc /\ lock' = p
      BY <2>3 DEF AcquireBudget
    <3>2. q = p
      BY <1>2, <2>1, <3>1, ConstantsAssumption
    <3> QED
      BY <3>1, <3>2
  <2>4. CASE Beyond(p)
    BY <1>2, <2>1, <2>4 DEF Beyond
  <2> QED
    BY <1>a, <2>2, <2>3, <2>4, StepShape
<1>4. PlannedAddresses'
  <2>1. ASSUME NEW q \in Procs PROVE Planned(op[q])'
    <3>1. CASE q = p
      BY <3>1, OwnStep
    <3>2. CASE q # p
      <4>1. Planned(op[q]) /\ op'[q] = op[q]
        BY <1>2, <3>2 DEF SlotInv, PlannedAddresses
      <4> QED
        BY <4>1 DEF Planned
    <3> QED
      BY <3>1, <3>2
  <2> QED
    BY <2>1, RowEffect DEF PlannedAddresses
<1>5. GrantsNeedRole'
  BY RoleEffect DEF GrantsNeedRole
<1>6. CreateOwnsNumber' /\ StartKeepsWorld'
  <2>1. ASSUME NEW q \in Procs PROVE CreateOwns(op[q])' /\ StartKeeps(op[q])'
    BY OwnStep, OthersKeep
  <2> QED
    BY <2>1 DEF CreateOwnsNumber, StartKeepsWorld
<1>7. NoInheritedAccess'
  <2> SUFFICES ASSUME NEW k \in Numbers, row'[k].world # 0 PROVE keepers'[k] \subseteq {row'[k].world}
    BY DEF NoInheritedAccess
  <2>1. keepers'[k] \subseteq keepers[k]
    BY RoleEffect
  <2>2. CASE row'[k].world = row[k].world
    BY <2>1, <2>2 DEF SlotInv, NoInheritedAccess
  <2>3. CASE op[p].kind = "create" /\ op[p].pc = "row" /\ k = op[p].n
    BY <2>1, <2>3 DEF SlotInv, CreateOwnsNumber, CreateOwns
  <2> QED
    BY <2>2, <2>3, RowEffect
<1>8. ManifestsMatchRow'
  <2> SUFFICES ASSUME NEW k \in Numbers, row'[k].world # 0, dir'[k].world # 0
               PROVE  dir'[k].world = row'[k].world
    BY DEF ManifestsMatchRow
  <2>1. CASE op[p].kind = "create" /\ op[p].pc = "row" /\ k = op[p].n /\ row'[k].world = op[p].copy[k].world
    <3>1. dir'[k].world \in {0, dir[k].world}
      BY <2>1, DirEffect
    <3>2. dir[k].world \in {0, op[p].copy[k].world}
      BY <2>1 DEF SlotInv, CreateOwnsNumber, CreateOwns
    <3> QED
      BY <2>1, <3>1, <3>2
  <2>2. CASE row'[k].world = row[k].world
    <3>1. CASE dir'[k].world \in {0, dir[k].world}
      BY <2>2, <3>1 DEF SlotInv, ManifestsMatchRow
    <3>2. CASE /\ op[p].kind \in {"create", "start"} /\ op[p].pc = "write" /\ k = op[p].n
               /\ dir'[k].world = Held(p).world
      <4>1. CASE op[p].kind = "create"
        BY <2>2, <3>2, <4>1 DEF SlotInv, CreateOwnsNumber, CreateOwns
      <4>2. CASE op[p].kind = "start"
        BY <2>2, <3>2, <4>2 DEF SlotInv, StartKeepsWorld, StartKeeps, Held
      <4> QED
        BY <3>2, <4>1, <4>2
    <3> QED
      BY <3>1, <3>2, DirEffect
  <2> QED
    BY <2>1, <2>2, RowEffect
<1> QED
  BY <1>1, <1>3, <1>4, <1>5, <1>6, <1>7, <1>8 DEF SlotInv

(* So does a new request, which holds no record and no mutex yet. *)
LEMMA SlotRequest ==
  ASSUME NoStaleUpserts, SlotInv, NEW p \in Procs, NEW kind \in Kinds,
         NEW k \in Numbers \cup {0}, NEW size \in Sizes \cup {0}, Begin(p, kind, k, size)
  PROVE  SlotInv'
<1>a. TypeOK /\ PcOK
  BY DEF SlotInv
<1>1. TypeOK' /\ PcOK'
  BY <1>a, TypeRequest
<1>2. /\ \A q \in Procs \ {p} : op'[q] = op[q]
      /\ op'[p].kind = kind /\ op'[p].pc = FirstPc(kind) /\ op'[p].second = FALSE
      /\ op'[p].inst.addr = "planned"
      /\ \A n \in Numbers : op'[p].copy[n].addr = "planned"
  BY <1>a DEF Begin, Idle, NoRow, TypeOK
<1>3. UNCHANGED <<row, dir, role, keepers, lock>>
  BY DEF Begin
<1>4. kind \notin {"resize", "tier", "settings"}
  BY DEF NoStaleUpserts
<1>5. kind \in {"create", "start"} => FirstPc(kind) = "lock"
  BY DEF FirstPc
<1>6. BudgetMutex'
  <2> SUFFICES ASSUME NEW q \in Procs, op'[q].kind \in {"create", "start"}, op'[q].pc # "lock"
               PROVE  lock' = q
    BY DEF BudgetMutex
  <2>1. q # p
    BY <1>2, <1>5
  <2> QED
    BY <1>2, <1>3, <2>1 DEF SlotInv, BudgetMutex
<1>7. ASSUME NEW q \in Procs PROVE (Planned(op[q]) /\ CreateOwns(op[q]) /\ StartKeeps(op[q]))'
  <2>1. CASE q = p
    BY <1>2, <1>4, <1>5, <2>1 DEF Planned, CreateOwns, StartKeeps
  <2>2. CASE q # p
    <3>1. op'[q] = op[q] /\ Planned(op[q]) /\ CreateOwns(op[q]) /\ StartKeeps(op[q])
      BY <1>2, <2>2 DEF SlotInv, PlannedAddresses, CreateOwnsNumber, StartKeepsWorld
    <3> QED
      BY <1>3, <3>1 DEF Planned, CreateOwns, StartKeeps
  <2> QED
    BY <2>1, <2>2
<1>8. PlannedAddresses' /\ CreateOwnsNumber' /\ StartKeepsWorld'
  BY <1>3, <1>7 DEF PlannedAddresses, CreateOwnsNumber, StartKeepsWorld, SlotInv
<1>9. GrantsNeedRole' /\ NoInheritedAccess' /\ ManifestsMatchRow'
  BY <1>3 DEF SlotInv, GrantsNeedRole, NoInheritedAccess, ManifestsMatchRow
<1> QED
  BY <1>1, <1>6, <1>8, <1>9 DEF SlotInv

(* A Grant names the world in the row, and none while a create is under way. *)
LEMMA SlotGrant ==
  ASSUME SlotInv, NEW n \in Numbers, Grant(n)
  PROVE  SlotInv'
<1>a. TypeOK /\ PcOK
  BY DEF SlotInv
<1>1. TypeOK' /\ PcOK'
  BY <1>a, TypeEnvironment
<1>2. /\ UNCHANGED <<row, dir, role, lock, op>> /\ role[n]
      /\ \A k \in Numbers : keepers'[k] = IF k = n THEN keepers[k] \cup ({row[k].world} \ {0})
                                                   ELSE keepers[k]
  BY <1>a DEF Grant, TypeOK
<1>3. CreateOwnsNumber'
  <2> SUFFICES ASSUME NEW q \in Procs PROVE CreateOwns(op[q])'
    BY DEF CreateOwnsNumber
  <2>1. CreateOwns(op[q]) /\ CallOK(op[q])
    BY DEF SlotInv, CreateOwnsNumber, PcOK
  <2>2. op[q].pc \in {"write", "converge", "row"} => op[q].n \in Numbers
    BY <2>1 DEF CallOK
  <2> QED
    BY <1>2, <2>1, <2>2 DEF CreateOwns
<1>4. BudgetMutex' /\ PlannedAddresses' /\ StartKeepsWorld'
  BY <1>2 DEF SlotInv, BudgetMutex, PlannedAddresses, Planned, StartKeepsWorld, StartKeeps
<1>5. GrantsNeedRole' /\ NoInheritedAccess' /\ ManifestsMatchRow'
  BY <1>2 DEF SlotInv, GrantsNeedRole, NoInheritedAccess, ManifestsMatchRow
<1> QED
  BY <1>1, <1>3, <1>4, <1>5 DEF SlotInv

(* The environment changes only what the runtime hosts. *)
LEMMA SlotEnvironment ==
  ASSUME SlotInv, NEW n \in Numbers, Environment(n)
  PROVE  SlotInv'
<1>1. TypeOK' /\ PcOK'
  BY TypeEnvironment DEF SlotInv
<1>2. UNCHANGED <<row, dir, role, keepers, lock, op>>
  BY DEF Environment, ArgoSync, ArgoPrune, ServerReady, ServerCrash
<1> QED
  BY <1>1, <1>2 DEF SlotInv, BudgetMutex, PlannedAddresses, Planned, GrantsNeedRole,
     CreateOwnsNumber, CreateOwns, StartKeepsWorld, StartKeeps, NoInheritedAccess, ManifestsMatchRow

(* A restart of agrelha forgets every request and keeps every store. *)
LEMMA SlotRestart ==
  ASSUME SlotInv, AgrelhaRestart
  PROVE  SlotInv'
<1>1. TypeOK' /\ PcOK'
  BY TypeRestart DEF SlotInv
<1>2. UNCHANGED <<row, dir, role, keepers>> /\ \A q \in Procs : op'[q] = Idle
  BY DEF AgrelhaRestart
<1>3. BudgetMutex' /\ CreateOwnsNumber' /\ StartKeepsWorld'
  BY <1>2 DEF BudgetMutex, CreateOwnsNumber, CreateOwns, StartKeepsWorld, StartKeeps, Idle
<1>4. PlannedAddresses'
  BY <1>2 DEF SlotInv, PlannedAddresses, Planned, Idle, NoRow
<1>5. GrantsNeedRole' /\ NoInheritedAccess' /\ ManifestsMatchRow'
  BY <1>2 DEF SlotInv, GrantsNeedRole, NoInheritedAccess, ManifestsMatchRow
<1> QED
  BY <1>1, <1>3, <1>4, <1>5 DEF SlotInv

(* The reservation invariant holds initially. *)
LEMMA SlotInit == Init => SlotInv
<1> SUFFICES ASSUME Init PROVE SlotInv
  OBVIOUS
<1>1. TypeOK /\ PcOK
  BY TypeInit
<1>2. /\ \A n \in Numbers : keepers[n] = {} /\ row[n].addr = "planned" /\ row[n].world = dir[n].world
      /\ \A q \in Procs : op[q] = Idle
  BY DEF Init, NoRow, NoDir
<1>3. BudgetMutex /\ CreateOwnsNumber /\ StartKeepsWorld
  BY <1>2 DEF BudgetMutex, CreateOwnsNumber, CreateOwns, StartKeepsWorld, StartKeeps, Idle
<1>4. PlannedAddresses
  BY <1>2 DEF PlannedAddresses, Planned, Idle, NoRow
<1>5. GrantsNeedRole /\ NoInheritedAccess /\ ManifestsMatchRow
  BY <1>2 DEF GrantsNeedRole, NoInheritedAccess, ManifestsMatchRow
<1> QED
  BY <1>1, <1>3, <1>4, <1>5 DEF SlotInv

(* Every step keeps the reservation invariant. *)
LEMMA SlotNext ==
  ASSUME NoStaleUpserts, SlotInv, [Next]_vars
  PROVE  SlotInv'
<1>1. CASE \E p \in Procs : Request(p)
  BY <1>1, SlotRequest DEF Request
<1>2. CASE \E p \in Procs : Step(p)
  BY <1>2, SlotStep
<1>3. CASE \E n \in Numbers : Grant(n) \/ Environment(n)
  BY <1>3, SlotGrant, SlotEnvironment
<1>4. CASE AgrelhaRestart
  BY <1>4, SlotRestart
<1>5. CASE UNCHANGED vars
  <2>1. TypeOK' /\ PcOK'
    BY <1>5, TypeNext DEF SlotInv
  <2> QED
    BY <1>5, <2>1 DEF vars, SlotInv, BudgetMutex, PlannedAddresses, Planned, GrantsNeedRole,
       CreateOwnsNumber, CreateOwns, StartKeepsWorld, StartKeeps, NoInheritedAccess, ManifestsMatchRow
<1> QED
  BY <1>1, <1>2, <1>3, <1>4, <1>5 DEF Next

(* The Number reservation of CreateInstance holds in every behaviour in     *)
(* which no stale record is upserted: budgetMu, the directory check and the *)
(* Role together make whoever holds the mutex the only one to decide what a *)
(* free Number becomes, through every crash and failure.                    *)
THEOREM NumberReservation == NoStaleUpserts => (Spec => []SlotInv)
<1> SUFFICES ASSUME NoStaleUpserts PROVE Spec => []SlotInv
  OBVIOUS
<1>1. Init => SlotInv
  BY SlotInit
<1>2. SlotInv /\ [Next]_vars => SlotInv'
  BY SlotNext
<1> QED
  BY <1>1, <1>2, PTL DEF Spec

(* An Account granted access to one world is never authorised on the next   *)
(* world at the same Number (the Role as a slot reservation in              *)
(* CreateInstance and DeleteInstance).                                      *)
THEOREM AccessIsNotInherited == NoStaleUpserts => (Spec => []NoInheritedAccess)
<1> SUFFICES ASSUME NoStaleUpserts PROVE Spec => []NoInheritedAccess
  OBVIOUS
<1>1. SlotInv => NoInheritedAccess
  BY DEF SlotInv
<1>2. Spec => []SlotInv
  BY NumberReservation
<1> QED
  BY <1>1, <1>2, PTL

(* The state store and the database never disagree about which world a      *)
(* Number holds (checkInstanceDirFree, writeManifests).                     *)
THEOREM ManifestsDescribeRow == NoStaleUpserts => (Spec => []ManifestsMatchRow)
<1> SUFFICES ASSUME NoStaleUpserts PROVE Spec => []ManifestsMatchRow
  OBVIOUS
<1>1. SlotInv => ManifestsMatchRow
  BY DEF SlotInv
<1>2. Spec => []SlotInv
  BY NumberReservation
<1> QED
  BY <1>1, <1>2, PTL

(* CreateInstance checks the directory several calls before it writes, and  *)
(* as long as the store can be read never renders over one some world has.  *)
THEOREM CreateIsFresh ==
  NoStaleUpserts /\ "read" \notin Faults => (Spec => CreateNeverOverwrites)
<1> SUFFICES ASSUME NoStaleUpserts, "read" \notin Faults PROVE Spec => CreateNeverOverwrites
  OBVIOUS
<1>1. SlotInv => \A p \in Procs : op[p].kind = "create" /\ op[p].pc = "write" => dir[op[p].n].world = 0
  BY DEF SlotInv, CreateOwnsNumber, CreateOwns
<1>2. SlotInv /\ [Next]_vars =>
        [\A p \in Procs : op[p].kind = "create" /\ WriteManifests(p) /\ dir' # dir
            => dir[op[p].n].world = 0]_vars
  BY <1>1 DEF WriteManifests, At
<1>3. Spec => []SlotInv
  BY NumberReservation
<1> QED
  BY <1>2, <1>3, PTL DEF Spec, CreateNeverOverwrites

-----------------------------------------------------------------------------
(* The memory of a set of servers: MapThenSumSet, by induction *)

(* Sets of Numbers are finite, and one element fewer is a smaller one.       *)
LEMMA NumbersFinite ==
  ASSUME NEW S \in SUBSET Numbers
  PROVE  /\ IsFiniteSet(S) /\ Cardinality(S) \in Nat
         /\ \A x \in S : /\ S \ {x} \in SUBSET Numbers
                         /\ Cardinality(S \ {x}) = Cardinality(S) - 1 /\ Cardinality(S) > 0
<1>1. IsFiniteSet(Numbers)
  BY FS_Interval, ConstantsAssumption DEF Numbers
<1>2. IsFiniteSet(S) /\ Cardinality(S) \in Nat
  BY <1>1, FS_Subset, FS_CardinalityType
<1>3. ASSUME NEW x \in S
      PROVE  Cardinality(S \ {x}) = Cardinality(S) - 1 /\ Cardinality(S \ {x}) \in Nat
  BY <1>2, FS_RemoveElement, FS_CardinalityType
<1> QED
  BY <1>2, <1>3


(* An induction on the number of elements of a set of Numbers: what holds    *)
(* of a set when it holds of every smaller one, holds of every set.          *)
LEMMA SetsInduction ==
  ASSUME NEW Good,
         \A S \in SUBSET Numbers :
           (\A T \in SUBSET Numbers : Cardinality(T) < Cardinality(S) => T \in Good) => S \in Good
  PROVE  \A S \in SUBSET Numbers : S \in Good
<1> SUFFICES ASSUME NEW S0 \in SUBSET Numbers, S0 \notin Good PROVE FALSE
  OBVIOUS
<1> DEFINE Bad == {Cardinality(S) : S \in {T \in SUBSET Numbers : T \notin Good}}
<1>1. Bad \in SUBSET Nat /\ Bad # {}
  BY NumbersFinite
<1>2. Min(Bad) \in Bad /\ \A y \in Bad : Min(Bad) <= y
  BY <1>1, MinIsLeast
<1>3. PICK S \in SUBSET Numbers : S \notin Good /\ Cardinality(S) = Min(Bad)
  BY <1>2
<1>4. ASSUME NEW T \in SUBSET Numbers, Cardinality(T) < Cardinality(S) PROVE T \in Good
  <2>1. Cardinality(T) \in Nat /\ Cardinality(S) \in Nat
    BY NumbersFinite
  <2> QED
    BY <1>2, <1>3, <1>4, <2>1
<1> QED
  BY <1>3, <1>4

(* An induction on the natural numbers, stated for a set of them.           *)
LEMMA SetInduction ==
  ASSUME NEW K, 0 \in K, \A k \in Nat : k \in K => k + 1 \in K
  PROVE  Nat \subseteq K
<1> SUFFICES ASSUME Nat \ K # {} PROVE FALSE
  OBVIOUS
<1>1. Min(Nat \ K) \in Nat \ K /\ \A y \in Nat \ K : Min(Nat \ K) <= y
  BY MinIsLeast
<1> DEFINE x == Min(Nat \ K)
<1> HIDE DEF x
<1>2. x # 0 /\ x \in Nat /\ x \notin K
  BY <1>1 DEF x
<1>3. x - 1 \in Nat /\ ~(x <= x - 1)
  BY <1>2
<1>4. x - 1 \in K
  BY <1>1, <1>3 DEF x
<1> QED
  BY <1>2, <1>3, <1>4

(* The recursive function by which UsedGiB sums the memory of a set: the     *)
(* element it takes first, and its values on a domain of sets.               *)
Pick(s) == CHOOSE x \in s : TRUE
UpTo(k) == {s \in SUBSET Numbers : Cardinality(s) <= k}
SumsOn(t, g, D) == g = [s \in D |-> IF s = {} THEN 0 ELSE t[Pick(s)].mem + g[s \ {Pick(s)}]]

(* It can be defined for sets of one element more.                           *)
LEMMA SumExtends ==
  ASSUME NEW t, NEW k \in Nat, NEW g, SumsOn(t, g, UpTo(k))
  PROVE  \E h : SumsOn(t, h, UpTo(k + 1))
<1> DEFINE h == [s \in UpTo(k + 1) |-> IF s = {} THEN 0 ELSE t[Pick(s)].mem + g[s \ {Pick(s)}]]
<1>1. ASSUME NEW s \in UpTo(k + 1), s # {} PROVE s \ {Pick(s)} \in UpTo(k)
  <2>1. Pick(s) \in s
    BY <1>1 DEF Pick
  <2>2. /\ s \in SUBSET Numbers /\ Cardinality(s) \in Nat /\ Cardinality(s) <= k + 1
        /\ s \ {Pick(s)} \in SUBSET Numbers
        /\ Cardinality(s \ {Pick(s)}) = Cardinality(s) - 1
    BY <2>1, NumbersFinite DEF UpTo
  <2> QED
    BY <2>2 DEF UpTo
<1>2. \A s \in UpTo(k) : s \in UpTo(k + 1) /\ h[s] = g[s]
  <2>1. \A s \in UpTo(k) : s \in UpTo(k + 1)
    BY NumbersFinite DEF UpTo
  <2> QED
    BY <2>1 DEF SumsOn
<1>3. \A s \in UpTo(k + 1) : s # {} => h[s \ {Pick(s)}] = g[s \ {Pick(s)}]
  BY <1>1, <1>2
<1>4. h = [s \in UpTo(k + 1) |-> IF s = {} THEN 0 ELSE t[Pick(s)].mem + h[s \ {Pick(s)}]]
  BY <1>3
<1> HIDE DEF h
<1> QED
  BY <1>4 DEF SumsOn

(* So it exists on all the sets of Numbers.                                  *)
LEMMA SumExists ==
  ASSUME NEW t
  PROVE  \E g : SumsOn(t, g, SUBSET Numbers)
<1> DEFINE K == {k \in Nat : \E g : SumsOn(t, g, UpTo(k))}
<1>1. 0 \in K
  <2> DEFINE g == [s \in UpTo(0) |-> 0]
  <2>1. \A s \in UpTo(0) : s = {}
    BY NumbersFinite, FS_EmptySet DEF UpTo
  <2>2. g = [s \in UpTo(0) |-> IF s = {} THEN 0 ELSE t[Pick(s)].mem + g[s \ {Pick(s)}]]
    BY <2>1
  <2> HIDE DEF g
  <2>3. SumsOn(t, g, UpTo(0))
    BY <2>2 DEF SumsOn
  <2> QED
    BY <2>3
<1>2. \A k \in Nat : k \in K => k + 1 \in K
  BY SumExtends
<1> HIDE DEF K
<1>3. Cardinality(Numbers) \in K
  BY <1>1, <1>2, SetInduction, NumbersFinite
<1>4. PICK g : SumsOn(t, g, UpTo(Cardinality(Numbers)))
  BY <1>3 DEF K
<1>5. UpTo(Cardinality(Numbers)) = SUBSET Numbers
  <2>1. \A s \in SUBSET Numbers : Cardinality(s) <= Cardinality(Numbers)
    BY NumbersFinite, FS_Subset
  <2> QED
    BY <2>1 DEF UpTo
<1> QED
  BY <1>4, <1>5

(* UsedGiB is that function's value. *)
LEMMA SumIs ==
  ASSUME NEW t, NEW g, SumsOn(t, g, SUBSET Numbers), NEW S \in SUBSET Numbers
  PROVE  UsedGiB(t, S) = g[S]
<1> DEFINE F(f) == f = [s \in SUBSET S |-> IF s = {} THEN 0 ELSE t[Pick(s)].mem + f[s \ {Pick(s)}]]
<1> DEFINE it == CHOOSE f : F(f)
<1>1. UsedGiB(t, S) = it[S]
  BY DEF UsedGiB, MapThenSumSet, MapThenFoldSet, Pick
<1>2. \E f : F(f)
  <2> DEFINE f == [s \in SUBSET S |-> g[s]]
  <2>1. \A s \in SUBSET S : g[s] = IF s = {} THEN 0 ELSE t[Pick(s)].mem + g[s \ {Pick(s)}]
    BY DEF SumsOn
  <2>2. \A s \in SUBSET S : f[s \ {Pick(s)}] = g[s \ {Pick(s)}]
    OBVIOUS
  <2>3. F(f)
    BY <2>1, <2>2
  <2> HIDE DEF f, F
  <2> QED
    BY <2>3
<1>3. F(it)
  <2> HIDE DEF F
  <2> QED
    BY <1>2
<1> HIDE DEF it
<1> DEFINE Good == {s \in SUBSET Numbers : s \subseteq S => it[s] = g[s]}
<1>4. ASSUME NEW s \in SUBSET Numbers,
             \A u \in SUBSET Numbers : Cardinality(u) < Cardinality(s) => u \in Good
      PROVE  s \in Good
  <2> SUFFICES ASSUME s \subseteq S PROVE it[s] = g[s]
    OBVIOUS
  <2>1. CASE s = {}
    BY <1>3, <2>1 DEF SumsOn
  <2>2. CASE s # {}
    <3> DEFINE u == s \ {Pick(s)}
    <3>1. Pick(s) \in s
      BY <2>2 DEF Pick
    <3>2. u \in SUBSET Numbers /\ Cardinality(u) < Cardinality(s) /\ u \subseteq S
      BY <3>1, NumbersFinite
    <3>3. it[u] = g[u]
      BY <1>4, <3>2
    <3> QED
      BY <1>3, <2>2, <3>3 DEF SumsOn
  <2> QED
    BY <2>1, <2>2
<1> HIDE DEF Good
<1>5. S \in Good
  BY <1>4, SetsInduction
<1> QED
  BY <1>1, <1>5 DEF Good

(* The memory of no server is nothing, and any one of them can be counted    *)
(* first: addition does not care about the order.                            *)
LEMMA SumStep ==
  ASSUME NEW t, \A m \in Numbers : t[m].mem \in Nat
  PROVE  /\ UsedGiB(t, {}) = 0
         /\ \A S \in SUBSET Numbers : /\ UsedGiB(t, S) \in Nat
                                      /\ \A x \in S : UsedGiB(t, S) = t[x].mem + UsedGiB(t, S \ {x})
<1>1. PICK g : SumsOn(t, g, SUBSET Numbers)
  BY SumExists
<1>2. \A S \in SUBSET Numbers : g[S] = IF S = {} THEN 0 ELSE t[Pick(S)].mem + g[S \ {Pick(S)}]
  BY <1>1 DEF SumsOn
<1> DEFINE Good == {S \in SUBSET Numbers : g[S] \in Nat /\ \A x \in S : g[S] = t[x].mem + g[S \ {x}]}
<1>3. ASSUME NEW S \in SUBSET Numbers,
             \A T \in SUBSET Numbers : Cardinality(T) < Cardinality(S) => T \in Good
      PROVE  S \in Good
  <2>1. CASE S = {}
    <3>1. g[S] = 0 /\ \A x \in S : FALSE
      BY <1>2, <2>1
    <3> QED
      BY <3>1
  <2>2. CASE S # {}
    <3> DEFINE c == Pick(S)
    <3>1. c \in S
      BY <2>2 DEF Pick
    <3> HIDE DEF c
    <3>2. g[S] = t[c].mem + g[S \ {c}]
      BY <1>2, <2>2 DEF c
    <3>3. \A x \in S : S \ {x} \in SUBSET Numbers /\ S \ {x} \in Good
      BY <1>3, NumbersFinite
    <3>4. g[S] \in Nat
      <4>1. g[S \ {c}] \in Nat
        BY <3>1, <3>3
      <4>2. t[c].mem \in Nat
        BY <3>1
      <4> QED
        BY <3>2, <4>1, <4>2
    <3>5. ASSUME NEW x \in S PROVE g[S] = t[x].mem + g[S \ {x}]
      <4>1. CASE x = c
        BY <3>2, <4>1
      <4>2. CASE x # c
        <5> DEFINE Sc == S \ {c}
        <5> DEFINE Sx == S \ {x}
        <5> DEFINE R == (S \ {c}) \ {x}
        <5>1. x \in Sc /\ c \in Sx /\ R = Sc \ {x} /\ R = Sx \ {c}
          BY <3>1, <4>2
        <5>2. Sc \in Good /\ Sx \in Good /\ R \in SUBSET Numbers
          BY <3>1, <3>3
        <5>3. g[Sc] = t[x].mem + g[R] /\ g[Sx] = t[c].mem + g[R]
          BY <5>1, <5>2
        <5>4. Cardinality(Sc) < Cardinality(S) /\ Cardinality(R) < Cardinality(Sc)
          BY <3>1, <5>1, <5>2, NumbersFinite
        <5>5. R \in Good
          <6>1. Cardinality(R) \in Nat /\ Cardinality(Sc) \in Nat /\ Cardinality(S) \in Nat
            BY <5>2, NumbersFinite
          <6>2. Cardinality(R) < Cardinality(S)
            BY <5>4, <6>1
          <6> HIDE DEF R, Good
          <6> QED
            BY <1>3, <5>2, <6>2
        <5>6. g[R] \in Nat /\ t[x].mem \in Nat /\ t[c].mem \in Nat
          BY <3>1, <5>5
        <5> QED
          BY <3>2, <5>3, <5>6
      <4> QED
        BY <4>1, <4>2
    <3> QED
      BY <3>4, <3>5
  <2> QED
    BY <2>1, <2>2
<1>4. \A S \in SUBSET Numbers : S \in Good
  <2> HIDE DEF Good
  <2> QED
    BY <1>3, SetsInduction
<1>5. \A S \in SUBSET Numbers : UsedGiB(t, S) = g[S]
  BY <1>1, SumIs
<1>6. \A S \in SUBSET Numbers : \A x \in S : S \ {x} \in SUBSET Numbers
  OBVIOUS
<1> QED
  BY <1>2, <1>4, <1>5, <1>6

(* Fewer servers hold no more memory.                                        *)
LEMMA SumOfFewer ==
  ASSUME NEW t, \A m \in Numbers : t[m].mem \in Nat
  PROVE  \A S \in SUBSET Numbers : \A T \in SUBSET S : UsedGiB(t, T) <= UsedGiB(t, S)
<1> DEFINE Good == {S \in SUBSET Numbers : \A T \in SUBSET S : UsedGiB(t, T) <= UsedGiB(t, S)}
<1>1. ASSUME NEW S \in SUBSET Numbers,
             \A T \in SUBSET Numbers : Cardinality(T) < Cardinality(S) => T \in Good
      PROVE  S \in Good
  <2> SUFFICES ASSUME NEW T \in SUBSET S PROVE UsedGiB(t, T) <= UsedGiB(t, S)
    OBVIOUS
  <2>1. UsedGiB(t, T) \in Nat /\ UsedGiB(t, S) \in Nat
    BY SumStep
  <2>2. CASE T = S
    BY <2>1, <2>2
  <2>3. CASE T # S
    <3>1. PICK x \in S : x \notin T
      BY <2>3
    <3> DEFINE R == S \ {x}
    <3>2. R \in SUBSET Numbers /\ Cardinality(R) < Cardinality(S) /\ T \in SUBSET R
      BY <3>1, NumbersFinite
    <3>3. UsedGiB(t, T) <= UsedGiB(t, R) /\ UsedGiB(t, R) \in Nat
      BY <1>1, <3>2, SumStep
    <3>4. UsedGiB(t, S) = t[x].mem + UsedGiB(t, R) /\ t[x].mem \in Nat
      BY SumStep
    <3> HIDE DEF R
    <3> QED
      BY <2>1, <3>3, <3>4
  <2> QED
    BY <2>2, <2>3
<1> HIDE DEF Good
<1>2. \A S \in SUBSET Numbers : S \in Good
  BY <1>1, SetsInduction
<1> QED
  BY <1>2 DEF Good

(* Only the memory of the servers that are counted matters.                  *)
LEMMA SumAgrees ==
  ASSUME NEW t, NEW u, \A m \in Numbers : t[m].mem \in Nat /\ u[m].mem \in Nat
  PROVE  \A S \in SUBSET Numbers : (\A m \in S : t[m].mem = u[m].mem) => UsedGiB(t, S) = UsedGiB(u, S)
<1> DEFINE Good == {S \in SUBSET Numbers : (\A m \in S : t[m].mem = u[m].mem) => UsedGiB(t, S) = UsedGiB(u, S)}
<1>1. ASSUME NEW S \in SUBSET Numbers,
             \A T \in SUBSET Numbers : Cardinality(T) < Cardinality(S) => T \in Good
      PROVE  S \in Good
  <2> SUFFICES ASSUME \A m \in S : t[m].mem = u[m].mem PROVE UsedGiB(t, S) = UsedGiB(u, S)
    OBVIOUS
  <2>1. CASE S = {}
    BY <2>1, SumStep
  <2>2. CASE S # {}
    <3>1. PICK x \in S : TRUE
      BY <2>2
    <3> DEFINE R == S \ {x}
    <3>2. R \in SUBSET Numbers /\ Cardinality(R) < Cardinality(S) /\ \A m \in R : t[m].mem = u[m].mem
      BY <3>1, NumbersFinite
    <3>3. UsedGiB(t, R) = UsedGiB(u, R)
      BY <1>1, <3>2
    <3>4. UsedGiB(t, S) = t[x].mem + UsedGiB(t, R) /\ UsedGiB(u, S) = u[x].mem + UsedGiB(u, R)
      BY SumStep
    <3> HIDE DEF R
    <3> QED
      BY <3>3, <3>4
  <2> QED
    BY <2>1, <2>2
<1> HIDE DEF Good
<1>2. \A S \in SUBSET Numbers : S \in Good
  BY <1>1, SetsInduction
<1> QED
  BY <1>2 DEF Good

-----------------------------------------------------------------------------
(* The start gate: what its invariant says *)

(* What the operators do in the deployments that the gate is for: worlds     *)
(* start and stop and are looked at, a started server is Available at once,  *)
(* and the host answers.                                                     *)
OnlyStartsAndStops ==
  /\ Kinds \subseteq {"start", "stop", "view", "reconcile", "grant"}
  /\ InstantBoot
  /\ Faults \cap {"status", "server"} = {}

(* The tables describe the worlds that were there when agrelha first booted, *)
(* each with its server and its manifests.                                   *)
WorldsStay ==
  \A n \in Numbers :
    IF n \in Existing
    THEN /\ row[n].world # 0 /\ row[n].mem = srv[n].mem
         /\ Host = "cluster" => dir[n].world # 0 /\ dir[n].mem = srv[n].mem
         /\ srv[n].phase \in {"stopped", "ready"}
    ELSE row[n].world = 0 /\ (Host = "cluster" => dir[n].world = 0) /\ srv[n].phase = "absent"

(* The records a request holds are of those worlds, with their sizes.        *)
RecordOK(o) ==
  /\ o.kind \in {"start", "stop", "view", "reconcile", "none"}
  /\ \A n \in Numbers : o.copy[n].world # 0 => n \in Existing /\ o.copy[n].mem = srv[n].mem
  /\ o.pc \in {"status", "persist"} => \A n \in o.todo : o.copy[n].world # 0
  /\ o.kind \in {"start", "stop"} /\ o.pc \in {"status", "persist"}
       => o.n \in Existing /\ o.copy[o.n].world # 0
  /\ o.kind = "start" /\ (o.second \/ o.pc \in {"list", "write", "converge", "scale"})
       => o.n \in Existing /\ o.inst.mem = srv[o.n].mem
  /\ o.kind \in {"start", "stop"} /\ o.pc = "mark" => o.n \in Existing
  /\ o.pc \in {"write", "converge"} => o.kind = "start" /\ Host = "docker"
  /\ o.pc \in {"lock", "get"} => ~o.second
  /\ o.pc = "list" => o.kind # "stop"

(* What StartInstance has listed: every server that is up is running in its  *)
(* list once its record is refreshed.                                        *)
Lists(o, m) == srv[m].phase \in Up => o.copy[m].state = "running"
ListOK(o) ==
  o.kind = "start" /\ o.second /\ o.pc \in {"status", "persist"} =>
    /\ \A m \in Existing : o.copy[m].world # 0
    /\ \A m \in Existing \ o.todo : Lists(o, m)
    /\ o.pc = "persist" => Lists(o, Min(o.todo))

(* From the gate to the start, the other servers leave room for this one.    *)
Fits(n) ==
  /\ Cardinality(UpServers \ {n}) < MaxRunning
  /\ UsedGiB(srv, UpServers \ {n}) + srv[n].mem <= TotalBudgetGiB
RoomOK(o) == o.pc \in {"write", "converge", "scale"} => Fits(o.n)

GateInv ==
  /\ TypeOK /\ PcOK /\ BudgetMutex /\ WorldsStay
  /\ \A p \in Procs : RecordOK(op[p]) /\ ListOK(op[p]) /\ RoomOK(op[p])
  /\ StartsFitBudget

-----------------------------------------------------------------------------
(* The start gate is an invariant *)

(* budgetMu is held by the one request that is past its Lock.               *)
LEMMA MutexNext ==
  ASSUME TypeOK, PcOK, BudgetMutex, [Next]_vars
  PROVE  BudgetMutex'
<1> SUFFICES ASSUME NEW q \in Procs, op'[q].kind \in {"create", "start"}, op'[q].pc # "lock"
             PROVE  lock' = q
  BY DEF BudgetMutex
<1>i. Idle.kind = "none"
  BY DEF Idle
<1>1. ASSUME NEW p \in Procs, Request(p) PROVE lock' = q
  <2>1. PICK kind \in Kinds, k \in Numbers \cup {0}, size \in Sizes \cup {0} : Begin(p, kind, k, size)
    BY <1>1 DEF Request
  <2>2. /\ lock' = lock /\ \A r \in Procs \ {p} : op'[r] = op[r]
        /\ op'[p].kind = kind /\ op'[p].pc = FirstPc(kind)
    BY <2>1 DEF Begin, Idle, NoRow, TypeOK
  <2>3. q # p
    BY <2>2 DEF FirstPc
  <2> QED
    BY <2>2, <2>3 DEF BudgetMutex
<1>2. ASSUME NEW p \in Procs, Step(p) PROVE lock' = q
  <2>1. /\ \A r \in Procs \ {p} : op'[r] = op[r]
        /\ Return(p) \/ AcquireBudget(p) \/ Beyond(p)
    BY <1>2, StepShape
  <2>2. CASE Return(p)
    <3>1. q # p
      BY <1>i, <2>2, ReturnRecord
    <3>2. lock = q
      BY <2>1, <3>1 DEF BudgetMutex
    <3> QED
      BY <2>2, <3>1, <3>2 DEF Return
  <2>3. CASE AcquireBudget(p)
    <3>1. lock = NoProc /\ lock' = p
      BY <2>3 DEF AcquireBudget
    <3>2. CASE q = p
      BY <3>1, <3>2
    <3>3. CASE q # p
      BY <2>1, <3>1, <3>3, ConstantsAssumption DEF BudgetMutex
    <3> QED
      BY <3>2, <3>3
  <2>4. CASE Beyond(p)
    <3>1. lock' = lock
      BY <2>4 DEF Beyond
    <3>2. CASE q = p
      BY <2>4, <3>1, <3>2 DEF Beyond, BudgetMutex
    <3>3. CASE q # p
      BY <2>1, <3>1, <3>3 DEF BudgetMutex
    <3> QED
      BY <3>2, <3>3
  <2> QED
    BY <2>1, <2>2, <2>3, <2>4
<1>3. CASE \E n \in Numbers : Grant(n) \/ Environment(n)
  BY <1>3 DEF Grant, Environment, ArgoSync, ArgoPrune, ServerReady, ServerCrash, BudgetMutex
<1>4. CASE AgrelhaRestart
  BY <1>4, <1>i DEF AgrelhaRestart
<1>5. CASE UNCHANGED vars
  BY <1>5 DEF vars, BudgetMutex
<1> QED
  BY <1>1, <1>2, <1>3, <1>4, <1>5 DEF Next

(* Only starts, stops, page views and the role reconciliation are at work.   *)
Working(p) ==
  \/ AcquireBudget(p) \/ GetInstance(p) \/ ListInstances(p) \/ ReadStatus(p) \/ PersistStatus(p)
  \/ ViewInstances(p) \/ WriteManifests(p) \/ Converge(p) \/ StartCheck(p) \/ StartGate(p)
  \/ ScaleUp(p) \/ MarkState(p) \/ StopInstance(p) \/ ReconcileInstanceRoles(p) \/ EnsureInstanceRole(p)

LEMMA OnlyWorking ==
  ASSUME GateInv, NEW p \in Procs, Step(p)
  PROVE  Working(p)
<1>1. CallOK(op[p]) /\ op[p].kind \in {"start", "stop", "view", "reconcile", "none"}
  BY DEF GateInv, PcOK, RecordOK
<1> QED
  BY <1>1 DEF Step, Working, CallOK, PickNumber, CheckInstanceDirFree, ReserveRole, UndoRole, ApplyTier,
     EditInstance, SaveTier, SaveRow, RestartInstance, DeleteInstance, DestroyServer, DeleteDir, DeleteRow,
     RetireRole, At, Refreshed

(* A request that is about to start a server is about a world there is, and  *)
(* holds its size.                                                           *)
LEMMA StartHolds ==
  ASSUME GateInv, NEW p \in Procs, op[p].pc \in {"write", "converge", "scale"}
  PROVE  /\ op[p].kind = "start" /\ lock = p /\ op[p].n \in Existing /\ op[p].n \in Numbers
         /\ Held(p) = op[p].inst /\ Held(p).mem = srv[op[p].n].mem /\ Fits(op[p].n)
<1>1. /\ CallOK(op[p]) /\ RecordOK(op[p]) /\ RoomOK(op[p]) /\ BudgetMutex
  BY DEF GateInv, PcOK
<1>2. op[p].kind = "start"
  BY <1>1 DEF CallOK, RecordOK
<1>3. op[p].n \in Existing /\ op[p].inst.mem = srv[op[p].n].mem
  BY <1>1, <1>2 DEF RecordOK
<1> QED
  BY <1>1, <1>2, <1>3, ConstantsAssumption DEF BudgetMutex, Held, RoomOK

(* What a step of a request does to the servers: none changes its size, and  *)
(* only a start lets one come up.                                            *)
SrvKept(p) ==
  /\ \A n \in Numbers : srv'[n].mem = srv[n].mem
  /\ \A n \in Numbers : srv'[n].phase = srv[n].phase
       \/ (n \in Existing /\ srv'[n].phase = "stopped")
       \/ (/\ n \in Existing /\ srv'[n].phase = "ready"
           /\ n = op[p].n /\ op[p].pc \in {"converge", "scale"})

LEMMA SrvEffect ==
  ASSUME OnlyStartsAndStops, GateInv, NEW p \in Procs, Step(p)
  PROVE  SrvKept(p)
<1> DEFINE n == op[p].n
<1>1. Working(p)
  BY OnlyWorking
<1>2. srv \in [Numbers -> Servers] /\ UpPhase = "ready"
  BY DEF GateInv, TypeOK, OnlyStartsAndStops, UpPhase
<1>3. CASE srv' = srv
  BY <1>3 DEF SrvKept
<1>4. CASE Converge(p) /\ srv' # srv
  <2>1. op[p].pc = "converge"
    BY <1>4 DEF Converge, At
  <2>2. n \in Existing /\ n \in Numbers /\ Held(p).mem = srv[n].mem
    BY <2>1, StartHolds
  <2>3. srv' = [srv EXCEPT ![n] = [phase |-> "ready", mem |-> srv[n].mem]]
    BY <1>2, <1>4, <2>2 DEF Converge
  <2> QED
    BY <1>2, <2>1, <2>2, <2>3 DEF SrvKept, Servers
<1>5. CASE ScaleUp(p) /\ srv' # srv
  <2>1. op[p].pc = "scale"
    BY <1>5 DEF ScaleUp, At
  <2>2. n \in Existing /\ n \in Numbers
    BY <2>1, StartHolds
  <2>3. srv' = [srv EXCEPT ![n].phase = "ready"]
    BY <1>2, <1>5, <2>2 DEF ScaleUp, Servers
  <2> QED
    BY <1>2, <2>1, <2>2, <2>3 DEF SrvKept, Servers
<1>6. CASE StopInstance(p) /\ srv' # srv
  <2>1. op[p].kind = "stop" /\ op[p].pc = "status"
    BY <1>6 DEF StopInstance, Refreshed
  <2>2. n \in Existing /\ n \in Numbers
    BY <2>1, ConstantsAssumption DEF GateInv, RecordOK
  <2>3. srv' = [srv EXCEPT ![n].phase = "stopped"]
    BY <1>6 DEF StopInstance
  <2> QED
    BY <1>2, <2>2, <2>3 DEF SrvKept, Servers
<1>7. srv' = srv \/ Converge(p) \/ ScaleUp(p) \/ StopInstance(p)
  BY <1>1 DEF Working, AcquireBudget, GetInstance, ListInstances, ReadStatus, PersistStatus, ViewInstances,
     WriteManifests, StartCheck, StartGate, MarkState, ReconcileInstanceRoles, EnsureInstanceRole
<1> QED
  BY <1>3, <1>4, <1>5, <1>6, <1>7

(* Fewer servers of the same sizes are fewer and hold no more memory.        *)
LEMMA FewerFit ==
  ASSUME NEW t, NEW u, \A m \in Numbers : t[m].mem \in Nat /\ u[m].mem = t[m].mem,
         NEW S \in SUBSET Numbers, NEW T \in SUBSET S
  PROVE  /\ Cardinality(T) \in Nat /\ Cardinality(S) \in Nat /\ Cardinality(T) <= Cardinality(S)
         /\ UsedGiB(u, T) \in Nat /\ UsedGiB(t, S) \in Nat /\ UsedGiB(u, T) <= UsedGiB(t, S)
<1>1. IsFiniteSet(S) /\ Cardinality(S) \in Nat /\ T \in SUBSET Numbers
  BY NumbersFinite
<1>2. Cardinality(T) <= Cardinality(S)
  BY <1>1, FS_Subset
<1>3. Cardinality(T) \in Nat
  BY <1>1, NumbersFinite
<1>4. UsedGiB(t, T) = UsedGiB(u, T)
  BY <1>1, SumAgrees
<1>5. UsedGiB(t, T) <= UsedGiB(t, S)
  BY SumOfFewer
<1>6. UsedGiB(t, T) \in Nat /\ UsedGiB(t, S) \in Nat
  BY <1>1, SumStep
<1> QED
  BY <1>1, <1>2, <1>3, <1>4, <1>5, <1>6

(* With the one server added for which the others left room, all fit.        *)
LEMMA AllFit ==
  ASSUME NEW t, \A m \in Numbers : t[m].mem \in Nat, NEW S \in SUBSET Numbers, NEW n \in Numbers,
         Cardinality(S \ {n}) < MaxRunning, UsedGiB(t, S \ {n}) + t[n].mem <= TotalBudgetGiB
  PROVE  Cardinality(S) <= MaxRunning /\ UsedGiB(t, S) <= TotalBudgetGiB
<1>1. CASE n \in S
  <2>1. Cardinality(S \ {n}) = Cardinality(S) - 1 /\ Cardinality(S) \in Nat
    BY <1>1, NumbersFinite
  <2>2. UsedGiB(t, S) = t[n].mem + UsedGiB(t, S \ {n}) /\ UsedGiB(t, S \ {n}) \in Nat /\ t[n].mem \in Nat
    BY <1>1, SumStep
  <2> QED
    BY <2>1, <2>2, ConstantsAssumption
<1>2. CASE n \notin S
  <2>1. S \ {n} = S
    BY <1>2
  <2>2. Cardinality(S) \in Nat /\ UsedGiB(t, S) \in Nat /\ t[n].mem \in Nat
    BY NumbersFinite, SumStep
  <2>3. Cardinality(S) < MaxRunning /\ UsedGiB(t, S) + t[n].mem <= TotalBudgetGiB
    BY <2>1
  <2> QED
    BY <2>2, <2>3, ConstantsAssumption
<1> QED
  BY <1>1, <1>2

(* The sizes of the servers are numbers.                                     *)
LEMMA SizesAreNumbers ==
  ASSUME TypeOK
  PROVE  \A m \in Numbers : srv[m].mem \in Nat
<1>1. \A m \in Numbers : srv[m].mem \in Sizes \cup {0}
  BY DEF TypeOK, Servers
<1>2. Sizes \cup {0} \subseteq Nat
  BY ConstantsAssumption
<1> QED
  BY <1>1, <1>2

(* What a step of a request does to the tables: it writes back the world and *)
(* the size that are there.                                                  *)
LEMMA TablesKept ==
  ASSUME OnlyStartsAndStops, GateInv, NEW p \in Procs, Step(p)
  PROVE  /\ \A n \in Numbers : row'[n].world = row[n].world /\ row'[n].mem = row[n].mem
         /\ Host = "cluster" => dir' = dir
<1>1. Working(p)
  BY OnlyWorking
<1>2. row \in [Numbers -> Rows] /\ RecordOK(op[p]) /\ CallOK(op[p]) /\ TypeOK
  BY DEF GateInv, TypeOK, PcOK
<1>3. CASE PersistStatus(p)
  <2> DEFINE m == Min(op[p].todo)
  <2> DEFINE r == [op[p].copy[m] EXCEPT !.addr = RuntimeAddress]
  <2>1. op[p].pc = "persist" /\ m \in Numbers /\ m \in op[p].todo
    BY <1>2, <1>3, OpFields DEF PersistStatus, CallOK, At
  <2>2. op[p].copy[m].world # 0 /\ m \in Existing /\ op[p].copy[m].mem = srv[m].mem
    BY <1>2, <2>1 DEF RecordOK
  <2>3. row[m].world # 0 /\ row[m].mem = srv[m].mem
    BY <2>1, <2>2 DEF GateInv, WorldsStay
  <2>4. op[p].copy[m] \in Rows
    BY <1>2, <2>1, OpFields
  <2>5. r.mem = row[m].mem
    BY <2>2, <2>3, <2>4 DEF Rows
  <2>6. \A n \in Numbers : Upsert(row, m, r)[n].world = row[n].world /\ Upsert(row, m, r)[n].mem = row[n].mem
    BY <1>2, <2>1, <2>3, <2>4, <2>5 DEF Upsert, Rows
  <2>7. \A n \in Numbers : /\ UpdateState(row, m, r.state)[n].world = row[n].world
                           /\ UpdateState(row, m, r.state)[n].mem = row[n].mem
    BY <1>2, <2>1 DEF UpdateState, Rows
  <2> QED
    BY <1>3, <2>6, <2>7 DEF PersistStatus
<1>4. CASE MarkState(p)
  <2>1. op[p].n \in Numbers
    BY <1>2, <1>4 DEF MarkState, At, CallOK
  <2>2. \A s \in States, n \in Numbers : /\ UpdateState(row, op[p].n, s)[n].world = row[n].world
                                         /\ UpdateState(row, op[p].n, s)[n].mem = row[n].mem
    BY <1>2, <2>1 DEF UpdateState, Rows
  <2> QED
    BY <1>4, <2>2 DEF MarkState, States
<1>5. CASE WriteManifests(p)
  <2>1. Host = "docker"
    BY <1>2, <1>5 DEF WriteManifests, At, RecordOK
  <2> QED
    BY <1>5, <2>1 DEF WriteManifests
<1>6. (row' = row /\ dir' = dir) \/ PersistStatus(p) \/ MarkState(p) \/ WriteManifests(p)
  BY <1>1 DEF Working, AcquireBudget, GetInstance, ListInstances, ReadStatus, ViewInstances,
     Converge, StartCheck, StartGate, ScaleUp, StopInstance, ReconcileInstanceRoles, EnsureInstanceRole
<1>7. PersistStatus(p) \/ MarkState(p) => dir' = dir
  BY DEF PersistStatus, MarkState
<1> QED
  BY <1>3, <1>4, <1>5, <1>6, <1>7

(* The worlds stay what they are.                                            *)
LEMMA WorldsStayStep ==
  ASSUME OnlyStartsAndStops, GateInv, NEW p \in Procs, Step(p)
  PROVE  WorldsStay'
<1> SUFFICES ASSUME NEW n \in Numbers
             PROVE IF n \in Existing
                   THEN /\ row'[n].world # 0 /\ row'[n].mem = srv'[n].mem
                        /\ Host = "cluster" => dir'[n].world # 0 /\ dir'[n].mem = srv'[n].mem
                        /\ srv'[n].phase \in {"stopped", "ready"}
                   ELSE row'[n].world = 0 /\ (Host = "cluster" => dir'[n].world = 0) /\ srv'[n].phase = "absent"
  BY DEF WorldsStay
<1>1. /\ row'[n].world = row[n].world /\ row'[n].mem = row[n].mem
      /\ Host = "cluster" => dir'[n] = dir[n]
  BY TablesKept
<1>2. srv'[n].mem = srv[n].mem
  BY SrvEffect DEF SrvKept
<1>3. srv'[n].phase = srv[n].phase \/ (n \in Existing /\ srv'[n].phase \in {"stopped", "ready"})
  BY SrvEffect DEF SrvKept
<1> QED
  BY <1>1, <1>2, <1>3 DEF GateInv, WorldsStay

(* A refresh of a list: what it read of a server that is up is that it runs. *)
LEMMA OwnRefresh ==
  ASSUME OnlyStartsAndStops, GateInv, NEW p \in Procs, ReadStatus(p) \/ PersistStatus(p)
  PROVE  RecordOK(op'[p]) /\ ListOK(op'[p]) /\ RoomOK(op'[p])
<1> DEFINE m == Min(op[p].todo)
<1> DEFINE o == op'[p]
<1>a. TypeOK /\ CallOK(op[p]) /\ RecordOK(op[p]) /\ ListOK(op[p])
  BY DEF GateInv, PcOK
<1>b. op[p].todo # {} /\ op[p].pc \in {"status", "persist"}
  BY <1>a DEF ReadStatus, PersistStatus, At, CallOK
<1>c. m \in op[p].todo /\ m \in Numbers /\ op[p] \in Ops
  BY <1>a, <1>b, OpFields
<1>d. op[p].copy[m].world # 0 /\ m \in Existing
  BY <1>a, <1>b, <1>c DEF RecordOK
<1>e. op[p].copy \in [Numbers -> Rows] /\ op[p].copy[m] \in Rows
  BY <1>a, <1>c, OpFields
<1>1. CASE op' = [op EXCEPT ![p].todo = @ \ {m}]
  <2>1. /\ o.kind = op[p].kind /\ o.n = op[p].n /\ o.pc = op[p].pc /\ o.inst = op[p].inst
        /\ o.second = op[p].second /\ o.copy = op[p].copy /\ o.todo = op[p].todo \ {m}
    BY <1>1, <1>a, <1>c DEF TypeOK, Ops
  <2>2. RecordOK(o) /\ RoomOK(o)
    BY <1>a, <1>b, <2>1 DEF RecordOK, RoomOK
  <2>3. ASSUME o.kind = "start" PROVE Lists(o, m)
    <3>1. ReadStatus(p) /\ op[p].pc = "status"
      <4>1. op[p].pc = "persist" => op'[p].pc = "status" \/ ~PersistStatus(p)
        BY <1>a, <1>c DEF PersistStatus, TypeOK, Ops
      <4> QED
        BY <1>b, <4>1, <2>1 DEF ReadStatus, PersistStatus, At
    <3>2. \/ StatusMayFail(m)
          \/ stateFromStatus(srv[m].phase) = op[p].copy[m].state
      <4>1. \/ StatusMayFail(m) \/ ~(stateFromStatus(srv[m].phase) # op[p].copy[m].state \/ op[p].copy[m].addr # RuntimeAddress)
            \/ op' = [op EXCEPT ![p].pc = "persist", ![p].copy[m].state = stateFromStatus(srv[m].phase)]
        BY <3>1 DEF ReadStatus
      <4>2. op' = [op EXCEPT ![p].pc = "persist", ![p].copy[m].state = stateFromStatus(srv[m].phase)] => op'[p].pc = "persist"
        BY <1>a, <1>c DEF TypeOK, Ops
      <4> QED
        BY <2>1, <3>1, <4>1, <4>2
    <3>3. srv[m].phase \in {"stopped", "ready"}
      BY <1>c, <1>d DEF GateInv, WorldsStay
    <3>4. ~StatusMayFail(m)
      BY <3>3 DEF StatusMayFail, OnlyStartsAndStops
    <3> QED
      BY <2>1, <3>2, <3>3, <3>4 DEF Lists, stateFromStatus, Up
  <2>4. ListOK(o)
    <3> SUFFICES ASSUME o.kind = "start", o.second, o.pc \in {"status", "persist"}
                 PROVE  /\ \A x \in Existing : o.copy[x].world # 0
                        /\ \A x \in Existing \ o.todo : Lists(o, x)
                        /\ o.pc = "persist" => Lists(o, Min(o.todo))
      BY DEF ListOK
    <3>1. o.pc = "status"
      <4>1. op[p].pc = "persist" => op'[p].pc = "status" \/ ~PersistStatus(p)
        BY <1>a, <1>c DEF PersistStatus, TypeOK, Ops
      <4> QED
        BY <1>b, <4>1, <2>1 DEF ReadStatus, PersistStatus, At
    <3>2. \A x \in Existing : op[p].copy[x].world # 0
      BY <1>a, <1>b, <2>1 DEF ListOK
    <3>3. \A x \in Existing \ op[p].todo : Lists(op[p], x)
      BY <1>a, <1>b, <2>1 DEF ListOK
    <3>4. \A x \in Existing \ o.todo : Lists(o, x)
      BY <2>1, <2>3, <3>3 DEF Lists
    <3> QED
      BY <2>1, <3>1, <3>2, <3>4
  <2> QED
    BY <2>2, <2>4
<1>2. CASE ReadStatus(p) /\ op' = [op EXCEPT ![p].pc = "persist", ![p].copy[m].state = stateFromStatus(srv[m].phase)]
  <2>1. /\ o.kind = op[p].kind /\ o.n = op[p].n /\ o.pc = "persist" /\ o.inst = op[p].inst
        /\ o.second = op[p].second /\ o.todo = op[p].todo
        /\ o.copy = [op[p].copy EXCEPT ![m].state = stateFromStatus(srv[m].phase)]
    BY <1>2, <1>a, <1>c DEF TypeOK, Ops
  <2>2. op[p].pc = "status"
    BY <1>2 DEF ReadStatus, At
  <2>3. \A x \in Numbers : /\ o.copy[x].world = op[p].copy[x].world /\ o.copy[x].mem = op[p].copy[x].mem
                           /\ x # m => o.copy[x] = op[p].copy[x]
    BY <1>c, <1>e, <2>1 DEF Rows
  <2>4. o.copy[m].state = stateFromStatus(srv[m].phase)
    BY <1>c, <1>e, <2>1 DEF Rows
  <2>5. RecordOK(o) /\ RoomOK(o)
    <3>1. \A x \in op[p].todo : x \in Numbers
      BY <1>a, OpFields
    <3>2. op[p].n \in Numbers \/ op[p].kind \notin {"start", "stop"}
      BY <1>a DEF CallOK
    <3> QED
      BY <1>a, <1>b, <2>1, <2>2, <2>3, <3>1, <3>2 DEF RecordOK, RoomOK
  <2>6. Lists(o, m)
    <3>1. srv[m].phase \in {"stopped", "ready"}
      BY <1>c, <1>d DEF GateInv, WorldsStay
    <3> QED
      BY <2>4, <3>1 DEF Lists, stateFromStatus, Up
  <2>7. ListOK(o)
    <3> SUFFICES ASSUME o.kind = "start", o.second
                 PROVE  /\ \A x \in Existing : o.copy[x].world # 0
                        /\ \A x \in Existing \ o.todo : Lists(o, x)
                        /\ Lists(o, Min(o.todo))
      BY DEF ListOK
    <3>2. \A x \in Existing : op[p].copy[x].world # 0
      BY <1>a, <1>b, <2>1 DEF ListOK
    <3>3. \A x \in Existing \ op[p].todo : Lists(op[p], x)
      BY <1>a, <1>b, <2>1 DEF ListOK
    <3>4. \A x \in Existing \ o.todo : Lists(o, x)
      BY <1>c, <2>1, <2>3, <3>3, ConstantsAssumption DEF Lists
    <3>5. Min(o.todo) = m
      BY <2>1
    <3> QED
      BY <2>3, <2>6, <3>2, <3>4, <3>5, ConstantsAssumption
  <2> QED
    BY <2>5, <2>7
<1>3. CASE PersistStatus(p)
  <2> DEFINE r == [op[p].copy[m] EXCEPT !.addr = RuntimeAddress]
  <2>0. op[p].pc = "persist"
    BY <1>3 DEF PersistStatus, At
  <2>1. /\ o.kind = op[p].kind /\ o.n = op[p].n /\ o.pc = "status" /\ o.inst = op[p].inst
        /\ o.second = op[p].second /\ o.todo = op[p].todo \ {m}
        /\ o.copy = [op[p].copy EXCEPT ![m] = r]
    BY <1>3, <1>a, <1>c DEF PersistStatus, TypeOK, Ops
  <2>3. \A x \in Numbers : /\ o.copy[x].world = op[p].copy[x].world /\ o.copy[x].mem = op[p].copy[x].mem
                           /\ o.copy[x].state = op[p].copy[x].state
    BY <1>c, <1>e, <2>1 DEF Rows
  <2>5. RecordOK(o) /\ RoomOK(o)
    <3>1. \A x \in op[p].todo : x \in Numbers
      BY <1>a, OpFields
    <3>2. op[p].n \in Numbers \/ op[p].kind \notin {"start", "stop"}
      BY <1>a DEF CallOK
    <3> QED
      BY <1>a, <1>b, <2>0, <2>1, <2>3, <3>1, <3>2 DEF RecordOK, RoomOK
  <2>7. ListOK(o)
    <3> SUFFICES ASSUME o.kind = "start", o.second
                 PROVE  /\ \A x \in Existing : o.copy[x].world # 0
                        /\ \A x \in Existing \ o.todo : Lists(o, x)
      BY <2>1 DEF ListOK
    <3>2. \A x \in Existing : op[p].copy[x].world # 0
      BY <1>a, <1>b, <2>1 DEF ListOK
    <3>3. \A x \in Existing \ op[p].todo : Lists(op[p], x)
      BY <1>a, <1>b, <2>1 DEF ListOK
    <3>4. Lists(op[p], m)
      BY <1>a, <2>0, <2>1 DEF ListOK
    <3>5. \A x \in Existing : x \in Numbers
      BY ConstantsAssumption
    <3>6. \A x \in Existing \ o.todo : Lists(o, x)
      BY <2>1, <2>3, <3>3, <3>4, <3>5 DEF Lists
    <3> QED
      BY <2>3, <3>2, <3>5, <3>6
  <2> QED
    BY <2>5, <2>7
<1> QED
  BY <1>1, <1>2, <1>3 DEF ReadStatus

(* The gate lets a start pass only when the servers that are up leave room:  *)
(* its list shows every one of them running, with its size.                  *)
LEMMA GateLeavesRoom ==
  ASSUME GateInv, NEW p \in Procs, Refreshed(p, "start"), op[p].second,
         CanStart(op[p].copy, op[p].n, op[p].inst.mem)
  PROVE  Fits(op[p].n)
<1> DEFINE n == op[p].n
<1> DEFINE copy == op[p].copy
<1> DEFINE R == RunningOthers(copy, n)
<1>1. TypeOK /\ CallOK(op[p]) /\ RecordOK(op[p]) /\ ListOK(op[p]) /\ WorldsStay
  BY DEF GateInv, PcOK
<1>2. op[p].kind = "start" /\ op[p].pc = "status" /\ op[p].todo = {}
  BY DEF Refreshed
<1>3. n \in Existing /\ n \in Numbers /\ op[p].inst.mem = srv[n].mem
  BY <1>1, <1>2, ConstantsAssumption DEF RecordOK
<1>4. \A m \in Existing : m \in Numbers /\ copy[m].world # 0 /\ Lists(op[p], m)
  BY <1>1, <1>2, ConstantsAssumption DEF ListOK
<1>5. UpServers \in SUBSET Existing
  BY <1>1, ConstantsAssumption DEF UpServers, WorldsStay, Up
<1>6. UpServers \ {n} \in SUBSET R
  BY <1>4, <1>5 DEF RunningOthers, Lists, UpServers
<1>7. R \in SUBSET Numbers
  BY DEF RunningOthers
<1>8. \A m \in R : copy[m].mem = srv[m].mem
  BY <1>1, <1>7 DEF RunningOthers, RecordOK
<1>9. \A m \in Numbers : srv[m].mem \in Nat /\ copy[m].mem \in Nat
  <2>1. \A m \in Numbers : copy[m].mem \in Sizes \cup {0}
    BY <1>1, OpFields DEF Rows
  <2>2. Sizes \cup {0} \subseteq Nat
    BY ConstantsAssumption
  <2> QED
    BY <1>1, <2>1, <2>2, SizesAreNumbers
<1>10. Cardinality(R) < MaxRunning /\ UsedGiB(copy, R) + srv[n].mem <= TotalBudgetGiB
  BY <1>3 DEF CanStart
<1> HIDE DEF R
<1>11. UsedGiB(copy, R) = UsedGiB(srv, R)
  BY <1>7, <1>8, <1>9, SumAgrees
<1>12. /\ Cardinality(UpServers \ {n}) <= Cardinality(R) /\ Cardinality(R) \in Nat
       /\ Cardinality(UpServers \ {n}) \in Nat
       /\ UsedGiB(srv, UpServers \ {n}) <= UsedGiB(srv, R) /\ UsedGiB(srv, R) \in Nat
       /\ UsedGiB(srv, UpServers \ {n}) \in Nat
  BY <1>6, <1>7, <1>9, FewerFit
<1>13. srv[n].mem \in Nat
  BY <1>3, <1>9
<1>14. Cardinality(UpServers \ {n}) < MaxRunning
  BY <1>10, <1>12, ConstantsAssumption
<1>15. UsedGiB(srv, UpServers \ {n}) + srv[n].mem <= TotalBudgetGiB
  BY <1>10, <1>11, <1>12, <1>13, ConstantsAssumption
<1> QED
  BY <1>14, <1>15 DEF Fits

(* What a request still knows of the worlds after its own step.              *)
LEMMA OwnRecord ==
  ASSUME OnlyStartsAndStops, GateInv, NEW p \in Procs, Step(p)
  PROVE  RecordOK(op'[p]) /\ ListOK(op'[p]) /\ RoomOK(op'[p])
<1> DEFINE n == op[p].n
<1> DEFINE o == op'[p]
<1> DEFINE Own == RecordOK(o) /\ ListOK(o) /\ RoomOK(o)
<1>a. TypeOK /\ CallOK(op[p]) /\ RecordOK(op[p]) /\ ListOK(op[p]) /\ RoomOK(op[p]) /\ WorldsStay
  BY DEF GateInv, PcOK
<1>b. op[p] \in Ops /\ op[p].copy \in [Numbers -> Rows]
  BY <1>a, OpFields
<1>c. Existing \subseteq Numbers
  BY ConstantsAssumption
<1>i. Own \/ o # Idle
  BY DEF RecordOK, ListOK, RoomOK, Idle, NoRow
<1>r. Return(p) => Own
  BY <1>a, <1>i, ReturnRecord
<1>g. ASSUME NEW c, Goto(p, c)
      PROVE  /\ o = [op[p] EXCEPT !.pc = c] /\ o.kind = op[p].kind /\ o.n = n /\ o.pc = c
             /\ o.inst = op[p].inst /\ o.copy = op[p].copy /\ o.second = op[p].second /\ o.todo = op[p].todo
  <2>1. o = [op[p] EXCEPT !.pc = c]
    BY <1>a, <1>g, GotoRecord
  <2> QED
    BY <1>b, <2>1 DEF Ops
<1>l. ASSUME GotoForgetting(p, "mark"), op[p].kind \in {"start", "stop"}, n \in Existing PROVE Own
  <2>1. "mark" \in Pcs
    BY DEF Pcs
  <2>2. /\ o.pc = "mark" /\ o.kind = op[p].kind /\ o.n = n /\ ~o.second
        /\ o.copy = [k \in Numbers |-> NoRow]
    BY <1>a, <1>l, <2>1, ForgetRecord
  <2> QED
    BY <1>l, <2>2 DEF RecordOK, ListOK, RoomOK, NoRow
<1>1. CASE AcquireBudget(p)
  <2>1. op[p].kind = "start"
    BY <1>1, <1>a DEF AcquireBudget, At, CallOK, RecordOK
  <2>2. Goto(p, "get") /\ op[p].pc = "lock"
    BY <1>1, <2>1 DEF AcquireBudget, At
  <2>3. o.pc = "get" /\ o.kind = op[p].kind /\ o.n = n /\ o.inst = op[p].inst /\ o.copy = op[p].copy /\ o.second = op[p].second
    BY <1>g, <2>2
  <2> QED
    BY <1>a, <2>2, <2>3 DEF RecordOK, ListOK, RoomOK
<1>2. CASE GetInstance(p)
  <2>1. n \in Numbers /\ op[p].pc = "get"
    BY <1>2, <1>a DEF GetInstance, CallOK, At
  <2>2. CASE row[n].world # 0 /\ op' = [op EXCEPT ![p].pc = "status", ![p].todo = {n}, ![p].copy[n] = row[n]]
    <3>1. /\ o.kind = op[p].kind /\ o.n = n /\ o.pc = "status" /\ o.todo = {n}
          /\ o.inst = op[p].inst /\ o.second = op[p].second
          /\ o.copy = [op[p].copy EXCEPT ![n] = row[n]]
      BY <1>a, <1>b, <2>1, <2>2 DEF TypeOK, Ops
    <3>2. n \in Existing /\ row[n].mem = srv[n].mem
      BY <1>a, <2>1, <2>2 DEF WorldsStay
    <3>3. \A k \in Numbers : o.copy[k] = IF k = n THEN row[n] ELSE op[p].copy[k]
      BY <1>b, <2>1, <3>1
    <3>4. RecordOK(o) /\ RoomOK(o)
      <4>1. \A k \in Numbers : o.copy[k].world # 0 => k \in Existing /\ o.copy[k].mem = srv[k].mem
        BY <1>a, <3>2, <3>3 DEF RecordOK
      <4>2. o.copy[n].world # 0 /\ \A k \in o.todo : o.copy[k].world # 0
        BY <2>1, <2>2, <3>1, <3>3
      <4>3. o.kind = "start" /\ o.second => n \in Existing /\ o.inst.mem = srv[n].mem
        BY <1>a, <3>1 DEF RecordOK
      <4>4. o.kind \in {"start", "stop", "view", "reconcile", "none"}
        BY <1>a, <3>1 DEF RecordOK
      <4> HIDE DEF o
      <4> QED
        BY <3>1, <3>2, <4>1, <4>2, <4>3, <4>4 DEF RecordOK, RoomOK
    <3>5. op[p].kind = "start" => ~op[p].second
      BY <1>a, <2>1 DEF RecordOK
    <3> QED
      BY <3>1, <3>4, <3>5 DEF ListOK
  <2> QED
    BY <1>2, <1>r, <2>2 DEF GetInstance
<1>3. CASE ListInstances(p)
  <2>1. op[p].pc = "list"
    BY <1>3 DEF ListInstances, At
  <2>2. CASE op' = [op EXCEPT ![p].pc = "status", ![p].todo = Used, ![p].copy = row, ![p].second = TRUE]
    <3>1. /\ o.kind = op[p].kind /\ o.n = n /\ o.pc = "status" /\ o.todo = Used
          /\ o.inst = op[p].inst /\ o.second = TRUE /\ o.copy = row
      BY <1>a, <1>b, <2>2 DEF TypeOK, Ops
    <3>2. op[p].kind \in {"start", "view", "reconcile"} \/ op[p].kind = "stop"
      BY <1>a, <2>1 DEF RecordOK, CallOK
    <3>3. \A k \in Numbers : row[k].world # 0 <=> k \in Existing
      BY <1>a DEF WorldsStay
    <3>4. \A k \in Numbers : row[k].world # 0 => row[k].mem = srv[k].mem
      BY <1>a, <3>3 DEF WorldsStay
    <3>5. Used = Existing
      BY <1>c, <3>3 DEF Used
    <3>6. op[p].kind = "start" => n \in Existing /\ op[p].inst.mem = srv[n].mem
      BY <1>a, <2>1 DEF RecordOK
    <3>7. op[p].kind # "stop"
      BY <1>a, <2>1 DEF RecordOK
    <3>8. RecordOK(o)
      BY <1>a, <1>c, <3>1, <3>3, <3>4, <3>5, <3>6, <3>7 DEF RecordOK
    <3> QED
      BY <1>c, <3>1, <3>3, <3>5, <3>8 DEF ListOK, RoomOK
  <2> QED
    BY <1>3, <1>r, <2>2 DEF ListInstances
<1>4. CASE ReadStatus(p) \/ PersistStatus(p)
  BY <1>4, OwnRefresh
<1>5. CASE ViewInstances(p)
  BY <1>5, <1>r DEF ViewInstances
<1>6. CASE WriteManifests(p)
  <2>1. op[p].pc = "write"
    BY <1>6 DEF WriteManifests, At
  <2>2. op[p].kind = "start" /\ Host = "docker" /\ Fits(n) /\ n \in Existing
    BY <1>a, <2>1 DEF RecordOK, RoomOK
  <2>3. Goto(p, "converge") \/ Return(p)
    BY <1>6, <2>2 DEF WriteManifests, Fail
  <2>4. ASSUME Goto(p, "converge") PROVE Own
    <3>1. o.pc = "converge" /\ o.kind = op[p].kind /\ o.n = n /\ o.inst = op[p].inst /\ o.copy = op[p].copy /\ o.second = op[p].second
      BY <1>g, <2>4
    <3> QED
      BY <1>a, <2>1, <2>2, <3>1 DEF RecordOK, ListOK, RoomOK
  <2> QED
    BY <1>r, <2>3, <2>4
<1>7. CASE Converge(p)
  <2>1. op[p].pc = "converge"
    BY <1>7 DEF Converge, At
  <2>2. op[p].kind = "start" /\ n \in Existing
    BY <1>a, <2>1 DEF RecordOK
  <2>3. Goto(p, "mark") \/ Return(p)
    BY <1>7, <2>2 DEF Converge, Fail, AfterManifests
  <2>4. ASSUME Goto(p, "mark") PROVE Own
    <3>1. o.pc = "mark" /\ o.kind = op[p].kind /\ o.n = n /\ o.inst = op[p].inst /\ o.copy = op[p].copy /\ o.second = op[p].second
      BY <1>g, <2>4
    <3> QED
      BY <1>a, <2>1, <2>2, <3>1 DEF RecordOK, ListOK, RoomOK
  <2> QED
    BY <1>r, <2>3, <2>4
<1>8. CASE StartCheck(p)
  <2>1. op[p].kind = "start" /\ op[p].pc = "status" /\ ~op[p].second
    BY <1>8 DEF StartCheck, Refreshed
  <2>2. CASE op' = [op EXCEPT ![p].pc = "list", ![p].inst = op[p].copy[n]]
    <3>1. /\ o.kind = op[p].kind /\ o.n = n /\ o.pc = "list" /\ o.inst = op[p].copy[n]
          /\ o.copy = op[p].copy /\ o.second = op[p].second
      BY <1>a, <1>b, <2>2 DEF TypeOK, Ops
    <3>2. n \in Existing /\ op[p].copy[n].mem = srv[n].mem
      BY <1>a, <1>c, <2>1 DEF RecordOK
    <3> QED
      BY <1>a, <2>1, <3>1, <3>2 DEF RecordOK, ListOK, RoomOK
  <2> QED
    BY <1>8, <1>r, <2>2 DEF StartCheck
<1>9. CASE StartGate(p)
  <2>1. op[p].kind = "start" /\ op[p].pc = "status" /\ op[p].second /\ Refreshed(p, "start")
    BY <1>9 DEF StartGate, Refreshed
  <2>2. CASE Return(p)
    BY <1>r, <2>2
  <2>3. CASE ~Return(p)
    <3> DEFINE c == IF Host = "docker" THEN "write" ELSE "scale"
    <3>1. CanStart(op[p].copy, n, op[p].inst.mem) /\ Goto(p, c)
      BY <1>9, <2>3 DEF StartGate
    <3>2. Fits(n)
      BY <2>1, <3>1, GateLeavesRoom
    <3>3. o.pc = c /\ o.kind = op[p].kind /\ o.n = n /\ o.inst = op[p].inst /\ o.copy = op[p].copy /\ o.second = op[p].second
      BY <1>g, <3>1
    <3>4. RecordOK(o)
      BY <1>a, <2>1, <3>3 DEF RecordOK
    <3> QED
      BY <2>1, <3>2, <3>3, <3>4 DEF ListOK, RoomOK
  <2> QED
    BY <2>2, <2>3
<1>10. CASE ScaleUp(p)
  <2>1. op[p].pc = "scale"
    BY <1>10 DEF ScaleUp, At
  <2>2. op[p].kind = "start" /\ n \in Existing
    BY <1>a, <2>1 DEF RecordOK, CallOK
  <2> QED
    BY <1>10, <1>l, <1>r, <2>2 DEF ScaleUp
<1>11. CASE MarkState(p)
  BY <1>11, <1>r DEF MarkState
<1>12. CASE StopInstance(p)
  <2>1. op[p].kind = "stop" /\ op[p].pc = "status"
    BY <1>12 DEF StopInstance, Refreshed
  <2>2. n \in Existing
    BY <1>a, <2>1 DEF RecordOK
  <2> QED
    BY <1>12, <1>l, <1>r, <2>1, <2>2 DEF StopInstance
<1>13. CASE ReconcileInstanceRoles(p)
  <2> DEFINE listed == {m \in Numbers : op[p].copy[m].world # 0}
  <2>1. op[p].kind = "reconcile"
    BY <1>13 DEF ReconcileInstanceRoles, Refreshed
  <2>2. CASE op' = [op EXCEPT ![p].pc = "ensure", ![p].todo = listed]
    <3>1. /\ o.kind = op[p].kind /\ o.pc = "ensure" /\ o.copy = op[p].copy
      BY <1>a, <1>b, <2>2 DEF TypeOK, Ops
    <3> QED
      BY <1>a, <2>1, <3>1 DEF RecordOK, ListOK, RoomOK
  <2> QED
    BY <1>13, <1>r, <2>2 DEF ReconcileInstanceRoles
<1>14. CASE EnsureInstanceRole(p)
  <2> DEFINE m == Min(op[p].todo)
  <2>1. op[p].pc = "ensure"
    BY <1>14 DEF EnsureInstanceRole, At
  <2>2. CASE op' = [op EXCEPT ![p].todo = @ \ {m}]
    <3>1. /\ o.kind = op[p].kind /\ o.pc = "ensure" /\ o.copy = op[p].copy /\ o.n = n
          /\ o.inst = op[p].inst /\ o.second = op[p].second
      BY <1>a, <1>b, <2>1, <2>2 DEF TypeOK, Ops
    <3> QED
      BY <1>a, <2>1, <3>1 DEF RecordOK, ListOK, RoomOK
  <2> QED
    BY <1>14, <1>r, <2>2 DEF EnsureInstanceRole
<1> QED
  BY <1>1, <1>2, <1>3, <1>4, <1>5, <1>6, <1>7, <1>8, <1>9, <1>10, <1>11, <1>12, <1>13, <1>14, OnlyWorking
  DEF Working

(* A server that comes up in a step of a request is the one that request,    *)
(* which holds budgetMu, starts; and the request is done with it then.       *)
LEMMA ComesUp ==
  ASSUME OnlyStartsAndStops, GateInv, NEW p \in Procs, Step(p), ~(UpServers' \subseteq UpServers)
  PROVE  /\ op[p].kind = "start" /\ lock = p /\ op[p].n \in Numbers /\ Fits(op[p].n)
         /\ UpServers' \ {op[p].n} \subseteq UpServers \ {op[p].n}
         /\ op'[p].pc \notin {"status", "persist", "write", "converge", "scale"}
<1>a. TypeOK /\ CallOK(op[p]) /\ SrvKept(p) /\ Working(p)
  BY SrvEffect, OnlyWorking DEF GateInv, PcOK
<1>1. op[p].pc \in {"converge", "scale"}
  BY <1>a DEF UpServers, SrvKept, Up
<1>2. /\ op[p].kind = "start" /\ lock = p /\ op[p].n \in Numbers /\ Fits(op[p].n)
  BY <1>1, StartHolds
<1>3. UpServers' \ {op[p].n} \subseteq UpServers \ {op[p].n}
  BY <1>a DEF UpServers, SrvKept, Up
<1>4. Converge(p) \/ ScaleUp(p)
  BY <1>a, <1>1, <1>2 DEF Working, AcquireBudget, GetInstance, ListInstances, ReadStatus, PersistStatus, ViewInstances,
     WriteManifests, StartCheck, StartGate, MarkState, StopInstance, ReconcileInstanceRoles, EnsureInstanceRole,
     At, Refreshed
<1>5. Return(p) \/ Goto(p, "mark") \/ GotoForgetting(p, "mark")
  BY <1>2, <1>4 DEF Converge, ScaleUp, Fail, AfterManifests
<1>6. "mark" \in Pcs
  BY DEF Pcs
<1>7. op'[p].pc \in {"idle", "mark"}
  <2>1. CASE Return(p)
    BY <1>a, <2>1, ReturnRecord DEF Idle
  <2>2. CASE Goto(p, "mark")
    BY <1>a, <2>2, GotoRecord
  <2>3. CASE GotoForgetting(p, "mark")
    BY <1>a, <1>6, <2>3, ForgetRecord
  <2> QED
    BY <1>5, <2>1, <2>2, <2>3
<1> QED
  BY <1>2, <1>3, <1>7

(* A step of one request leaves true what another request, or the same one,  *)
(* knows of the worlds: no server changes its size, and none comes up while  *)
(* a start that holds budgetMu counts.                                       *)
LEMMA KnownStays ==
  ASSUME OnlyStartsAndStops, GateInv, NEW p \in Procs, Step(p), TypeOK', BudgetMutex', NEW q \in Procs,
         RecordOK(op'[q]), ListOK(op'[q]), RoomOK(op'[q]), CallOK(op'[q]), q # p => op'[q] = op[q]
  PROVE  RecordOK(op[q])' /\ ListOK(op[q])' /\ RoomOK(op[q])'
<1>a. \A n \in Numbers : srv'[n].mem = srv[n].mem
  BY SrvEffect DEF SrvKept
<1>1. RecordOK(op[q])'
  <2>1. \A n \in Existing : n \in Numbers
    BY ConstantsAssumption
  <2> QED
    BY <1>a, <2>1 DEF RecordOK
<1>2. ASSUME op'[q].kind = "start", op'[q].pc \in {"status", "persist", "write", "converge", "scale"}
      PROVE  UpServers' \subseteq UpServers
  <2> SUFFICES ASSUME ~(UpServers' \subseteq UpServers) PROVE FALSE
    OBVIOUS
  <2>1. /\ op[p].kind = "start" /\ lock = p
        /\ op'[p].pc \notin {"status", "persist", "write", "converge", "scale"}
    BY ComesUp
  <2>2. q # p /\ op'[q] = op[q]
    BY <1>2, <2>1
  <2>3. lock = q
    BY <1>2, <2>2 DEF GateInv, BudgetMutex
  <2> QED
    BY <2>1, <2>2, <2>3
<1>3. ListOK(op[q])'
  <2> SUFFICES ASSUME op'[q].kind = "start", op'[q].second, op'[q].pc \in {"status", "persist"}
               PROVE  /\ \A m \in Existing : op'[q].copy[m].world # 0
                      /\ \A m \in Existing \ op'[q].todo : Lists(op[q], m)'
                      /\ op'[q].pc = "persist" => Lists(op[q], Min(op[q].todo))'
    BY DEF ListOK
  <2>1. UpServers' \subseteq UpServers
    BY <1>2
  <2>2. \A m \in Numbers : srv'[m].phase \in Up => srv[m].phase \in Up
    BY <2>1 DEF UpServers
  <2>3. /\ \A m \in Existing : op'[q].copy[m].world # 0
        /\ \A m \in Existing \ op'[q].todo : Lists(op'[q], m)
        /\ op'[q].pc = "persist" => Lists(op'[q], Min(op'[q].todo))
    BY DEF ListOK
  <2>4. \A m \in Existing \ op'[q].todo : Lists(op[q], m)'
    BY <2>2, <2>3, ConstantsAssumption DEF Lists
  <2>5. op'[q].pc = "persist" => Min(op'[q].todo) \in Numbers
    <3>1. op'[q].todo \in SUBSET Numbers
      BY DEF TypeOK, Ops
    <3>2. op'[q].pc = "persist" => op'[q].todo # {}
      BY DEF CallOK
    <3>3. op'[q].todo \in SUBSET Nat
      BY <3>1, ConstantsAssumption DEF Numbers
    <3> QED
      BY <3>1, <3>2, <3>3, MinIsMember
  <2>6. op'[q].pc = "persist" => Lists(op[q], Min(op[q].todo))'
    BY <2>2, <2>3, <2>5 DEF Lists
  <2> QED
    BY <2>3, <2>4, <2>6
<1>4. RoomOK(op[q])'
  <2> SUFFICES ASSUME op'[q].pc \in {"write", "converge", "scale"} PROVE Fits(op[q].n)'
    BY DEF RoomOK
  <2> DEFINE n == op'[q].n
  <2>1. op'[q].kind = "start" /\ n \in Numbers
    BY DEF RecordOK, CallOK
  <2>2. UpServers' \ {n} \in SUBSET (UpServers \ {n}) /\ UpServers \ {n} \in SUBSET Numbers
    BY <1>2, <2>1 DEF UpServers
  <2>3. Cardinality(UpServers \ {n}) < MaxRunning /\ UsedGiB(srv, UpServers \ {n}) + srv[n].mem <= TotalBudgetGiB
    BY DEF RoomOK, Fits
  <2>4. \A m \in Numbers : srv[m].mem \in Nat /\ srv'[m].mem = srv[m].mem
    BY <1>a, SizesAreNumbers DEF GateInv
  <2>5. /\ Cardinality(UpServers' \ {n}) \in Nat /\ Cardinality(UpServers \ {n}) \in Nat
        /\ Cardinality(UpServers' \ {n}) <= Cardinality(UpServers \ {n})
        /\ UsedGiB(srv', UpServers' \ {n}) \in Nat /\ UsedGiB(srv, UpServers \ {n}) \in Nat
        /\ UsedGiB(srv', UpServers' \ {n}) <= UsedGiB(srv, UpServers \ {n})
    BY <2>2, <2>4, FewerFit
  <2>6. srv[n].mem \in Nat /\ srv'[n].mem = srv[n].mem
    BY <2>1, <2>4
  <2>7. Cardinality(UpServers' \ {n}) < MaxRunning
    BY <2>3, <2>5, ConstantsAssumption
  <2>8. UsedGiB(srv', UpServers' \ {n}) + srv'[n].mem <= TotalBudgetGiB
    BY <2>3, <2>5, <2>6, ConstantsAssumption
  <2> QED
    BY <2>7, <2>8 DEF Fits
<1> QED
  BY <1>1, <1>3, <1>4

(* What fits is stated with the sum over the servers that are up.            *)
LEMMA FitsIs ==
  StartsFitBudget <=> /\ Cardinality(UpServers) <= MaxRunning
                      /\ UsedGiB(srv, UpServers) <= TotalBudgetGiB
BY DEF StartsFitBudget, UsedGiB

(* Every step of a request keeps the servers within the budget.              *)
LEMMA BudgetStep ==
  ASSUME OnlyStartsAndStops, GateInv, NEW p \in Procs, Step(p)
  PROVE  StartsFitBudget'
<1>a. \A m \in Numbers : srv[m].mem \in Nat /\ srv'[m].mem = srv[m].mem
  BY SrvEffect, SizesAreNumbers DEF SrvKept, GateInv
<1>b. UpServers \in SUBSET Numbers /\ UpServers' \in SUBSET Numbers
  BY DEF UpServers
<1>c. Cardinality(UpServers) <= MaxRunning /\ UsedGiB(srv, UpServers) <= TotalBudgetGiB
  BY DEF GateInv, StartsFitBudget, UsedGiB
<1>1. Cardinality(UpServers') <= MaxRunning /\ UsedGiB(srv', UpServers') <= TotalBudgetGiB
  <2>1. CASE UpServers' \subseteq UpServers
    <3>1. /\ Cardinality(UpServers') \in Nat /\ Cardinality(UpServers) \in Nat
          /\ Cardinality(UpServers') <= Cardinality(UpServers)
          /\ UsedGiB(srv', UpServers') \in Nat /\ UsedGiB(srv, UpServers) \in Nat
          /\ UsedGiB(srv', UpServers') <= UsedGiB(srv, UpServers)
      BY <1>a, <1>b, <2>1, FewerFit
    <3> QED
      BY <1>c, <3>1, ConstantsAssumption
  <2>2. CASE ~(UpServers' \subseteq UpServers)
    <3> DEFINE n == op[p].n
    <3>1. n \in Numbers /\ Fits(n) /\ UpServers' \ {n} \subseteq UpServers \ {n}
      BY <2>2, ComesUp
    <3> HIDE DEF n
    <3>2. UpServers \ {n} \in SUBSET Numbers /\ UpServers' \ {n} \in SUBSET (UpServers \ {n})
      BY <1>b, <3>1
    <3>3. /\ Cardinality(UpServers' \ {n}) \in Nat /\ Cardinality(UpServers \ {n}) \in Nat
          /\ Cardinality(UpServers' \ {n}) <= Cardinality(UpServers \ {n})
          /\ UsedGiB(srv', UpServers' \ {n}) \in Nat /\ UsedGiB(srv, UpServers \ {n}) \in Nat
          /\ UsedGiB(srv', UpServers' \ {n}) <= UsedGiB(srv, UpServers \ {n})
      BY <1>a, <3>2, FewerFit
    <3>4. srv[n].mem \in Nat /\ srv'[n].mem = srv[n].mem
      BY <1>a, <3>1
    <3>5. Cardinality(UpServers \ {n}) < MaxRunning /\ UsedGiB(srv, UpServers \ {n}) + srv[n].mem <= TotalBudgetGiB
      BY <3>1 DEF Fits
    <3>6. Cardinality(UpServers' \ {n}) < MaxRunning
      BY <3>3, <3>5, ConstantsAssumption
    <3>7. UsedGiB(srv', UpServers' \ {n}) + srv'[n].mem <= TotalBudgetGiB
      BY <3>3, <3>4, <3>5, ConstantsAssumption
    <3>8. \A m \in Numbers : srv'[m].mem \in Nat
      BY <1>a
    <3> QED
      BY <1>b, <3>1, <3>6, <3>7, <3>8, AllFit
  <2> QED
    BY <2>1, <2>2
<1> QED
  BY <1>1 DEF StartsFitBudget, UsedGiB, MapThenSumSet, MapThenFoldSet

(* The step of a request keeps the invariant of the gate.                    *)
LEMMA GateStep ==
  ASSUME OnlyStartsAndStops, GateInv, NEW p \in Procs, Step(p)
  PROVE  GateInv'
<1>1. TypeOK' /\ PcOK' /\ \A q \in Procs \ {p} : op'[q] = op[q]
  BY TypeStep, StepShape DEF GateInv
<1>2. [Next]_vars
  BY DEF Next
<1>3. BudgetMutex'
  BY <1>2, MutexNext DEF GateInv
<1>4. ASSUME NEW q \in Procs PROVE RecordOK(op[q])' /\ ListOK(op[q])' /\ RoomOK(op[q])'
  <2>1. CallOK(op'[q])
    BY <1>1 DEF PcOK, CallOK
  <2>2. RecordOK(op'[q]) /\ ListOK(op'[q]) /\ RoomOK(op'[q])
    <3>1. CASE q = p
      BY <3>1, OwnRecord
    <3>2. CASE q # p
      <4>1. op'[q] = op[q]
        BY <1>1, <3>2
      <4> QED
        BY <4>1 DEF GateInv
    <3> QED
      BY <3>1, <3>2
  <2> QED
    BY <1>1, <1>3, <2>1, <2>2, KnownStays
<1>5. WorldsStay' /\ StartsFitBudget'
  BY WorldsStayStep, BudgetStep
<1> QED
  BY <1>1, <1>3, <1>4, <1>5 DEF GateInv

(* The budget is about the servers alone.                                    *)
LEMMA SameServers ==
  ASSUME StartsFitBudget, srv' = srv
  PROVE  StartsFitBudget'
<1>1. UpServers' = UpServers
  BY DEF UpServers
<1> QED
  BY <1>1 DEF StartsFitBudget, MapThenSumSet, MapThenFoldSet

(* A new request holds no record yet.                                        *)
LEMMA GateRequest ==
  ASSUME OnlyStartsAndStops, GateInv, NEW p \in Procs, Request(p)
  PROVE  GateInv'
<1>1. [Next]_vars
  BY DEF Next
<1>2. TypeOK' /\ PcOK' /\ BudgetMutex'
  BY <1>1, TypeNext, MutexNext DEF GateInv
<1>3. PICK kind \in Kinds, k \in Numbers \cup {0}, size \in Sizes \cup {0} : Begin(p, kind, k, size)
  BY DEF Request
<1>4. UNCHANGED <<row, dir, srv>> /\ kind \in {"start", "stop", "view", "reconcile"}
  BY <1>3 DEF Begin, OnlyStartsAndStops
<1>5. /\ \A q \in Procs \ {p} : op'[q] = op[q]
      /\ op'[p].kind = kind /\ op'[p].pc \in {"lock", "get", "list"} /\ ~op'[p].second
      /\ op'[p].copy = [m \in Numbers |-> NoRow]
      /\ op'[p].pc = "list" => kind \in {"view", "reconcile"}
  BY <1>3, <1>4 DEF Begin, FirstPc, Idle, GateInv, TypeOK
<1>6. ASSUME NEW q \in Procs PROVE RecordOK(op[q])' /\ ListOK(op[q])' /\ RoomOK(op[q])'
  <2>1. CASE q = p
    BY <1>4, <1>5, <2>1 DEF RecordOK, ListOK, RoomOK, NoRow
  <2>2. CASE q # p
    <3>1. op'[q] = op[q] /\ RecordOK(op[q]) /\ ListOK(op[q]) /\ RoomOK(op[q])
      BY <1>5, <2>2 DEF GateInv
    <3> QED
      BY <1>4, <3>1 DEF RecordOK, ListOK, Lists, RoomOK, Fits, UpServers
  <2> QED
    BY <2>1, <2>2
<1>7. WorldsStay' /\ StartsFitBudget'
  BY <1>4, SameServers DEF GateInv, WorldsStay
<1> QED
  BY <1>2, <1>6, <1>7 DEF GateInv

(* A step that changes no table and no request keeps the invariant.          *)
LEMMA GateStutter ==
  ASSUME GateInv, UNCHANGED <<row, dir, srv, lock, op>>, TypeOK'
  PROVE  GateInv'
<1>1. PcOK' /\ BudgetMutex'
  BY DEF GateInv, PcOK, CallOK, BudgetMutex
<1>2. \A q \in Procs : RecordOK(op[q])' /\ ListOK(op[q])' /\ RoomOK(op[q])'
  BY DEF GateInv, RecordOK, ListOK, Lists, RoomOK, Fits, UpServers
<1>3. WorldsStay' /\ StartsFitBudget'
  BY SameServers DEF GateInv, WorldsStay
<1> QED
  BY <1>1, <1>2, <1>3 DEF GateInv

(* The environment has nothing to do: ArgoCD finds every Deployment as       *)
(* rendered, no server is booting and none crashes.                          *)
LEMMA NoEnvironment ==
  ASSUME OnlyStartsAndStops, GateInv, NEW n \in Numbers, Environment(n)
  PROVE  FALSE
<1>1. WorldsStay
  BY DEF GateInv
<1>2. srv[n].phase \in {"stopped", "ready", "absent"} /\ ~("server" \in Faults)
  BY <1>1 DEF WorldsStay, OnlyStartsAndStops
<1>3. ~ServerReady(n) /\ ~ServerCrash(n)
  BY <1>2 DEF ServerReady, ServerCrash
<1>4. ~ArgoSync(n) /\ ~ArgoPrune(n)
  BY <1>1 DEF WorldsStay, ArgoSync, ArgoPrune
<1> QED
  BY <1>3, <1>4 DEF Environment

(* A restart of agrelha forgets the requests and leaves the servers.         *)
LEMMA GateRestart ==
  ASSUME GateInv, AgrelhaRestart
  PROVE  GateInv'
<1>1. TypeOK' /\ PcOK' /\ UNCHANGED <<row, dir, srv>> /\ \A q \in Procs : op'[q] = Idle
  BY TypeRestart DEF GateInv, AgrelhaRestart
<1>2. BudgetMutex'
  BY <1>1 DEF BudgetMutex, Idle
<1>3. \A q \in Procs : RecordOK(op[q])' /\ ListOK(op[q])' /\ RoomOK(op[q])'
  BY <1>1 DEF RecordOK, ListOK, RoomOK, Idle, NoRow
<1>4. WorldsStay' /\ StartsFitBudget'
  BY <1>1, SameServers DEF GateInv, WorldsStay
<1> QED
  BY <1>1, <1>2, <1>3, <1>4 DEF GateInv

(* When agrelha first boots no server is up.                                 *)
LEMMA GateInit == Init => GateInv
<1> SUFFICES ASSUME Init PROVE GateInv
  OBVIOUS
<1>1. TypeOK /\ PcOK
  BY TypeInit
<1>2. PICK size \in [Numbers -> Sizes] :
        /\ row = [n \in Numbers |-> IF n \in Existing
                THEN [world |-> n, state |-> "stopped", mem |-> size[n], addr |-> "planned"]
                ELSE NoRow]
        /\ dir = [n \in Numbers |-> IF n \in Existing THEN [world |-> n, mem |-> size[n], run |-> FALSE] ELSE NoDir]
        /\ srv = [n \in Numbers |-> IF n \in Existing THEN [phase |-> "stopped", mem |-> size[n]] ELSE NoServer]
  BY DEF Init
<1>3. \A q \in Procs : op[q] = Idle
  BY DEF Init
<1>4. BudgetMutex
  BY <1>3 DEF BudgetMutex, Idle
<1>5. \A q \in Procs : RecordOK(op[q]) /\ ListOK(op[q]) /\ RoomOK(op[q])
  BY <1>3 DEF RecordOK, ListOK, RoomOK, Idle, NoRow
<1>6. \A n \in Numbers : n # 0
  BY ConstantsAssumption DEF Numbers
<1>7. WorldsStay
  BY <1>2, <1>6 DEF WorldsStay, NoRow, NoDir, NoServer
<1>8. UpServers = {}
  BY <1>2 DEF UpServers, Up, NoServer
<1>9. Cardinality(UpServers) = 0 /\ UsedGiB(srv, UpServers) = 0
  BY <1>1, <1>8, FS_EmptySet, SizesAreNumbers, SumStep
<1>10. StartsFitBudget
  BY <1>9, FitsIs, ConstantsAssumption
<1> QED
  BY <1>1, <1>4, <1>5, <1>7, <1>10 DEF GateInv

(* Every step keeps the invariant of the gate.                               *)
LEMMA GateNext ==
  ASSUME OnlyStartsAndStops, GateInv, [Next]_vars
  PROVE  GateInv'
<1>t. TypeOK'
  BY TypeNext DEF GateInv
<1>1. CASE \E p \in Procs : Request(p)
  BY <1>1, GateRequest
<1>2. CASE \E p \in Procs : Step(p)
  BY <1>2, GateStep
<1>3. CASE \E n \in Numbers : Grant(n)
  BY <1>3, <1>t, GateStutter DEF Grant
<1>4. CASE \E n \in Numbers : Environment(n)
  BY <1>4, NoEnvironment
<1>5. CASE AgrelhaRestart
  BY <1>5, GateRestart
<1>6. CASE UNCHANGED vars
  BY <1>6, <1>t, GateStutter DEF vars
<1> QED
  BY <1>1, <1>2, <1>3, <1>4, <1>5, <1>6 DEF Next

(* The start gate: however the starts, stops, page views and crashes of      *)
(* agrelha interleave, the servers that are up never exceed the concurrency  *)
(* cap or the memory budget (budgetMu and the list of StartInstance,         *)
(* Budget.CanStart).                                                         *)
THEOREM StartsStayInBudget == OnlyStartsAndStops => (Spec => []StartsFitBudget)
<1> SUFFICES ASSUME OnlyStartsAndStops PROVE Spec => []StartsFitBudget
  OBVIOUS
<1>1. Init => GateInv
  BY GateInit
<1>2. GateInv /\ [Next]_vars => GateInv'
  BY GateNext
<1>3. GateInv => StartsFitBudget
  BY DEF GateInv
<1> QED
  BY <1>1, <1>2, <1>3, PTL DEF Spec

=============================================================================
