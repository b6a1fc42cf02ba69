------------------------------ MODULE Requests ------------------------------
(***************************************************************************)
(* Who may create a world: the allowance of every Account, the Requests    *)
(* filed beyond it, and the agrelha operator's decisions                   *)
(* (internal/app/requests/service.go, internal/infra/store/requests.go,    *)
(* and the creation wizards that call them).                               *)
(*                                                                         *)
(* Every handler reads first and writes later: the wizard counts worlds    *)
(* before it creates one, Submit lists Requests before it files one,       *)
(* Approve and Deny read the Request they decide several calls before they *)
(* save the decision.  One action is one call.                             *)
(***************************************************************************)
EXTENDS Integers, FiniteSets, Sequences

CONSTANTS
  Accounts,        \* subjects that use the wizard
  Admins,          \* the ones that hold agrelha-admin
  Procs,           \* request goroutines
  Games,           \* the games worlds are created for
  CreationLimit,   \* CreationLimit: worlds an Account may create unaided
  MaxInstances,    \* slots, over all the games
  OnePerAccount,   \* TRUE: no Account submits the wizard twice at once
  OneDecider,      \* TRUE: decisions are taken one after the other
  Faults,          \* the calls that may fail: "create", "grant", "read", "put"
  MaxRequests,     \* bound on the Requests ever filed
  MaxWorlds        \* bound on the worlds ever created

Ids      == 1 .. MaxRequests
Statuses == {"pending", "approved", "denied"}
Kinds    == {"wizard", "approve", "deny"}
Pcs == {"idle", "count", "list", "file", "create", "grant", "get", "decide"}

ASSUME RequestsAssumption ==
  /\ Admins \subseteq Accounts
  /\ Games \subseteq {"valheim", "minecraft", "gmod"}
  /\ CreationLimit \in Nat
  /\ MaxInstances \in Nat
  /\ OnePerAccount \in BOOLEAN
  /\ OneDecider \in BOOLEAN
  /\ Faults \subseteq {"create", "grant", "read", "put"}
  /\ MaxRequests \in Nat
  /\ MaxWorlds \in Nat

VARIABLES
  requests,  \* the instance_requests table, in the order of filing
  worlds,    \* the worlds there are: [id, by, game, req], req 0 for a direct one
  granted,   \* ids of the worlds whose creator was granted their Role
  made,      \* how many worlds were created
  op         \* what each goroutine is serving

vars == <<requests, worlds, granted, made, op>>

-----------------------------------------------------------------------------
(* Data *)

RequestRows == [by : Accounts, game : Games, status : Statuses]
WorldRows   == [id : 1 .. MaxWorlds, by : Accounts, game : Games, req : Ids \cup {0}]

(* What a goroutine serves: for whom, about which Request and game, and the *)
(* world it created.                                                        *)
Calls == [kind : Kinds \cup {"none"}, pc : Pcs, by : SUBSET Accounts, game : SUBSET Games,
          req : Ids \cup {0}, world : 0 .. MaxWorlds]
Idle == [kind |-> "none", pc |-> "idle", by |-> {}, game |-> {}, req |-> 0, world |-> 0]

At(p, pc) == op[p].pc = pc
Goto(p, pc) == op' = [op EXCEPT ![p].pc = pc]
Return(p) == op' = [op EXCEPT ![p] = Idle]

(* WithList: the worlds of Valheim and Minecraft, whoever asks. *)
Counted == {"valheim", "minecraft"}

(* CreatedBy. *)
CreatedBy(a) == Cardinality({w \in worlds : w.by = a /\ w.game \in Counted})

Pending(r) == requests[r].status = "pending"

-----------------------------------------------------------------------------
(* The wizard *)

(* An Account submits the creation form; an agrelha operator skips the      *)
(* allowance.                                                               *)
SubmitWizard(p, a, g) ==
  /\ At(p, "idle")
  /\ OnePerAccount => \A q \in Procs : op[q].kind = "wizard" => op[q].by # {a}
  /\ op' = [op EXCEPT ![p] = [Idle EXCEPT !.kind = "wizard", !.by = {a}, !.game = {g},
                                         !.pc = IF a \in Admins THEN "create" ELSE "count"]]
  /\ UNCHANGED <<requests, worlds, granted, made>>

(* Mutant: the last world allowed is one too many. *)
MayCreateOneMore(p) ==
  /\ At(p, "count")
  /\ \/ \E a \in op[p].by : Goto(p, IF CreatedBy(a) <= CreationLimit THEN "create" ELSE "list")
     \/ "read" \in Faults /\ Return(p)
  /\ UNCHANGED <<requests, worlds, granted, made>>

(* MayCreateDirectly. *)
MayCreateDirectly(p) ==
  /\ At(p, "count")
  /\ \/ \E a \in op[p].by : Goto(p, IF CreatedBy(a) < CreationLimit THEN "create" ELSE "list")
     \/ "read" \in Faults /\ Return(p)
  /\ UNCHANGED <<requests, worlds, granted, made>>

(* Mutant: the open Requests are not looked at. *)
SubmitAnyway(p) ==
  /\ At(p, "list")
  /\ Goto(p, "file")
  /\ UNCHANGED <<requests, worlds, granted, made>>

(* Submit: ListRequestsFor, one pending Request at most ... *)
Submit(p) ==
  /\ At(p, "list")
  /\ \/ /\ \E r \in DOMAIN requests : op[p].by = {requests[r].by} /\ Pending(r)
        /\ Return(p)
     \/ /\ ~\E r \in DOMAIN requests : op[p].by = {requests[r].by} /\ Pending(r)
        /\ Goto(p, "file")
     \/ "read" \in Faults /\ Return(p)
  /\ UNCHANGED <<requests, worlds, granted, made>>

(* ... then PutRequest of a new one. *)
FileRequest(p) ==
  /\ At(p, "file")
  /\ \/ /\ Len(requests) < MaxRequests
        /\ \E a \in op[p].by, g \in op[p].game :
             requests' = Append(requests, [by |-> a, game |-> g, status |-> "pending"])
     \/ (Len(requests) = MaxRequests \/ "put" \in Faults) /\ UNCHANGED requests
  /\ Return(p)
  /\ UNCHANGED <<worlds, granted, made>>

(* CreateInstance (module Instances), for the wizard or for Approve, which   *)
(* records the requester as the creator.                                    *)
CreateInstance(p) ==
  /\ At(p, "create")
  /\ \/ /\ Cardinality(worlds) < MaxInstances /\ made < MaxWorlds
        /\ made' = made + 1
        /\ \E a \in op[p].by, g \in op[p].game :
             worlds' = worlds \cup {[id |-> made + 1, by |-> a, game |-> g, req |-> op[p].req]}
        /\ \/ op[p].kind = "wizard" /\ op[p].by \subseteq Admins /\ Return(p)
           \/ /\ ~(op[p].kind = "wizard" /\ op[p].by \subseteq Admins)
              /\ op' = [op EXCEPT ![p].world = made + 1, ![p].pc = "grant"]
     \/ /\ Cardinality(worlds) >= MaxInstances \/ made >= MaxWorlds \/ "create" \in Faults
        /\ Return(p)
        /\ UNCHANGED <<worlds, made>>
  /\ UNCHANGED <<requests, granted>>

(* Mutant: the world is created and the Grant forgotten. *)
CreatorForgotten(p) ==
  /\ At(p, "grant")
  /\ IF op[p].kind = "approve" THEN Goto(p, "decide") ELSE Return(p)
  /\ UNCHANGED <<requests, worlds, granted, made>>

(* GrantCreator after the wizard's create: an error is only shown.  The     *)
(* Grant of Approve: an error ends it, the Request still pending.           *)
GrantCreator(p) ==
  /\ At(p, "grant")
  /\ \/ /\ granted' = granted \cup {op[p].world}
        /\ IF op[p].kind = "approve" THEN Goto(p, "decide") ELSE Return(p)
     \/ "grant" \in Faults /\ Return(p) /\ UNCHANGED granted
  /\ UNCHANGED <<requests, worlds, made>>

-----------------------------------------------------------------------------
(* The decision *)

(* The agrelha operator presses a button of the requests page. *)
Decide(p, kind, r) ==
  /\ At(p, "idle")
  /\ OneDecider => \A q \in Procs : op[q].kind \notin {"approve", "deny"}
  /\ op' = [op EXCEPT ![p] = [Idle EXCEPT !.kind = kind, !.pc = "get", !.req = r]]
  /\ UNCHANGED <<requests, worlds, granted, made>>

(* Mutant: a decided Request is not refused. *)
GetAnyRequest(p) ==
  LET r == op[p].req IN
  /\ At(p, "get")
  /\ op' = [op EXCEPT ![p].by = {requests[r].by}, ![p].game = {requests[r].game},
                      ![p].pc = IF op[p].kind = "approve" THEN "create" ELSE "decide"]
  /\ UNCHANGED <<requests, worlds, granted, made>>

(* GetRequest; only a pending one can be decided. *)
GetRequest(p) ==
  LET r == op[p].req IN
  /\ At(p, "get")
  /\ \/ /\ Pending(r)
        /\ op' = [op EXCEPT ![p].by = {requests[r].by}, ![p].game = {requests[r].game},
                            ![p].pc = IF op[p].kind = "approve" THEN "create" ELSE "decide"]
     \/ (~Pending(r) \/ "read" \in Faults) /\ Return(p)
  /\ UNCHANGED <<requests, worlds, granted, made>>

(* Mutant: the decision is saved without its status. *)
PutEmptyDecision(p) ==
  /\ At(p, "decide")
  /\ requests' = [requests EXCEPT ![op[p].req].status = ""]
  /\ Return(p)
  /\ UNCHANGED <<worlds, granted, made>>

(* PutRequest of the decision: the row is overwritten whatever it says now. *)
PutDecision(p) ==
  /\ At(p, "decide")
  /\ \/ requests' = [requests EXCEPT ![op[p].req].status = IF op[p].kind = "approve" THEN "approved" ELSE "denied"]
     \/ "put" \in Faults /\ UNCHANGED requests
  /\ Return(p)
  /\ UNCHANGED <<worlds, granted, made>>

(* DeleteInstance, by the agrelha operator: the slot and the allowance are  *)
(* free again.                                                              *)
DeleteInstance(w) ==
  /\ worlds' = worlds \ {w}
  /\ UNCHANGED <<requests, granted, made, op>>

-----------------------------------------------------------------------------

Init ==
  /\ requests = <<>>
  /\ worlds = {}
  /\ granted = {}
  /\ made = 0
  /\ op = [p \in Procs |-> Idle]

Arrive(p) ==
  \/ \E a \in Accounts, g \in Games : SubmitWizard(p, a, g)
  \/ \E kind \in {"approve", "deny"}, r \in DOMAIN requests : Decide(p, kind, r)

Step(p) ==
  \/ MayCreateDirectly(p) \/ Submit(p) \/ FileRequest(p) \/ CreateInstance(p)
  \/ GrantCreator(p) \/ GetRequest(p) \/ PutDecision(p)

Next ==
  \/ \E p \in Procs : Arrive(p) \/ Step(p)
  \/ \E w \in worlds : DeleteInstance(w)

Spec == Init /\ [][Next]_vars

-----------------------------------------------------------------------------
(* Properties *)

(* Every variable holds what its declaration says. *)
RequestsTypeOK ==
  /\ requests \in Seq(RequestRows)
  /\ Len(requests) <= MaxRequests
  /\ worlds \subseteq WorldRows
  /\ granted \subseteq 1 .. MaxWorlds
  /\ made \in 0 .. MaxWorlds
  /\ op \in [Procs -> Calls]

(* The allowance: an Account never has more worlds it created unaided than  *)
(* CreationLimit, over all the games (MayCreateDirectly).                   *)
AllowanceKept ==
  \A a \in Accounts \ Admins :
    Cardinality({w \in worlds : w.by = a /\ w.req = 0}) <= CreationLimit

(* An Account never has two Requests pending (Submit). *)
OnePendingRequest ==
  \A r, s \in DOMAIN requests : requests[r].by = requests[s].by /\ Pending(r) /\ Pending(s) => r = s

(* What an Account may have: worlds up to its allowance, and one Request     *)
(* waiting for more.                                                         *)
LimitsKept == AllowanceKept /\ OnePendingRequest

(* One approval makes one world: no second world ever comes out of a        *)
(* Request, however often it is approved (Approve).                         *)
OneWorldPerRequest ==
  \A v, w \in worlds : v.req = w.req /\ v.req # 0 => v = w

(* A decision is final: an approved Request is never denied afterwards, nor *)
(* a denied one approved (Approve, Deny).                                   *)
DecisionIsFinal ==
  [][\A r \in DOMAIN requests : ~Pending(r) => requests'[r] = requests[r]]_vars

(* An approved Request whose world is still there has it granted to the     *)
(* requester, and a denied one has no world (Approve performs creation and  *)
(* Grant together).                                                         *)
ApprovalIsWhole ==
  \A w \in worlds : w.req # 0 =>
    /\ requests[w.req].status = "approved" => w.id \in granted
    /\ requests[w.req].status # "denied"

(* A Request is decided once and whole: one world, granted to whoever asked,*)
(* or none, and never the other way afterwards (Approve, Deny).              *)
DecidedOnceAndWhole == [](OneWorldPerRequest /\ ApprovalIsWhole) /\ DecisionIsFinal

=============================================================================
