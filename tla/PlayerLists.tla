---------------------------- MODULE PlayerLists ----------------------------
(***************************************************************************)
(* Who may play and who is an operator in the game: app/access (a          *)
(* Minecraft server's op and white lists, each kept in the state store and *)
(* in the running server), app/admins (Valheim's admin list, which the     *)
(* server reads when it starts) and the pages of handlers/access.          *)
(*                                                                         *)
(* A Minecraft list is changed in two calls, one to each copy, either of   *)
(* which can fail; a command that fails may have run all the same, for the *)
(* connection can break before its answer is read.  The admin list is      *)
(* committed; a goroutine then polls what ArgoCD has synchronised and      *)
(* restarts the server, until it gives up or agrelha dies.                 *)
(***************************************************************************)
EXTENDS Naturals, FiniteSets, Sequences

CONSTANTS
  Names,          \* the players
  Clients,        \* request goroutines
  Overlapping,    \* SUBSET {"list", "toggle", "admin"}: what may be asked for
                  \* while an earlier request about the same thing is under way
  ListFaults,     \* SUBSET {"store", "rcon", "lost", "game", "death"}: "rcon" is a
                  \* command that fails before the server has it, "lost" one whose
                  \* answer is lost after the server ran it, "game" an operator
                  \* who uses the server's own console
  HasCluster,     \* agrelha talks to a cluster (d.K8s is not nil)
  MaxListRequests

ASSUME ListsAssumption == MaxListRequests \in Nat /\ HasCluster \in BOOLEAN

Lists == {"ops", "whitelist"}

VARIABLES
  doc,       \* doc[k]: the list in the state store
  live,      \* live[k]: the list in the server
  whole,     \* history: <<k, u>> whose last edit reached both copies
  audited,   \* history: <<k, u>> whose last change of doc was audited, or none
  enforced,  \* the server's whitelist enforcement
  chosen,    \* what the last toggle announced
  doubtful,  \* history: since then a probe or a toggle has changed the
             \* enforcement, or left it changed, with nobody told
  serving,   \* serving[p]: a request for the Minecraft lists
  admins,    \* the Valheim list: its commits, which of them ArgoCD has
             \* synchronised, and what the server has loaded
  waiting,   \* the goroutines of ApplyAfterSync: <<id, TRUE if it was granted>>
  excused,   \* history: ids whose change is left to the next restart
  spent      \* requests so far

listVars == <<doc, live, whole, audited, enforced, chosen, doubtful, serving, admins, waiting, excused, spent>>
minecraft == <<doc, live, whole, audited, enforced, chosen, doubtful, serving>>
valheim == <<admins, waiting, excused>>

NoRequest == [kind |-> "none", pc |-> "idle", list |-> "ops", user |-> CHOOSE u \in Names : TRUE,
              add |-> FALSE, changed |-> FALSE, stored |-> FALSE, was |-> FALSE]

ListsTypeOK ==
  /\ doc \in [Lists -> SUBSET Names] /\ live \in [Lists -> SUBSET Names]
  /\ {enforced, chosen, doubtful} \subseteq BOOLEAN
  /\ whole \subseteq Lists \X Names /\ audited \subseteq Lists \X Names
  /\ \A p \in Clients : /\ serving[p].pc \in {"idle", "store", "rcon", "probe", "revert", "set"}
                         /\ serving[p].changed => serving[p].stored
  /\ admins.synced \in DOMAIN admins.commits /\ admins.loaded \subseteq Names
  /\ waiting \subseteq Names \X BOOLEAN /\ spent \in 0..MaxListRequests

InitLists ==
  /\ doc = [k \in Lists |-> {}] /\ live = doc
  /\ whole = {} /\ audited = Lists \X Names
  /\ enforced = FALSE /\ chosen = enforced /\ doubtful = FALSE
  /\ serving = [p \in Clients |-> NoRequest]
  /\ admins = [commits |-> <<{}>>, synced |-> 1, loaded |-> {}]
  /\ waiting = {} /\ excused = {} /\ spent = 0

-----------------------------------------------------------------------------
(* The op list and the white list.                                         *)

With(set, u, add) == IF add THEN set \cup {u} ELSE set \ {u}

\* Is a request about the same player's entry, or the enforcement, under way?
UnderWay(topic, k, u) ==
  /\ topic \notin Overlapping
  /\ \E p \in Clients : IF topic = "list" THEN serving[p].kind = "list" /\ serving[p].list = k /\ serving[p].user = u
                        ELSE serving[p].kind \in {"view", "toggle"}

Asked(p, request) == /\ serving[p].pc = "idle" /\ spent < MaxListRequests
                     /\ spent' = spent + 1
                     /\ serving' = [serving EXCEPT ![p] = request]
                     /\ UNCHANGED <<doc, live, whole, audited, enforced, chosen, doubtful, valheim>>

Edit(p, k, u, add) == /\ ~UnderWay("list", k, u)
                      /\ Asked(p, [NoRequest EXCEPT !.kind = "list", !.pc = "store", !.list = k, !.user = u, !.add = add])

GrantOp(p, u) == Edit(p, "ops", u, TRUE)
RevokeOp(p, u) == Edit(p, "ops", u, FALSE)
AddWhitelist(p, u) == Edit(p, "whitelist", u, TRUE)
RemoveWhitelist(p, u) == Edit(p, "whitelist", u, FALSE)

(* Mutant: a Patch that failed counts as a change. *)
PatchOrSo(p) ==
  LET r == serving[p] IN
  /\ r.pc = "store"
  /\ \/ /\ doc' = [doc EXCEPT ![r.list] = With(@, r.user, r.add)]
        /\ serving' = [serving EXCEPT ![p].pc = "rcon", ![p].stored = TRUE, ![p].changed = doc' # doc]
     \/ serving' = [serving EXCEPT ![p].pc = "rcon", ![p].changed = TRUE] /\ UNCHANGED doc
  /\ UNCHANGED <<audited, live, whole, enforced, chosen, doubtful, valheim, spent>>

\* The Patch of the document; an error is kept for later.
PatchList(p) ==
  LET r == serving[p] IN
  /\ r.pc = "store"
  /\ \/ /\ doc' = [doc EXCEPT ![r.list] = With(@, r.user, r.add)]
        /\ audited' = IF doc' = doc THEN audited ELSE audited \ {<<r.list, r.user>>}
        /\ serving' = [serving EXCEPT ![p].pc = "rcon", ![p].stored = TRUE, ![p].changed = doc' # doc]
     \/ /\ "store" \in ListFaults
        /\ serving' = [serving EXCEPT ![p].pc = "rcon"]
        /\ UNCHANGED <<doc, audited>>
  /\ UNCHANGED <<live, whole, enforced, chosen, doubtful, valheim, spent>>

\* The request answers; what changed is audited.
Answer(p, changed) ==
  LET r == serving[p] IN
  /\ serving' = [serving EXCEPT ![p] = NoRequest]
  /\ audited' = IF changed THEN audited \cup {<<r.list, r.user>>} ELSE audited

(* Mutant: the server is told only what changed in the document. *)
ExecuteIfChanged(p) ==
  LET r == serving[p] IN
  /\ r.pc = "rcon"
  /\ \/ /\ live' = IF r.changed THEN [live EXCEPT ![r.list] = With(@, r.user, r.add)] ELSE live
        /\ whole' = IF r.stored THEN whole \cup {<<r.list, r.user>>} ELSE whole \ {<<r.list, r.user>>}
     \/ "rcon" \in ListFaults /\ whole' = whole \ {<<r.list, r.user>>} /\ UNCHANGED live
  /\ Answer(p, r.changed)
  /\ UNCHANGED <<doc, enforced, chosen, doubtful, valheim, spent>>

\* The command to the server, which says whether it was "already" so; that
\* answer overrides what the document said, and a failure does not.
ExecuteLive(p) ==
  LET r == serving[p]
      so == r.user \in live[r.list] <=> r.add
  IN
  /\ r.pc = "rcon"
  /\ \/ /\ live' = [live EXCEPT ![r.list] = With(@, r.user, r.add)]
        /\ whole' = IF r.stored THEN whole \cup {<<r.list, r.user>>} ELSE whole \ {<<r.list, r.user>>}
        /\ Answer(p, ~so /\ (r.changed \/ ~r.stored))
     \/ /\ \/ "rcon" \in ListFaults /\ UNCHANGED live
           \/ "lost" \in ListFaults /\ live' = [live EXCEPT ![r.list] = With(@, r.user, r.add)]
        /\ whole' = whole \ {<<r.list, r.user>>}
        /\ Answer(p, r.changed)
  /\ UNCHANGED <<doc, enforced, chosen, doubtful, valheim, spent>>

\* Somebody in the game types /op or /whitelist.
TypedInGame(k, u) ==
  /\ "game" \in ListFaults /\ spent < MaxListRequests /\ spent' = spent + 1
  /\ live' = [live EXCEPT ![k] = With(@, u, u \notin @)]
  /\ whole' = whole \ {<<k, u>>}
  /\ UNCHANGED <<doc, audited, enforced, chosen, doubtful, serving, valheim>>

-----------------------------------------------------------------------------
(* Enforcement of the white list.  There is no command that reads it.      *)

\* The access page shows it, the toggle starts from it.
ViewAccess(p) == ~UnderWay("toggle", "", "") /\ Asked(p, [NoRequest EXCEPT !.kind = "view", !.pc = "probe"])
ToggleWhitelist(p) == ~UnderWay("toggle", "", "") /\ Asked(p, [NoRequest EXCEPT !.kind = "toggle", !.pc = "probe"])

Known(p, was) == serving' = [serving EXCEPT ![p] = IF @.kind = "view" THEN NoRequest
                                                   ELSE [@ EXCEPT !.pc = "set", !.was = was]]

Unanswered(p) == serving' = [serving EXCEPT ![p] = NoRequest]

\* WhitelistEnforced turns it on to see whether it was on already; when the
\* command fails it stops there, and the server may have run it ...
Probe(p) ==
  /\ serving[p].pc = "probe"
  /\ \/ enforced /\ Known(p, TRUE) /\ UNCHANGED <<enforced, doubtful>>
     \/ ~enforced /\ enforced' = TRUE /\ serving' = [serving EXCEPT ![p].pc = "revert"] /\ UNCHANGED doubtful
     \/ "rcon" \in ListFaults /\ Unanswered(p) /\ UNCHANGED <<enforced, doubtful>>
     \/ "lost" \in ListFaults /\ Unanswered(p) /\ enforced' = TRUE /\ doubtful' = (doubtful \/ ~enforced)
  /\ UNCHANGED <<doc, live, whole, audited, chosen, valheim, spent>>

(* Mutant: it stays on. *)
KeepOn(p) ==
  /\ serving[p].pc = "revert" /\ Known(p, FALSE)
  /\ UNCHANGED <<enforced, doc, live, whole, audited, chosen, doubtful, valheim, spent>>

\* ... and off again if it was not; nobody asks whether that failed.
Revert(p) ==
  /\ serving[p].pc = "revert"
  /\ \/ enforced' = FALSE /\ UNCHANGED doubtful
     \/ "rcon" \in ListFaults /\ doubtful' = TRUE /\ UNCHANGED enforced
  /\ Known(p, FALSE)
  /\ UNCHANGED <<doc, live, whole, audited, chosen, valheim, spent>>

SetWhitelistEnforced(p) ==
  /\ serving[p].pc = "set"
  /\ \/ enforced' = ~serving[p].was /\ chosen' = ~serving[p].was /\ doubtful' = FALSE
     \/ "rcon" \in ListFaults /\ UNCHANGED <<enforced, chosen, doubtful>>
     \/ "lost" \in ListFaults /\ enforced' = ~serving[p].was /\ doubtful' = TRUE /\ UNCHANGED chosen
  /\ Unanswered(p)
  /\ UNCHANGED <<doc, live, whole, audited, valheim, spent>>

-----------------------------------------------------------------------------
(* Valheim's admins.                                                       *)

Committed == admins.commits[Len(admins.commits)]
Synced == admins.commits[admins.synced]

\* Grant and Revoke: the Patch, and a goroutine that waits for it to land,
\* where there is a cluster to ask.
GrantOrRevoke(id, add) ==
  /\ spent < MaxListRequests /\ spent' = spent + 1
  /\ "admin" \in Overlapping \/ ~\E b \in BOOLEAN : <<id, b>> \in waiting
  /\ LET new == With(Committed, id, add) IN
     IF new = Committed THEN UNCHANGED valheim
     ELSE /\ admins' = [admins EXCEPT !.commits = Append(@, new)]
          /\ IF HasCluster THEN waiting' = waiting \cup {<<id, add>>} /\ UNCHANGED excused
             ELSE excused' = excused \cup {id} /\ UNCHANGED waiting
  /\ UNCHANGED minecraft

\* ArgoCD, which need not stop at every commit.
SyncAdmins ==
  /\ \E n \in admins.synced + 1..Len(admins.commits) : admins' = [admins EXCEPT !.synced = n]
  /\ UNCHANGED <<minecraft, waiting, excused, spent>>

(* Mutant: the server is restarted without waiting. *)
AppliedAtOnce(w) == w \in waiting

\* want: the ConfigMap says what was committed.
Landed(w) == w \in waiting /\ (w[1] \in Synced <=> w[2])

\* The restart, which loads the list; or an error, or five minutes without it.
ApplyAfterSync(w) ==
  /\ waiting' = waiting \ {w}
  /\ \/ Landed(w) /\ admins' = [admins EXCEPT !.loaded = Synced] /\ UNCHANGED excused
     \/ w \in waiting /\ excused' = excused \cup {w[1]} /\ UNCHANGED admins
  /\ UNCHANGED <<minecraft, spent>>

\* The server is restarted for another reason.
RestartsAnyway ==
  /\ admins.loaded # Synced
  /\ admins' = [admins EXCEPT !.loaded = Synced]
  /\ UNCHANGED <<minecraft, waiting, excused, spent>>

\* agrelha's process ends, with the requests and the goroutines in it.
AgrelhaDies ==
  /\ "death" \in ListFaults
  /\ waiting # {} \/ \E p \in Clients : serving[p] # NoRequest
  /\ doubtful' = (doubtful \/ \E p \in Clients : serving[p].pc = "revert")
  /\ whole' = whole \ {<<serving[p].list, serving[p].user>> : p \in {q \in Clients : serving[q].kind = "list"}}
  /\ serving' = [p \in Clients |-> NoRequest]
  /\ excused' = excused \cup {w[1] : w \in waiting}
  /\ waiting' = {}
  /\ UNCHANGED <<doc, live, audited, enforced, chosen, admins, spent>>

-----------------------------------------------------------------------------
MinecraftNext ==
  \/ \E p \in Clients, u \in Names :
       GrantOp(p, u) \/ RevokeOp(p, u) \/ AddWhitelist(p, u) \/ RemoveWhitelist(p, u)
  \/ \E p \in Clients : \/ PatchList(p) \/ ExecuteLive(p)
                        \/ ViewAccess(p) \/ ToggleWhitelist(p)
                        \/ Probe(p) \/ Revert(p) \/ SetWhitelistEnforced(p)
  \/ \E k \in Lists, u \in Names : TypedInGame(k, u)

ValheimNext ==
  \/ \E id \in Names, add \in BOOLEAN : GrantOrRevoke(id, add)
  \/ \E w \in waiting : ApplyAfterSync(w)
  \/ SyncAdmins \/ RestartsAnyway

ListsSpec == InitLists /\ [][MinecraftNext \/ ValheimNext \/ AgrelhaDies]_listVars

-----------------------------------------------------------------------------
(* An edit that reached both copies leaves them agreeing about its player,
   also when an earlier edit had reached only one of them: repeating a
   request repairs what it left undone (GrantOp, RevokeOp, AddWhitelist,
   RemoveWhitelist).  Two at once about one player can cross: scenario CrossedEdits. *)
HalvesAgree ==
  \A x \in whole : (\A p \in Clients : ~(serving[p].kind = "list" /\ <<serving[p].list, serving[p].user>> = x))
                     => (x[2] \in doc[x[1]] <=> x[2] \in live[x[1]])

(* Whoever looks at the access page, and whichever of his commands fails,
   enforcement is what the last toggle said it is (WhitelistEnforced: "revert
   back to off to preserve state"), but for what nobody can know: a command
   whose answer was lost, and a revert that never came, which doubtful records
   until a toggle succeeds.  A page opened during a toggle breaks it: scenario
   ProbeRace. *)
EnforcementIsChosen ==
  (\A p \in Clients : serving[p].kind \notin {"view", "toggle"}) /\ ~doubtful => enforced = chosen

(* Looking at the access page never changes the enforcement.  A probe whose
   revert fails, or whose answer is lost, does: scenario ProbeStuck. *)
EnforcementIsKept ==
  (\A p \in Clients : serving[p].kind \notin {"view", "toggle"}) => enforced = chosen

(* Once what was committed has been synchronised and nobody waits for it any
   more, the server has loaded it, whichever commits were synchronised
   together (ApplyAfterSync).  A revocation that follows its grant too
   closely is found done before it is: scenario EarlyLanding.  A change whose
   goroutine gave up, or ended with agrelha, or was never started for want of
   a cluster, waits for the next restart: its id is excused. *)
AdminsAreApplied ==
  admins.synced = Len(admins.commits) =>
    \A id \in Names \ excused : (\A b \in BOOLEAN : <<id, b>> \notin waiting) => (id \in admins.loaded <=> id \in Committed)

(* The lists of the store and of the servers agree once the requests about
   them have ended, for Minecraft's two lists and their enforcement and for
   Valheim's admins (access.go, ApplyAfterSync). *)
ListsAgree == HalvesAgree /\ EnforcementIsChosen /\ AdminsAreApplied

(* Every change of the op list or white list in the state store is in the audit log
   (GrantOp and the others record "changed").  With a player already changed
   in the game it is not: scenario Unaudited. *)
ChangesAreAudited ==
  \A x \in Lists \X Names : (\A p \in Clients : <<serving[p].list, serving[p].user>> # x \/ serving[p].kind # "list") => x \in audited
=============================================================================
