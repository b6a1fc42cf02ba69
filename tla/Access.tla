------------------------------- MODULE Access -------------------------------
(***************************************************************************)
(* Who may operate a world: Grants in the identity provider, the copy of   *)
(* them in the signed-in sessions, and the reuse of Instance Numbers.      *)
(*                                                                         *)
(* A session keeps the Roles its token carried at sign-in.  Grant, Revoke, *)
(* DeleteInstance and CreateInstance correct that copy afterwards, each    *)
(* reading the rows first and updating them one by one later; the identity *)
(* provider's authorization of an Account is also read first and written   *)
(* back whole.  One action is one statement or one call.                   *)
(***************************************************************************)
EXTENDS Integers, FiniteSets

CONSTANTS
  Accounts,      \* the subjects that may sign in
  Members,       \* the Accounts that hold agrelha-user, whatever they are granted
  SignedIn,      \* the Account with an open session at the start, if any
  MaxInstances,  \* the Instance Numbers are 1..MaxInstances
  Procs,         \* request goroutines
  Concurrent,    \* FALSE: requests are served one after the other
  Kinds,         \* the requests made in this instance of the model
  Faults,        \* the calls that may fail: "idp", "db", "sessions"
  SessionTTL,    \* sessionTTL, in ticks of the clock
  MaxSessions,   \* bound on the sessions ever created
  MaxWorlds,     \* bound on the worlds ever created
  MaxTime        \* bound on the clock

Numbers == 1 .. MaxInstances
Worlds  == 0 .. MaxWorlds            \* 0 stands for "no world"
Sids    == 1 .. MaxSessions
Never   == MaxTime + 1
AllKinds == {"grant", "revoke", "signout", "signin", "page", "create", "delete"}
Endings == {"revoke", "signout", "settled"}
Pcs == {"idle", "account", "gread", "gwrite", "sread", "swrite", "exchange", "record",
        "session", "load", "touch", "signout", "addrole", "row", "undo", "unrow", "unrole"}

ASSUME AccessAssumption ==
  /\ Members \subseteq Accounts
  /\ SignedIn = {} \/ \E a \in Accounts : SignedIn = {a} /\ MaxSessions > 0
  /\ MaxInstances \in Nat \ {0}
  /\ Concurrent \in BOOLEAN
  /\ Kinds \subseteq AllKinds \cup {"logout", "purge", "zitadel"}
  /\ Faults \subseteq {"idp", "db", "sessions"}
  /\ SessionTTL \in Nat \ {0}
  /\ MaxSessions \in Nat
  /\ MaxWorlds \in Nat
  /\ MaxInstances <= MaxWorlds
  /\ MaxTime \in Nat

VARIABLES
  world,     \* the world whose row holds each Number
  creator,   \* its created_by column: a set of at most one Account
  roleKeys,  \* the Instance Roles of the project in the identity provider
  auth,      \* each Account's authorization there: the Roles it holds
  known,     \* the accounts table: who has ever signed in
  sess,      \* the sessions table, by id
  issued,    \* how many session ids were drawn
  made,      \* how many worlds were created
  req,       \* the request each goroutine is serving
  now,       \* the clock
  entitled,  \* history: <<account, world>> pairs somebody granted, or created
  ended,     \* history: <<account, number, how>>: access that was said to have ended
  removed    \* history: when a Role was taken from an Account in Zitadel itself

vars == <<world, creator, roleKeys, auth, known, sess, issued, made, req, now,
          entitled, ended, removed>>
history == <<entitled, ended, removed>>
idp == <<roleKeys, auth>>
slots == <<world, creator, made>>

-----------------------------------------------------------------------------
(* Data *)

Sessions == [acct : SUBSET Accounts, roles : SUBSET Numbers, exp : 0 .. MaxTime + SessionTTL]
NoSession == [acct |-> {}, roles |-> {}, exp |-> 0]

(* A request: what it does, the call it makes next, its Account, Number and *)
(* session, the Roles it read, and the updates of sessions still to run.    *)
Reqs == [kind : AllKinds \cup {"none"}, pc : Pcs, acct : SUBSET Accounts,
         n : Numbers \cup {0}, sid : Sids \cup {0}, roles : SUBSET Numbers,
         todo : SUBSET (Sids \X SUBSET Numbers)]
Idle == [kind |-> "none", pc |-> "idle", acct |-> {}, n |-> 0, sid |-> 0, roles |-> {}, todo |-> {}]

At(p, pc) == req[p].pc = pc
Goto(p, pc) == req' = [req EXCEPT ![p].pc = pc]
Return(p) == req' = [req EXCEPT ![p] = Idle]
For(p, a) == req[p].acct = {a}

(* LoadSession, mutateSessionRoles: a row counts while it has not expired. *)
Live(s) == sess[s].acct # {} /\ sess[s].exp > now

(* Principal.CanOperate, of an Account that is no agrelha operator. *)
CanOperate(s, n) == Live(s) /\ (n \in sess[s].roles \/ creator[n] = sess[s].acct)

(* Identity.MaySignIn: any agrelha Role lets an Account in. *)
MaySignIn(a, roles) == a \in Members \/ roles # {}

-----------------------------------------------------------------------------
(* Requests *)

FirstPc(kind) ==
  CASE kind = "grant"   -> "account"
    [] kind = "revoke"  -> "gread"
    [] kind = "signout" -> "signout"
    [] kind = "signin"  -> "exchange"
    [] kind = "page"    -> "load"
    [] kind = "create"  -> "sread"
    [] kind = "delete"  -> "unrow"

(* A request arrives.  A create already holds budgetMu and its free Number  *)
(* (module Instances), so there is only one at a time.                      *)
Begin(p, kind, A, n, s) ==
  /\ At(p, "idle")
  /\ Concurrent \/ \A q \in Procs : At(q, "idle")
  /\ kind \in Kinds
  /\ kind \in {"grant", "revoke", "signout", "signin", "create"} <=> A # {}
  /\ kind \in {"grant", "revoke", "create", "delete"} <=> n # 0
  /\ kind = "page" <=> s # 0
  /\ kind = "page" => s <= issued
  /\ kind = "signin" => issued < MaxSessions
  /\ kind = "create" => /\ world[n] = 0 /\ made < MaxWorlds
                        /\ \A q \in Procs : req[q].kind # "create"
  /\ kind = "delete" => world[n] # 0
  /\ req' = [req EXCEPT ![p] = [Idle EXCEPT !.kind = kind, !.pc = FirstPc(kind), !.acct = A, !.n = n, !.sid = s]]
  /\ ended' = IF kind = "grant" THEN ended \ (A \X {n} \X Endings) ELSE ended
  /\ UNCHANGED <<slots, idp, known, sess, issued, now, entitled, removed>>

(* requireAccount. *)
RequireAccount(p) ==
  /\ At(p, "account")
  /\ IF req[p].acct \subseteq known THEN Goto(p, "gread") ELSE Return(p)
  /\ UNCHANGED <<slots, idp, known, sess, issued, now, history>>

(* authorizationFor: the Roles the Account holds are read ... *)
AuthorizationFor(p) ==
  /\ At(p, "gread")
  /\ \/ \E a \in Accounts : For(p, a) /\ req' = [req EXCEPT ![p].pc = "gwrite", ![p].roles = auth[a]]
     \/ "idp" \in Faults /\ Return(p)
  /\ UNCHANGED <<slots, idp, known, sess, issued, now, history>>

(* GrantRole and RevokeRole write the whole list back; Zitadel refuses a    *)
(* list that names a Role the project does not have.                        *)
UpdateAuthorization(p) ==
  LET n    == req[p].n
      keys == IF req[p].kind = "grant" THEN req[p].roles \cup {n} ELSE req[p].roles \ {n}
  IN
  /\ At(p, "gwrite")
  /\ \E a \in Accounts :
       /\ For(p, a)
       /\ \/ /\ keys = req[p].roles
             /\ Goto(p, "sread")
             /\ UNCHANGED <<auth, entitled, removed>>
          \/ /\ keys # req[p].roles /\ keys \subseteq roleKeys
             /\ auth' = [auth EXCEPT ![a] = keys]
             /\ entitled' = IF req[p].kind = "grant" THEN entitled \cup ({a} \X ({world[n]} \ {0})) ELSE entitled
             /\ removed' = [removed EXCEPT ![a] = [m \in Numbers |-> IF m \in keys THEN Never ELSE @[m]]]
             /\ Goto(p, "sread")
          \/ /\ keys # req[p].roles /\ ("idp" \in Faults \/ ~(keys \subseteq roleKeys))
             /\ Return(p)
             /\ UNCHANGED <<auth, entitled, removed>>
  /\ UNCHANGED <<slots, roleKeys, known, sess, issued, now, ended>>

(* History: of the Numbers S, those whose Role its Account does not hold    *)
(* any more, with no Grant of it under way, when request p is done.         *)
Ended(p, S, how) ==
  {<<a, n, how>> : a \in req[p].acct,
     n \in {m \in S : \A a \in req[p].acct : m \notin auth[a] /\
              \A q \in Procs : req[q].kind = "grant" /\ For(q, a) => req[q].n # m}}

(* Where a request goes on once the sessions are dealt with. *)
AfterSessions(p) ==
  CASE req[p].kind = "create" -> req' = [req EXCEPT ![p].pc = "addrole", ![p].todo = {}]
    [] req[p].kind = "delete" -> req' = [req EXCEPT ![p].pc = "unrole", ![p].todo = {}]
    [] OTHER                  -> Return(p)

SessionsDone(p) ==
  /\ AfterSessions(p)
  /\ ended' = IF req[p].kind = "revoke" THEN ended \cup Ended(p, {req[p].n}, "revoke") ELSE ended

(* mutateSessionRoles: SELECT the live rows, of one Account or of everyone, *)
(* and work out the ones that change; an error is only logged, or returned  *)
(* by a Revoke.                                                             *)
ReadSessionRoles(p) ==
  LET n == req[p].n
      next(s) == IF req[p].kind = "grant" THEN sess[s].roles \cup {n} ELSE sess[s].roles \ {n}
      rows == {s \in Sids : Live(s) /\ (req[p].acct = sess[s].acct \/ req[p].kind \in {"create", "delete"})}
      todo == {<<s, next(s)>> : s \in {r \in rows : next(r) # sess[r].roles}}
  IN
  /\ At(p, "sread")
  /\ \/ /\ todo # {}
        /\ req' = [req EXCEPT ![p].pc = "swrite", ![p].todo = todo]
        /\ UNCHANGED ended
     \/ todo = {} /\ SessionsDone(p)
     \/ "sessions" \in Faults /\ AfterSessions(p) /\ UNCHANGED ended
  /\ UNCHANGED <<slots, idp, known, sess, issued, now, entitled, removed>>

NextUpdate(p, t) ==
  IF req[p].todo = {t} THEN SessionsDone(p)
  ELSE req' = [req EXCEPT ![p].todo = @ \ {t}] /\ UNCHANGED ended

(* Mutant: the update inserts a session that is gone. *)
UpsertSessionRoles(p) ==
  /\ At(p, "swrite")
  /\ \E t \in req[p].todo :
       /\ sess' = [sess EXCEPT ![t[1]] = IF @.acct = {}
            THEN [acct |-> req[p].acct, roles |-> t[2], exp |-> now + SessionTTL] ELSE [@ EXCEPT !.roles = t[2]]]
       /\ NextUpdate(p, t)
  /\ UNCHANGED <<slots, idp, known, issued, now, entitled, removed>>

(* ... UPDATE sessions SET roles WHERE id, one row at a time: nothing        *)
(* happens to a session that is gone.                                       *)
WriteSessionRoles(p) ==
  /\ At(p, "swrite")
  /\ \/ \E t \in req[p].todo :
          /\ sess' = [sess EXCEPT ![t[1]] = IF @.acct = {} THEN @ ELSE [@ EXCEPT !.roles = t[2]]]
          /\ NextUpdate(p, t)
     \/ "sessions" \in Faults /\ AfterSessions(p) /\ UNCHANGED <<sess, ended>>
  /\ UNCHANGED <<slots, idp, known, issued, now, entitled, removed>>

-----------------------------------------------------------------------------
(* Sessions *)

(* Callback: the token is exchanged and carries the Roles of this moment. *)
Exchange(p) ==
  /\ At(p, "exchange")
  /\ \E a \in Accounts :
       /\ For(p, a)
       /\ IF MaySignIn(a, auth[a]) THEN req' = [req EXCEPT ![p].pc = "record", ![p].roles = auth[a]]
                                   ELSE Return(p)
  /\ UNCHANGED <<slots, idp, known, sess, issued, now, history>>

(* onSignIn = RecordSignIn; an error is only logged. *)
RecordSignIn(p) ==
  /\ At(p, "record")
  /\ known' \in {known \cup req[p].acct} \cup (IF "db" \in Faults THEN {known} ELSE {})
  /\ Goto(p, "session")
  /\ UNCHANGED <<slots, idp, sess, issued, now, history>>

(* CreateSession under a fresh random id. *)
CreateSession(p) ==
  /\ At(p, "session")
  /\ issued < MaxSessions
  /\ \/ /\ issued' = issued + 1
        /\ sess' = [sess EXCEPT ![issued + 1] =
                      [acct |-> req[p].acct, roles |-> req[p].roles, exp |-> now + SessionTTL]]
     \/ "db" \in Faults /\ UNCHANGED <<issued, sess>>
  /\ Return(p)
  /\ UNCHANGED <<slots, idp, known, now, history>>

(* Identify: LoadSession, then a renewal past the half-life. *)
LoadSession(p) ==
  LET s == req[p].sid IN
  /\ At(p, "load")
  /\ IF Live(s) /\ 2 * (sess[s].exp - now) < SessionTTL THEN Goto(p, "touch") ELSE Return(p)
  /\ UNCHANGED <<slots, idp, known, sess, issued, now, history>>

(* ... which updates the row if it is still there, expired or not. *)
TouchSession(p) ==
  /\ At(p, "touch")
  /\ sess' = [sess EXCEPT ![req[p].sid] = IF @.acct = {} THEN @ ELSE [@ EXCEPT !.exp = now + SessionTTL]]
  /\ Return(p)
  /\ UNCHANGED <<slots, idp, known, issued, now, history>>

(* No request in flight can bring Role n back to Account a: no sign-in with *)
(* an older token, no Grant of it, no write of an authorization read while  *)
(* it held the Role.                                                        *)
Settled(a, n) ==
  /\ n \notin auth[a]
  /\ \A p \in Procs : For(p, a) =>
       /\ req[p].kind = "signin" => n \notin req[p].roles
       /\ req[p].kind = "grant" => req[p].n # n
       /\ req[p].kind \in {"grant", "revoke"} /\ req[p].pc = "gwrite" => n \notin req[p].roles

(* RevokeSessions: DELETE FROM sessions WHERE subject. *)
RevokeSessions(p) ==
  /\ At(p, "signout")
  /\ sess' = [s \in Sids |-> IF sess[s].acct = req[p].acct THEN NoSession ELSE sess[s]]
  /\ ended' = ended \cup Ended(p, Numbers, "signout")
                   \cup {<<a, n, "settled">> : a \in req[p].acct, n \in {m \in Numbers : \A b \in req[p].acct : Settled(b, m)}}
  /\ Return(p)
  /\ UNCHANGED <<slots, idp, known, issued, now, entitled, removed>>

(* Logout deletes the session of the cookie. *)
Logout(s) ==
  /\ "logout" \in Kinds
  /\ sess[s].acct # {}
  /\ sess' = [sess EXCEPT ![s] = NoSession]
  /\ UNCHANGED <<slots, idp, known, issued, req, now, history>>

(* PurgeExpiredSessions. *)
PurgeExpiredSessions ==
  /\ "purge" \in Kinds
  /\ \E s \in Sids : sess[s].acct # {} /\ ~Live(s)
  /\ sess' = [s \in Sids |-> IF Live(s) THEN sess[s] ELSE NoSession]
  /\ UNCHANGED <<slots, idp, known, issued, req, now, history>>

-----------------------------------------------------------------------------
(* Numbers change hands *)

(* DeleteInstance: repo.Delete, then retireSessionRole. *)
DeleteRow(p) ==
  /\ At(p, "unrow")
  /\ world' = [world EXCEPT ![req[p].n] = 0]
  /\ creator' = [creator EXCEPT ![req[p].n] = {}]
  /\ Goto(p, "sread")
  /\ UNCHANGED <<idp, known, sess, issued, made, now, history>>

(* RemoveRole takes the Role out of every authorization; its error is only  *)
(* recorded.                                                                *)
RemoveRole(p) ==
  /\ req[p].pc \in {"unrole", "undo"}
  /\ \/ /\ roleKeys' = roleKeys \ {req[p].n}
        /\ auth' = [a \in Accounts |-> auth[a] \ {req[p].n}]
     \/ "idp" \in Faults /\ UNCHANGED idp
  /\ Return(p)
  /\ UNCHANGED <<slots, known, sess, issued, now, history>>

(* Mutant: the Role is minted without asking whether it exists. *)
AddRoleAnyway(p) ==
  /\ At(p, "addrole")
  /\ roleKeys' = roleKeys \cup {req[p].n}
  /\ Goto(p, "row")
  /\ UNCHANGED <<slots, auth, known, sess, issued, now, history>>

(* CreateInstance, after retireSessionRole: AddRole, fatal if it exists. *)
AddRole(p) ==
  /\ At(p, "addrole")
  /\ \/ /\ req[p].n \in roleKeys \/ "idp" \in Faults
        /\ Return(p)
        /\ UNCHANGED roleKeys
     \/ /\ req[p].n \notin roleKeys
        /\ roleKeys' = roleKeys \cup {req[p].n}
        /\ Goto(p, "row")
  /\ UNCHANGED <<slots, auth, known, sess, issued, now, history>>

(* The row of the new world, with its creator; a failure retires the Role. *)
InsertRow(p) ==
  /\ At(p, "row")
  /\ \/ /\ world' = [world EXCEPT ![req[p].n] = made + 1]
        /\ creator' = [creator EXCEPT ![req[p].n] = req[p].acct]
        /\ made' = made + 1
        /\ entitled' = entitled \cup (req[p].acct \X {made + 1})
        /\ Return(p)
     \/ /\ "db" \in Faults
        /\ Goto(p, "undo")
        /\ UNCHANGED <<slots, entitled>>
  /\ UNCHANGED <<idp, known, sess, issued, now, ended, removed>>

-----------------------------------------------------------------------------
(* The environment *)

(* Somebody takes a Role from an Account in Zitadel's own console. *)
RemovedInZitadel(a, n) ==
  /\ "zitadel" \in Kinds
  /\ n \in auth[a]
  /\ auth' = [auth EXCEPT ![a] = @ \ {n}]
  /\ removed' = [removed EXCEPT ![a][n] = now]
  /\ UNCHANGED <<slots, roleKeys, known, sess, issued, req, now, entitled, ended>>

Tick ==
  /\ now < MaxTime
  /\ now' = now + 1
  /\ UNCHANGED <<slots, idp, known, sess, issued, req, history>>

-----------------------------------------------------------------------------

(* Every Number holds a world; some Accounts were granted some of them. *)
Init ==
  /\ world = [n \in Numbers |-> n]
  /\ creator = [n \in Numbers |-> {}]
  /\ roleKeys = Numbers
  /\ auth \in [Accounts -> SUBSET Numbers]
  /\ known \in SUBSET Accounts
  /\ SignedIn \subseteq known
  /\ \E left \in 1 .. SessionTTL :
       sess = [s \in Sids |-> IF s = 1 /\ SignedIn # {}
                 THEN [acct |-> SignedIn, roles |-> UNION {auth[a] : a \in SignedIn}, exp |-> left]
                 ELSE NoSession]
  /\ issued = Cardinality(SignedIn)
  /\ made = MaxInstances
  /\ req = [p \in Procs |-> Idle]
  /\ now = 0
  /\ entitled = {x \in Accounts \X (1 .. MaxWorlds) : x[2] \in auth[x[1]]}
  /\ ended = {}
  /\ removed = [a \in Accounts |-> [n \in Numbers |-> Never]]

Request(p) ==
  \E kind \in Kinds \cap AllKinds, A \in {{}} \cup {{a} : a \in Accounts}, n \in Numbers \cup {0}, s \in Sids \cup {0} :
    Begin(p, kind, A, n, s)

Step(p) ==
  \/ RequireAccount(p) \/ AuthorizationFor(p) \/ UpdateAuthorization(p)
  \/ ReadSessionRoles(p) \/ WriteSessionRoles(p)
  \/ Exchange(p) \/ RecordSignIn(p) \/ CreateSession(p) \/ LoadSession(p) \/ TouchSession(p)
  \/ RevokeSessions(p) \/ DeleteRow(p) \/ RemoveRole(p) \/ AddRole(p) \/ InsertRow(p)

Next ==
  \/ \E p \in Procs : Request(p) \/ Step(p)
  \/ \E s \in Sids : Logout(s)
  \/ \E a \in Accounts, n \in Numbers : RemovedInZitadel(a, n)
  \/ PurgeExpiredSessions
  \/ Tick

Spec == Init /\ [][Next]_vars

-----------------------------------------------------------------------------
(* Properties *)

(* Every variable holds what its declaration says, and a session that was   *)
(* deleted, or not issued yet, has no row, whatever is still to be written. *)
AccessTypeOK ==
  /\ world \in [Numbers -> Worlds]
  /\ creator \in [Numbers -> SUBSET Accounts]
  /\ roleKeys \subseteq Numbers
  /\ auth \in [Accounts -> SUBSET Numbers]
  /\ known \subseteq Accounts
  /\ sess \in [Sids -> Sessions]
  /\ \A s \in Sids : s > issued \/ sess[s].acct = {} => sess[s] = NoSession
  /\ issued \in 0 .. MaxSessions
  /\ made \in Worlds
  /\ req \in [Procs -> Reqs]
  /\ now \in 0 .. MaxTime
  /\ entitled \subseteq Accounts \X (1 .. MaxWorlds)
  /\ ended \subseteq Accounts \X Numbers \X Endings
  /\ removed \in [Accounts -> [Numbers -> 0 .. Never]]

(* retireSessionRole and the Role reservation: whoever may operate the      *)
(* world at a Number created that very world or was granted it, and not an  *)
(* earlier one the Number belonged to.                                      *)
AccessWasGranted ==
  \A s \in Sids, n \in Numbers :
    CanOperate(s, n) /\ world[n] # 0
      => \E a \in Accounts : sess[s].acct = {a} /\ <<a, world[n]>> \in entitled

(* No live session of the Account carries a Role whose end was announced.   *)
StaysEnded(how) ==
  \A a \in Accounts, n \in Numbers, s \in Sids :
    <<a, n, how>> \in ended /\ Live(s) /\ sess[s].acct = {a} => n \notin sess[s].roles

(* RevokeSessions after Revoke: an Account that was signed out everywhere    *)
(* while it held a Role no more, and no sign-in or Grant was under way to   *)
(* bring it back, does not operate the Number again before the next Grant,  *)
(* whatever updates, renewals and sign-ins are still in flight.             *)
AccessEndsAtSignOut == StaysEnded("settled")

(* The same of any sign-out everywhere after a Revoke, a sign-in under way  *)
(* or not (RevokeSessions).                                                 *)
SignOutIsImmediate == StaysEnded("signout")

(* The same of a Revoke alone: it takes the Role out of the live sessions   *)
(* for good (Revoke, RemoveSessionRole).                                    *)
RevokeIsImmediate == StaysEnded("revoke")

(* A Role removed in Zitadel leaves the holder's sessions within one TTL    *)
(* (Identify, TouchSession).                                                *)
GoneWithinTTL ==
  \A a \in Accounts, n \in Numbers, s \in Sids :
    Live(s) /\ sess[s].acct = {a} /\ n \in sess[s].roles => now < removed[a][n] + SessionTTL

=============================================================================
