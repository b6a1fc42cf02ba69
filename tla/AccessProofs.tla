---------------------------- MODULE AccessProofs ----------------------------
(***************************************************************************)
(* Theorems about Access: what a request knows at each of its steps and    *)
(* the rows it may touch, the end of access at a sign-out everywhere, and  *)
(* the reuse of Instance Numbers when requests come one after the other.   *)
(***************************************************************************)
EXTENDS Access, FiniteSetTheorems, TLAPS

-----------------------------------------------------------------------------
(* The parts of the type invariant *)

(* The steps of each request. *)
StepsOf(kind) ==
  CASE kind = "none"    -> {"idle"}
    [] kind = "grant"   -> {"account", "gread", "gwrite", "sread", "swrite"}
    [] kind = "revoke"  -> {"gread", "gwrite", "sread", "swrite"}
    [] kind = "signout" -> {"signout"}
    [] kind = "signin"  -> {"exchange", "record", "session"}
    [] kind = "page"    -> {"load", "touch"}
    [] kind = "create"  -> {"sread", "swrite", "addrole", "row", "undo"}
    [] kind = "delete"  -> {"unrow", "sread", "swrite", "unrole"}

(* A request r is at a step of its kind, about a Number, an Account or a    *)
(* session when its kind has one, updates only sessions that were issued,   *)
(* and creates only the m-th world and not more than there can be.          *)
SoundReq(r, i, m) ==
  /\ r.pc \in StepsOf(r.kind)
  /\ r.kind \in {"grant", "revoke", "create", "delete"} => r.n \in Numbers
  /\ r.kind \in {"grant", "revoke", "signout", "signin", "create"} => \E a \in Accounts : r.acct = {a}
  /\ r.kind = "page" => r.sid \in Sids
  /\ r.kind = "create" => m < MaxWorlds
  /\ \A t \in r.todo : t[1] <= i

OneCreate == \A p, q \in Procs : req[p].kind = "create" /\ req[q].kind = "create" => p = q

SlotsOK == world \in [Numbers -> Worlds] /\ creator \in [Numbers -> SUBSET Accounts] /\ made \in Worlds
IdpOK == roleKeys \subseteq Numbers /\ auth \in [Accounts -> SUBSET Numbers]
SessOK ==
  /\ sess \in [Sids -> Sessions] /\ issued \in 0 .. MaxSessions
  /\ \A s \in Sids : s > issued \/ sess[s].acct = {} => sess[s] = NoSession
ReqOK == req \in [Procs -> Reqs] /\ (\A p \in Procs : SoundReq(req[p], issued, made)) /\ OneCreate
RestOK == known \subseteq Accounts /\ now \in 0 .. MaxTime
HistOK ==
  /\ entitled \subseteq Accounts \X (1 .. MaxWorlds)
  /\ ended \subseteq Accounts \X Numbers \X Endings
  /\ removed \in [Accounts -> [Numbers -> 0 .. Never]]

TypeInv == SlotsOK /\ IdpOK /\ SessOK /\ ReqOK /\ RestOK /\ HistOK

LEMMA TypeParts == TypeInv => AccessTypeOK
BY DEF TypeInv, SlotsOK, IdpOK, SessOK, ReqOK, RestOK, HistOK, AccessTypeOK

LEMMA SlotsStay == ASSUME SlotsOK, UNCHANGED slots PROVE SlotsOK'
BY DEF SlotsOK, slots
LEMMA IdpStays == ASSUME IdpOK, UNCHANGED idp PROVE IdpOK'
BY DEF IdpOK, idp
LEMMA SessStay == ASSUME SessOK, UNCHANGED <<sess, issued>> PROVE SessOK'
BY DEF SessOK
LEMMA RestStays == ASSUME RestOK, UNCHANGED <<known, now>> PROVE RestOK'
BY DEF RestOK
LEMMA HistStays == ASSUME HistOK, UNCHANGED history PROVE HistOK'
BY DEF HistOK, history

-----------------------------------------------------------------------------
(* Steps of a request *)

Others(p) == \A q \in Procs \ {p} : req'[q] = req[q]

(* The request of p is done; it goes on at pc. *)
Ends(p) == req' \in [Procs -> Reqs] /\ req'[p] = Idle /\ Others(p)
Moves(p, pc) ==
  /\ req' \in [Procs -> Reqs] /\ Others(p) /\ req'[p].pc = pc
  /\ req'[p].kind = req[p].kind /\ req'[p].acct = req[p].acct
  /\ req'[p].n = req[p].n /\ req'[p].sid = req[p].sid
Goes(p, pc) == Moves(p, pc) /\ req'[p].roles = req[p].roles /\ req'[p].todo = req[p].todo

LEMMA IdleIsAReq ==
  /\ Idle \in Reqs /\ Idle.kind = "none" /\ Idle.pc = "idle" /\ Idle.acct = {} /\ Idle.n = 0
  /\ Idle.sid = 0 /\ Idle.roles = {} /\ Idle.todo = {}
BY DEF Idle, Reqs, Pcs

LEMMA ReqFields ==
  ASSUME req \in [Procs -> Reqs], NEW p \in Procs, NEW c \in Reqs, req' = [req EXCEPT ![p] = c]
  PROVE  req' \in [Procs -> Reqs] /\ req'[p] = c /\ Others(p)
BY DEF Others

LEMMA ReturnEnds ==
  ASSUME req \in [Procs -> Reqs], NEW p \in Procs, Return(p)
  PROVE  Ends(p)
BY IdleIsAReq, ReqFields DEF Return, Ends

LEMMA GotoGoes ==
  ASSUME req \in [Procs -> Reqs], NEW p \in Procs, NEW pc \in Pcs, Goto(p, pc)
  PROVE  Goes(p, pc)
<1> DEFINE c == [req[p] EXCEPT !.pc = pc]
<1>1. req[p] \in Reqs
  OBVIOUS
<1>2. /\ c \in Reqs /\ c.pc = pc /\ c.kind = req[p].kind /\ c.acct = req[p].acct /\ c.n = req[p].n
      /\ c.sid = req[p].sid /\ c.roles = req[p].roles /\ c.todo = req[p].todo
  BY <1>1 DEF Reqs
<1>3. req' = [req EXCEPT ![p] = c]
  BY DEF Goto
<1> HIDE DEF c
<1> QED BY <1>2, <1>3, ReqFields DEF Goes, Moves

(* A request that goes on with a list of Roles, or of updates. *)
LEMMA GotoWithRoles ==
  ASSUME req \in [Procs -> Reqs], NEW p \in Procs, NEW pc \in Pcs, NEW R \in SUBSET Numbers,
         req' = [req EXCEPT ![p].pc = pc, ![p].roles = R]
  PROVE  Moves(p, pc) /\ req'[p].roles = R /\ req'[p].todo = req[p].todo
<1> DEFINE c == [req[p] EXCEPT !.pc = pc, !.roles = R]
<1>1. req[p] \in Reqs
  OBVIOUS
<1>2. /\ c \in Reqs /\ c.pc = pc /\ c.kind = req[p].kind /\ c.acct = req[p].acct /\ c.n = req[p].n
      /\ c.sid = req[p].sid /\ c.roles = R /\ c.todo = req[p].todo
  BY <1>1 DEF Reqs
<1>3. req' = [req EXCEPT ![p] = c]
  OBVIOUS
<1> HIDE DEF c
<1> QED BY <1>2, <1>3, ReqFields DEF Moves

LEMMA GotoWithUpdates ==
  ASSUME req \in [Procs -> Reqs], NEW p \in Procs, NEW pc \in Pcs, NEW U \in SUBSET (Sids \X SUBSET Numbers),
         req' = [req EXCEPT ![p].pc = pc, ![p].todo = U]
  PROVE  Moves(p, pc) /\ req'[p].roles = req[p].roles /\ req'[p].todo = U
<1> DEFINE c == [req[p] EXCEPT !.pc = pc, !.todo = U]
<1>1. req[p] \in Reqs
  OBVIOUS
<1>2. /\ c \in Reqs /\ c.pc = pc /\ c.kind = req[p].kind /\ c.acct = req[p].acct /\ c.n = req[p].n
      /\ c.sid = req[p].sid /\ c.roles = req[p].roles /\ c.todo = U
  BY <1>1 DEF Reqs
<1>3. req' = [req EXCEPT ![p] = c]
  OBVIOUS
<1> HIDE DEF c
<1> QED BY <1>2, <1>3, ReqFields DEF Moves

(* The requests stay sound when one of them takes a sound step. *)
LEMMA OthersStaySound ==
  ASSUME ReqOK, SessOK, NEW p \in Procs, req' \in [Procs -> Reqs], Others(p),
         issued' \in Nat, issued <= issued', SoundReq(req'[p], issued', made'),
         req'[p].kind = "create" => \A q \in Procs \ {p} : req[q].kind # "create",
         made' = made \/ \A q \in Procs \ {p} : req[q].kind # "create"
  PROVE  ReqOK'
<1>1. ASSUME NEW q \in Procs \ {p} PROVE SoundReq(req'[q], issued', made')
  <2>1. req'[q] = req[q] /\ SoundReq(req[q], issued, made) /\ req[q] \in Reqs
    BY DEF Others, ReqOK
  <2>2. \A t \in req[q].todo : t[1] \in Nat /\ t[1] <= issued'
    BY <2>1 DEF Reqs, Sids, SoundReq, SessOK
  <2> QED BY <2>1, <2>2 DEF SoundReq
<1>2. OneCreate'
  BY DEF OneCreate, ReqOK, Others
<1> QED BY <1>1, <1>2 DEF ReqOK

LEMMA EndsSound ==
  ASSUME ReqOK, SessOK, NEW p \in Procs, Ends(p), issued' \in Nat, issued <= issued',
         made' = made \/ req[p].kind = "create"
  PROVE  ReqOK'
<1>1. SoundReq(Idle, issued', made')
  BY IdleIsAReq DEF SoundReq, StepsOf
<1>2. made' = made \/ \A q \in Procs \ {p} : req[q].kind # "create"
  BY DEF ReqOK, OneCreate
<1> QED BY <1>1, <1>2, IdleIsAReq, OthersStaySound DEF Ends

LEMMA MovesSound ==
  ASSUME ReqOK, SessOK, NEW p \in Procs, NEW pc \in Pcs, Moves(p, pc), pc \in StepsOf(req[p].kind),
         UNCHANGED <<issued, made>>, \A t \in req'[p].todo : t[1] <= issued
  PROVE  ReqOK'
<1>1. SoundReq(req[p], issued, made)
  BY DEF ReqOK
<1>2. SoundReq(req'[p], issued', made')
  BY <1>1 DEF SoundReq, Moves
<1>3. issued' \in Nat /\ issued <= issued'
  BY DEF SessOK
<1>4. req'[p].kind = "create" => \A q \in Procs \ {p} : req[q].kind # "create"
  BY DEF ReqOK, OneCreate, Moves
<1> QED BY <1>2, <1>3, <1>4, OthersStaySound DEF Moves

LEMMA GoesSound ==
  ASSUME ReqOK, SessOK, NEW p \in Procs, NEW pc \in Pcs, Goes(p, pc), pc \in StepsOf(req[p].kind),
         UNCHANGED <<issued, made>>
  PROVE  ReqOK'
<1>1. \A t \in req'[p].todo : t[1] <= issued
  BY DEF ReqOK, SoundReq, Goes
<1> QED BY <1>1, MovesSound DEF Goes

(* The kinds of request that reach a step. *)
LEMMA StepKinds ==
  ASSUME ReqOK, NEW p \in Procs
  PROVE  /\ req[p] \in Reqs /\ SoundReq(req[p], issued, made) /\ req[p].kind \in AllKinds \cup {"none"}
         /\ req[p].pc = "idle" => req[p].kind = "none"
         /\ req[p].pc = "account" => req[p].kind = "grant"
         /\ req[p].pc \in {"gread", "gwrite"} => req[p].kind \in {"grant", "revoke"}
         /\ req[p].pc \in {"sread", "swrite"} => req[p].kind \in {"grant", "revoke", "create", "delete"}
         /\ req[p].pc = "signout" => req[p].kind = "signout"
         /\ req[p].pc \in {"exchange", "record", "session"} => req[p].kind = "signin"
         /\ req[p].pc \in {"load", "touch"} => req[p].kind = "page"
         /\ req[p].pc \in {"addrole", "row", "undo"} => req[p].kind = "create"
         /\ req[p].pc \in {"unrow", "unrole"} => req[p].kind = "delete"
<1>1. SoundReq(req[p], issued, made) /\ req[p] \in Reqs
  BY DEF ReqOK
<1>2. req[p].kind \in AllKinds \cup {"none"}
  BY <1>1 DEF Reqs
<1> QED BY <1>1, <1>2 DEF SoundReq, StepsOf, AllKinds

-----------------------------------------------------------------------------
(* Grants and Revokes *)

LEMMA BeginFacts ==
  ASSUME TypeInv, NEW p \in Procs, NEW kind \in AllKinds, NEW A \in {{}} \cup {{a} : a \in Accounts},
         NEW n \in Numbers \cup {0}, NEW s \in Sids \cup {0}, Begin(p, kind, A, n, s)
  PROVE  /\ TypeInv' /\ Others(p)
         /\ UNCHANGED <<slots, idp, known, sess, issued, now, entitled, removed>>
         /\ req[p].pc = "idle" /\ req'[p].kind = kind /\ req'[p].pc = FirstPc(kind)
         /\ req'[p].acct = A /\ req'[p].n = n /\ req'[p].roles = {} /\ req'[p].todo = {}
         /\ Concurrent \/ \A q \in Procs : req[q].pc = "idle"
         /\ ended' = IF kind = "grant" THEN ended \ (A \X {n} \X Endings) ELSE ended
<1> DEFINE c == [Idle EXCEPT !.kind = kind, !.pc = FirstPc(kind), !.acct = A, !.n = n, !.sid = s]
<1>1. /\ req[p].pc = "idle" /\ req' = [req EXCEPT ![p] = c]
      /\ UNCHANGED <<slots, idp, known, sess, issued, now, entitled, removed>>
      /\ Concurrent \/ \A q \in Procs : req[q].pc = "idle"
      /\ ended' = IF kind = "grant" THEN ended \ (A \X {n} \X Endings) ELSE ended
      /\ kind \in {"grant", "revoke", "signout", "signin", "create"} <=> A # {}
      /\ kind \in {"grant", "revoke", "create", "delete"} <=> n # 0
      /\ kind = "page" <=> s # 0
      /\ kind = "create" => made < MaxWorlds /\ \A q \in Procs : req[q].kind # "create"
  BY DEF Begin, At
<1>2. FirstPc(kind) \in Pcs /\ FirstPc(kind) \in StepsOf(kind)
  BY DEF FirstPc, Pcs, StepsOf, AllKinds
<1>3. A \in SUBSET Accounts /\ (A # {} => \E a \in Accounts : A = {a})
  OBVIOUS
<1>4. /\ c.kind = kind /\ c.pc = FirstPc(kind) /\ c.acct = A /\ c.n = n /\ c.sid = s
      /\ c.roles = {} /\ c.todo = {}
  BY DEF Idle
<1>5. c \in Reqs
  <2>1. Idle \in Reqs
    BY IdleIsAReq
  <2> QED BY <1>2, <1>3, <2>1 DEF Reqs
<1> HIDE DEF c
<1>6. req' \in [Procs -> Reqs] /\ req'[p] = c /\ Others(p)
  BY <1>1, <1>5, ReqFields DEF TypeInv, ReqOK
<1>7. issued' = issued /\ made' = made /\ issued \in Nat /\ made \in Nat
  BY <1>1 DEF slots, TypeInv, SessOK, SlotsOK, Worlds
<1>8. SoundReq(c, issued', made')
  BY <1>1, <1>2, <1>3, <1>4, <1>7 DEF SoundReq
<1>9. ReqOK'
  BY <1>1, <1>4, <1>6, <1>7, <1>8, OthersStaySound DEF TypeInv
<1>10. HistOK'
  <2>1. ended' \subseteq ended
    BY <1>1
  <2> QED BY <1>1, <2>1 DEF HistOK, TypeInv
<1> QED BY <1>1, <1>4, <1>6, <1>9, <1>10, SlotsStay, IdpStays, SessStay, RestStays DEF TypeInv

LEMMA RequireAccountFacts ==
  ASSUME TypeInv, NEW p \in Procs, RequireAccount(p)
  PROVE  /\ TypeInv' /\ UNCHANGED <<slots, idp, known, sess, issued, now, history>>
         /\ req[p].pc = "account" /\ (Goes(p, "gread") \/ Ends(p))
<1>1. /\ req[p].pc = "account" /\ UNCHANGED <<slots, idp, known, sess, issued, now, history>>
      /\ Goto(p, "gread") \/ Return(p)
  BY DEF RequireAccount, At
<1>2. issued' = issued /\ made' = made /\ issued \in Nat /\ req[p].kind = "grant" /\ req \in [Procs -> Reqs]
  BY <1>1, StepKinds DEF slots, TypeInv, SessOK, ReqOK
<1>3. Goes(p, "gread") \/ Ends(p)
  BY <1>1, <1>2, GotoGoes, ReturnEnds DEF Pcs
<1>4. ReqOK'
  BY <1>2, <1>3, GoesSound, EndsSound DEF Pcs, StepsOf, TypeInv
<1> QED BY <1>1, <1>3, <1>4, SlotsStay, IdpStays, SessStay, RestStays, HistStays DEF TypeInv

LEMMA AuthorizationForFacts ==
  ASSUME TypeInv, NEW p \in Procs, AuthorizationFor(p)
  PROVE  /\ TypeInv' /\ UNCHANGED <<slots, idp, known, sess, issued, now, history>>
         /\ req[p].pc = "gread"
         /\ \/ Ends(p)
            \/ /\ Moves(p, "gwrite") /\ req'[p].todo = req[p].todo
               /\ \E a \in Accounts : For(p, a) /\ req'[p].roles = auth[a]
<1>1. req[p].pc = "gread" /\ UNCHANGED <<slots, idp, known, sess, issued, now, history>>
  BY DEF AuthorizationFor, At
<1>2. /\ issued' = issued /\ made' = made /\ issued \in Nat /\ req \in [Procs -> Reqs]
      /\ req[p].kind \in {"grant", "revoke"} /\ SoundReq(req[p], issued, made)
  BY <1>1, StepKinds DEF slots, TypeInv, SessOK, ReqOK
<1>3. SlotsOK' /\ IdpOK' /\ SessOK' /\ RestOK' /\ HistOK'
  BY <1>1, SlotsStay, IdpStays, SessStay, RestStays, HistStays DEF TypeInv
<1>4. CASE Return(p)
  BY <1>1, <1>2, <1>3, <1>4, ReturnEnds, EndsSound DEF TypeInv
<1>5. ASSUME NEW a \in Accounts, For(p, a), req' = [req EXCEPT ![p].pc = "gwrite", ![p].roles = auth[a]]
      PROVE  /\ TypeInv' /\ Moves(p, "gwrite") /\ req'[p].todo = req[p].todo
             /\ \E b \in Accounts : For(p, b) /\ req'[p].roles = auth[b]
  <2>1. auth[a] \in SUBSET Numbers
    BY DEF TypeInv, IdpOK
  <2>2. Moves(p, "gwrite") /\ req'[p].roles = auth[a] /\ req'[p].todo = req[p].todo
    BY <1>2, <1>5, <2>1, GotoWithRoles DEF Pcs
  <2>3. ReqOK'
    BY <1>2, <2>2, MovesSound DEF Pcs, StepsOf, TypeInv, SoundReq
  <2> QED BY <1>3, <1>5, <2>2, <2>3 DEF TypeInv
<1> QED BY <1>1, <1>4, <1>5 DEF AuthorizationFor

(* The list a Grant or a Revoke writes back. *)
NewKeys(p) == IF req[p].kind = "grant" THEN req[p].roles \cup {req[p].n} ELSE req[p].roles \ {req[p].n}

LEMMA UpdateAuthorizationFacts ==
  ASSUME TypeInv, NEW p \in Procs, UpdateAuthorization(p)
  PROVE  /\ TypeInv' /\ UNCHANGED <<slots, roleKeys, known, sess, issued, now, ended>>
         /\ req[p].pc = "gwrite" /\ entitled \subseteq entitled'
         /\ \/ Ends(p) /\ UNCHANGED <<auth, entitled>>
            \/ Goes(p, "sread") /\ UNCHANGED <<auth, entitled>> /\ NewKeys(p) = req[p].roles
            \/ /\ Goes(p, "sread") /\ NewKeys(p) \subseteq roleKeys
               /\ \E a \in Accounts :
                    /\ For(p, a) /\ auth' = [auth EXCEPT ![a] = NewKeys(p)]
                    /\ req[p].kind = "grant" /\ world[req[p].n] # 0 => <<a, world[req[p].n]>> \in entitled'
<1> DEFINE n == req[p].n
           keys == NewKeys(p)
<1>1. req[p].pc = "gwrite" /\ UNCHANGED <<slots, roleKeys, known, sess, issued, now, ended>>
  BY DEF UpdateAuthorization, At
<1>2. /\ issued' = issued /\ made' = made /\ issued \in Nat /\ req \in [Procs -> Reqs]
      /\ req[p].kind \in {"grant", "revoke"} /\ req[p] \in Reqs /\ n \in Numbers
  BY <1>1, StepKinds DEF slots, TypeInv, SessOK, ReqOK, SoundReq
<1>3. SlotsOK' /\ SessOK' /\ RestOK'
  BY <1>1, SlotsStay, SessStay, RestStays DEF TypeInv
<1>4. keys \in SUBSET Numbers
  BY <1>2 DEF NewKeys, Reqs
<1>5. PICK a \in Accounts :
        /\ For(p, a)
        /\ \/ keys = req[p].roles /\ Goto(p, "sread") /\ UNCHANGED <<auth, entitled, removed>>
           \/ /\ keys # req[p].roles /\ keys \subseteq roleKeys
              /\ auth' = [auth EXCEPT ![a] = keys]
              /\ entitled' = IF req[p].kind = "grant" THEN entitled \cup ({a} \X ({world[n]} \ {0})) ELSE entitled
              /\ removed' = [removed EXCEPT ![a] = [m \in Numbers |-> IF m \in keys THEN Never ELSE @[m]]]
              /\ Goto(p, "sread")
           \/ Return(p) /\ UNCHANGED <<auth, entitled, removed>>
  BY DEF UpdateAuthorization, NewKeys
<1> HIDE DEF keys
<1>6. Goto(p, "sread") => Goes(p, "sread") /\ ReqOK'
  BY <1>2, GotoGoes, GoesSound DEF Pcs, StepsOf, TypeInv
<1>7. Return(p) => Ends(p) /\ ReqOK'
  BY <1>2, ReturnEnds, EndsSound DEF TypeInv
<1>8. CASE UNCHANGED <<auth, entitled, removed>>
  <2>1. IdpOK' /\ HistOK'
    BY <1>1, <1>8 DEF IdpOK, HistOK, TypeInv
  <2>2. (Goes(p, "sread") /\ keys = req[p].roles /\ ReqOK') \/ (Ends(p) /\ ReqOK')
        \/ (Goes(p, "sread") /\ ReqOK' /\ keys # req[p].roles)
    BY <1>5, <1>6, <1>7
  <2>3. CASE Ends(p) /\ ReqOK'
    BY <1>1, <1>3, <1>8, <2>1, <2>3 DEF TypeInv
  <2>4. CASE Goes(p, "sread") /\ ReqOK' /\ keys = req[p].roles
    BY <1>1, <1>3, <1>8, <2>1, <2>4 DEF TypeInv, keys
  <2>5. CASE Goes(p, "sread") /\ ReqOK' /\ keys # req[p].roles /\ ~Ends(p)
    <3>1. keys \subseteq roleKeys /\ auth' = [auth EXCEPT ![a] = keys]
          /\ entitled' = IF req[p].kind = "grant" THEN entitled \cup ({a} \X ({world[n]} \ {0})) ELSE entitled
      BY <1>5, <1>7, <2>5
    <3>2. req[p].kind = "grant" /\ world[n] # 0 => <<a, world[n]>> \in entitled'
      BY <3>1
    <3> QED BY <1>1, <1>3, <1>5, <1>8, <2>1, <2>5, <3>1, <3>2 DEF TypeInv, keys
  <2> QED BY <2>2, <2>3, <2>4, <2>5
<1>9. CASE ~UNCHANGED <<auth, entitled, removed>>
  <2>1. /\ keys \subseteq roleKeys
        /\ auth' = [auth EXCEPT ![a] = keys]
        /\ entitled' = IF req[p].kind = "grant" THEN entitled \cup ({a} \X ({world[n]} \ {0})) ELSE entitled
        /\ removed' = [removed EXCEPT ![a] = [m \in Numbers |-> IF m \in keys THEN Never ELSE @[m]]]
        /\ Goto(p, "sread")
    BY <1>5, <1>9
  <2>2. IdpOK'
    BY <1>1, <1>4, <2>1 DEF IdpOK, TypeInv
  <2>3. world[n] \in Worlds
    BY <1>2 DEF TypeInv, SlotsOK
  <2>4. entitled' \subseteq Accounts \X (1 .. MaxWorlds)
    <3>1. {world[n]} \ {0} \subseteq 1 .. MaxWorlds
      BY <2>3, AccessAssumption DEF Worlds
    <3>2. entitled \subseteq Accounts \X (1 .. MaxWorlds)
      BY DEF TypeInv, HistOK
    <3> QED BY <2>1, <3>1, <3>2
  <2>5. Never \in 0 .. Never
    BY AccessAssumption DEF Never
  <2>6. removed' \in [Accounts -> [Numbers -> 0 .. Never]]
    <3>1. removed \in [Accounts -> [Numbers -> 0 .. Never]]
      BY DEF TypeInv, HistOK
    <3>2. [m \in Numbers |-> IF m \in keys THEN Never ELSE removed[a][m]] \in [Numbers -> 0 .. Never]
      BY <2>5, <3>1
    <3> QED BY <2>1, <3>1, <3>2
  <2>7. HistOK'
    BY <1>1, <2>4, <2>6 DEF HistOK, TypeInv
  <2>8. (req[p].kind = "grant" /\ world[n] # 0 => <<a, world[n]>> \in entitled') /\ entitled \subseteq entitled'
    BY <2>1
  <2> QED BY <1>1, <1>3, <1>5, <1>6, <2>1, <2>2, <2>7, <2>8 DEF TypeInv, keys
<1> QED BY <1>8, <1>9

(* What follows the last update. *)
LEMMA AfterSessionsFacts ==
  ASSUME ReqOK, NEW p \in Procs, req[p].kind \in {"grant", "revoke", "create", "delete"}, AfterSessions(p)
  PROVE  /\ req[p].kind = "create" => Moves(p, "addrole") /\ req'[p].todo = {}
         /\ req[p].kind = "delete" => Moves(p, "unrole") /\ req'[p].todo = {}
         /\ req[p].kind \in {"grant", "revoke"} => Ends(p)
<1>1. req \in [Procs -> Reqs] /\ {} \in SUBSET (Sids \X SUBSET Numbers)
  BY DEF ReqOK
<1>2. CASE req[p].kind = "create"
  BY <1>1, <1>2, GotoWithUpdates DEF AfterSessions, Pcs
<1>3. CASE req[p].kind = "delete"
  BY <1>1, <1>3, GotoWithUpdates DEF AfterSessions, Pcs
<1>4. CASE req[p].kind \in {"grant", "revoke"}
  BY <1>1, <1>4, ReturnEnds DEF AfterSessions
<1> QED BY <1>2, <1>3, <1>4

(* The sessions are dealt with: a create or a delete goes on, a Grant or a  *)
(* Revoke is done.                                                          *)
After(p) ==
  \/ req[p].kind = "create" /\ Moves(p, "addrole") /\ req'[p].todo = {}
  \/ req[p].kind = "delete" /\ Moves(p, "unrole") /\ req'[p].todo = {}
  \/ req[p].kind \in {"grant", "revoke"} /\ Ends(p)

LEMMA AfterSound ==
  ASSUME ReqOK, SessOK, NEW p \in Procs, After(p), UNCHANGED <<issued, made>>
  PROVE  ReqOK'
<1>1. issued' \in Nat /\ issued <= issued'
  BY DEF SessOK
<1>2. CASE req[p].kind = "create" /\ Moves(p, "addrole") /\ req'[p].todo = {}
  BY <1>2, MovesSound DEF Pcs, StepsOf
<1>3. CASE req[p].kind = "delete" /\ Moves(p, "unrole") /\ req'[p].todo = {}
  BY <1>3, MovesSound DEF Pcs, StepsOf
<1> QED BY <1>1, <1>2, <1>3, EndsSound DEF After

LEMMA EndedType ==
  ASSUME ReqOK, NEW p \in Procs, NEW S \in SUBSET Numbers, NEW how \in Endings
  PROVE  Ended(p, S, how) \subseteq Accounts \X Numbers \X Endings
<1>1. req[p].acct \subseteq Accounts
  BY DEF ReqOK, Reqs
<1> QED BY <1>1 DEF Ended

LEMMA SessionsDoneFacts ==
  ASSUME TypeInv, NEW p \in Procs, req[p].kind \in {"grant", "revoke", "create", "delete"}, SessionsDone(p),
         UNCHANGED <<entitled, removed>>
  PROVE  After(p) /\ HistOK' /\ ended' \in {ended, ended \cup Ended(p, {req[p].n}, "revoke")}
<1>1. After(p)
  BY AfterSessionsFacts DEF SessionsDone, TypeInv, After
<1>2. req[p].n \in Numbers
  BY DEF TypeInv, ReqOK, SoundReq
<1>3. Ended(p, {req[p].n}, "revoke") \subseteq Accounts \X Numbers \X Endings
  BY <1>2, EndedType DEF TypeInv, Endings
<1>4. ended' \in {ended, ended \cup Ended(p, {req[p].n}, "revoke")}
  BY DEF SessionsDone
<1> QED BY <1>1, <1>3, <1>4 DEF HistOK, TypeInv

-----------------------------------------------------------------------------
(* The rows of the sessions table *)

(* The Roles an update gives a session that has these. *)
NewRoles(p, roles) == IF req[p].kind = "grant" THEN roles \cup {req[p].n} ELSE roles \ {req[p].n}

(* The rows an update of p is about. *)
Concerned(p) == {s \in Sids : Live(s) /\ (req[p].acct = sess[s].acct \/ req[p].kind \in {"create", "delete"})}

LEMMA ReadSessionRolesFacts ==
  ASSUME TypeInv, NEW p \in Procs, ReadSessionRoles(p)
  PROVE  /\ TypeInv' /\ UNCHANGED <<slots, idp, known, sess, issued, now, entitled, removed>>
         /\ req[p].pc = "sread" /\ req[p].kind \in {"grant", "revoke", "create", "delete"}
         /\ ended' \in {ended, ended \cup Ended(p, {req[p].n}, "revoke")}
         /\ \/ /\ Moves(p, "swrite") /\ req'[p].roles = req[p].roles
               /\ \A t \in req'[p].todo : t[1] \in Concerned(p) /\ t[2] = NewRoles(p, sess[t[1]].roles)
               /\ \A s \in Concerned(p) : NewRoles(p, sess[s].roles) = sess[s].roles
                                          \/ \E t \in req'[p].todo : t[1] = s
            \/ /\ After(p)
               /\ "sessions" \in Faults \/ \A s \in Concerned(p) : NewRoles(p, sess[s].roles) = sess[s].roles
<1> DEFINE next(s) == NewRoles(p, sess[s].roles)
           todo == {<<s, next(s)>> : s \in {r \in Concerned(p) : next(r) # sess[r].roles}}
<1>1. req[p].pc = "sread" /\ UNCHANGED <<slots, idp, known, sess, issued, now, entitled, removed>>
  BY DEF ReadSessionRoles, At
<1>2. /\ issued' = issued /\ made' = made /\ issued \in Nat /\ req \in [Procs -> Reqs]
      /\ req[p].kind \in {"grant", "revoke", "create", "delete"} /\ req[p] \in Reqs /\ req[p].n \in Numbers
  BY <1>1, StepKinds DEF slots, TypeInv, SessOK, ReqOK, SoundReq
<1>3. SlotsOK' /\ IdpOK' /\ SessOK' /\ RestOK'
  BY <1>1, SlotsStay, IdpStays, SessStay, RestStays DEF TypeInv
<1>4. \A s \in Sids : next(s) \in SUBSET Numbers
  BY <1>2 DEF NewRoles, TypeInv, SessOK, Sessions
<1>5. \A s \in Concerned(p) : s \in Sids /\ s <= issued
  BY DEF Concerned, Live, TypeInv, SessOK, NoSession, Sids
<1>6. \/ req' = [req EXCEPT ![p].pc = "swrite", ![p].todo = todo] /\ UNCHANGED ended
      \/ todo = {} /\ SessionsDone(p)
      \/ "sessions" \in Faults /\ AfterSessions(p) /\ UNCHANGED ended
  BY DEF ReadSessionRoles, NewRoles, Concerned
<1>7. \A t \in todo : /\ t \in Sids \X SUBSET Numbers /\ t[1] \in Concerned(p) /\ t[1] <= issued
                      /\ t[2] = NewRoles(p, sess[t[1]].roles)
  <2>1. ASSUME NEW s \in Concerned(p)
        PROVE  /\ <<s, next(s)>> \in Sids \X SUBSET Numbers /\ <<s, next(s)>>[1] = s
               /\ <<s, next(s)>>[2] = NewRoles(p, sess[s].roles) /\ s <= issued
    BY <1>4, <1>5
  <2> QED BY <2>1
<1>8. ASSUME NEW s \in Concerned(p) PROVE next(s) = sess[s].roles \/ \E t \in todo : t[1] = s
  <2>1. CASE next(s) # sess[s].roles
    <3>1. <<s, next(s)>> \in todo
      BY <2>1
    <3>2. <<s, next(s)>>[1] = s
      OBVIOUS
    <3> HIDE DEF todo, next
    <3> QED BY <3>1, <3>2
  <2> QED BY <2>1
<1>9. todo = {} => \A s \in Concerned(p) : next(s) = sess[s].roles
  BY <1>8
<1> HIDE DEF todo
<1>10. CASE req' = [req EXCEPT ![p].pc = "swrite", ![p].todo = todo] /\ UNCHANGED ended
  <2>1. todo \in SUBSET (Sids \X SUBSET Numbers)
    BY <1>7
  <2>2. Moves(p, "swrite") /\ req'[p].roles = req[p].roles /\ req'[p].todo = todo
    BY <1>2, <1>10, <2>1, GotoWithUpdates DEF Pcs
  <2>3. ReqOK'
    BY <1>2, <1>7, <2>2, MovesSound DEF Pcs, StepsOf, TypeInv
  <2>4. HistOK'
    BY <1>1, <1>10, HistStays DEF TypeInv, history
  <2> QED BY <1>1, <1>2, <1>3, <1>7, <1>8, <1>10, <2>2, <2>3, <2>4 DEF TypeInv
<1>11. CASE todo = {} /\ SessionsDone(p)
  <2>1. After(p) /\ HistOK' /\ ended' \in {ended, ended \cup Ended(p, {req[p].n}, "revoke")}
    BY <1>1, <1>2, <1>11, SessionsDoneFacts
  <2>2. ReqOK'
    BY <1>2, <2>1, AfterSound DEF TypeInv
  <2> QED BY <1>1, <1>2, <1>3, <1>9, <1>11, <2>1, <2>2 DEF TypeInv
<1>12. CASE "sessions" \in Faults /\ AfterSessions(p) /\ UNCHANGED ended
  <2>1. After(p)
    BY <1>2, <1>12, AfterSessionsFacts DEF TypeInv, After
  <2>2. ReqOK'
    BY <1>2, <2>1, AfterSound DEF TypeInv
  <2>3. HistOK'
    BY <1>1, <1>12, HistStays DEF TypeInv, history
  <2> QED BY <1>1, <1>2, <1>3, <1>12, <2>1, <2>2, <2>3 DEF TypeInv
<1> QED BY <1>6, <1>10, <1>11, <1>12

(* One row of the table changes, if it is there. *)
LEMMA SessFields ==
  ASSUME SessOK, NEW s \in Sids, NEW c \in Sessions, sess' = [sess EXCEPT ![s] = c], UNCHANGED issued,
         IF sess[s].acct = {} THEN c = NoSession ELSE c.acct = sess[s].acct
  PROVE  SessOK' /\ sess'[s] = c /\ \A r \in Sids \ {s} : sess'[r] = sess[r]
<1>1. sess' \in [Sids -> Sessions] /\ sess'[s] = c /\ \A r \in Sids \ {s} : sess'[r] = sess[r]
  BY DEF SessOK
<1>2. \A r \in Sids : r > issued \/ sess'[r].acct = {} => sess'[r] = NoSession
  <2>1. s > issued => sess[s].acct = {}
    BY DEF SessOK, NoSession
  <2> QED BY <1>1, <2>1 DEF SessOK
<1> QED BY <1>1, <1>2 DEF SessOK

LEMMA WriteSessionRolesFacts ==
  ASSUME TypeInv, NEW p \in Procs, WriteSessionRoles(p)
  PROVE  /\ TypeInv' /\ UNCHANGED <<slots, idp, known, issued, now, entitled, removed>>
         /\ req[p].pc = "swrite" /\ req[p].kind \in {"grant", "revoke", "create", "delete"}
         /\ ended' \in {ended, ended \cup Ended(p, {req[p].n}, "revoke")}
         /\ \/ /\ \E t \in req[p].todo :
                    /\ \A s \in Sids \ {t[1]} : sess'[s] = sess[s]
                    /\ t[1] \in Sids /\ sess'[t[1]].acct = sess[t[1]].acct /\ sess'[t[1]].exp = sess[t[1]].exp
                    /\ sess'[t[1]].roles = IF sess[t[1]].acct = {} THEN sess[t[1]].roles ELSE t[2]
                    /\ \/ Moves(p, "swrite") /\ req'[p].roles = req[p].roles /\ req'[p].todo = req[p].todo \ {t}
                       \/ After(p) /\ req[p].todo = {t}
            \/ "sessions" \in Faults /\ After(p) /\ UNCHANGED sess
<1>1. req[p].pc = "swrite" /\ UNCHANGED <<slots, idp, known, issued, now, entitled, removed>>
  BY DEF WriteSessionRoles, At
<1>2. /\ issued' = issued /\ made' = made /\ issued \in Nat /\ req \in [Procs -> Reqs]
      /\ req[p].kind \in {"grant", "revoke", "create", "delete"} /\ req[p] \in Reqs
      /\ SoundReq(req[p], issued, made)
  BY <1>1, StepKinds DEF slots, TypeInv, SessOK, ReqOK
<1>3. SlotsOK' /\ IdpOK' /\ RestOK'
  BY <1>1, SlotsStay, IdpStays, RestStays DEF TypeInv
<1>4. CASE "sessions" \in Faults /\ AfterSessions(p) /\ UNCHANGED <<sess, ended>>
  <2>1. After(p)
    BY <1>2, <1>4, AfterSessionsFacts DEF TypeInv, After
  <2>2. ReqOK'
    BY <1>2, <2>1, AfterSound DEF TypeInv
  <2>3. HistOK' /\ SessOK'
    BY <1>1, <1>2, <1>4, HistStays, SessStay DEF TypeInv, history
  <2> QED BY <1>1, <1>2, <1>3, <1>4, <2>1, <2>2, <2>3 DEF TypeInv
<1>5. CASE ~("sessions" \in Faults /\ AfterSessions(p) /\ UNCHANGED <<sess, ended>>)
  <2>1. PICK t \in req[p].todo :
          /\ sess' = [sess EXCEPT ![t[1]] = IF @.acct = {} THEN @ ELSE [@ EXCEPT !.roles = t[2]]]
          /\ NextUpdate(p, t)
    BY <1>5 DEF WriteSessionRoles
  <2>2. t[1] \in Sids /\ t[2] \in SUBSET Numbers /\ t[1] <= issued /\ sess[t[1]] \in Sessions
    BY <1>2 DEF Reqs, SoundReq, TypeInv, SessOK
  <2> DEFINE o == sess[t[1]]
             c == IF o.acct = {} THEN o ELSE [o EXCEPT !.roles = t[2]]
  <2>3. sess' = [sess EXCEPT ![t[1]] = c]
    BY <2>1, <2>2 DEF TypeInv, SessOK
  <2>4. /\ c \in Sessions /\ c.acct = o.acct /\ c.exp = o.exp
        /\ c.roles = IF o.acct = {} THEN o.roles ELSE t[2]
    <3> HIDE DEF o
    <3>1. o \in Sessions
      BY <2>2 DEF o
    <3> QED BY <2>2, <3>1 DEF Sessions
  <2>5. IF o.acct = {} THEN c = NoSession ELSE c.acct = o.acct
    BY <2>2, <2>4 DEF TypeInv, SessOK
  <2> HIDE DEF c
  <2>6. SessOK' /\ sess'[t[1]] = c /\ \A s \in Sids \ {t[1]} : sess'[s] = sess[s]
    BY <1>2, <2>2, <2>3, <2>4, <2>5, SessFields DEF TypeInv
  <2>7. CASE req[p].todo = {t}
    <3>1. SessionsDone(p)
      BY <2>1, <2>7 DEF NextUpdate
    <3>2. After(p) /\ HistOK' /\ ended' \in {ended, ended \cup Ended(p, {req[p].n}, "revoke")}
      BY <1>1, <1>2, <3>1, SessionsDoneFacts
    <3>3. ReqOK'
      BY <1>2, <3>2, AfterSound DEF TypeInv
    <3>4. TypeInv'
      BY <1>3, <2>6, <3>2, <3>3 DEF TypeInv
    <3> QED BY <1>1, <1>2, <2>2, <2>4, <2>6, <2>7, <3>2, <3>4
  <2>8. CASE req[p].todo # {t}
    <3>1. req' = [req EXCEPT ![p].todo = @ \ {t}] /\ UNCHANGED ended
      BY <2>1, <2>8 DEF NextUpdate
    <3>2. req' = [req EXCEPT ![p].pc = "swrite", ![p].todo = req[p].todo \ {t}]
      <4> DEFINE d == [req[p] EXCEPT !.todo = req[p].todo \ {t}]
                 e == [req[p] EXCEPT !.pc = "swrite", !.todo = req[p].todo \ {t}]
      <4>1. d = e
        BY <1>1, <1>2 DEF Reqs
      <4>2. req' = [req EXCEPT ![p] = d]
        BY <3>1
      <4> QED BY <4>1, <4>2
    <3>3. req[p].todo \ {t} \in SUBSET (Sids \X SUBSET Numbers)
      BY <1>2 DEF Reqs
    <3>4. Moves(p, "swrite") /\ req'[p].roles = req[p].roles /\ req'[p].todo = req[p].todo \ {t}
      BY <1>2, <3>2, <3>3, GotoWithUpdates DEF Pcs
    <3>5. ReqOK'
      BY <1>2, <3>4, MovesSound DEF Pcs, StepsOf, TypeInv, SoundReq
    <3>6. HistOK'
      BY <1>1, <3>1, HistStays DEF TypeInv, history
    <3>7. TypeInv'
      BY <1>3, <2>6, <3>5, <3>6 DEF TypeInv
    <3> QED BY <1>1, <1>2, <2>2, <2>4, <2>6, <3>1, <3>4, <3>7
  <2> QED BY <2>7, <2>8
<1> QED BY <1>4, <1>5

-----------------------------------------------------------------------------
(* Sign-ins and sign-outs *)

LEMMA ExchangeFacts ==
  ASSUME TypeInv, NEW p \in Procs, Exchange(p)
  PROVE  /\ TypeInv' /\ UNCHANGED <<slots, idp, known, sess, issued, now, history>>
         /\ req[p].pc = "exchange" /\ req[p].kind = "signin"
         /\ \/ Ends(p)
            \/ /\ Moves(p, "record") /\ req'[p].todo = req[p].todo
               /\ \E a \in Accounts : For(p, a) /\ req'[p].roles = auth[a]
<1>1. req[p].pc = "exchange" /\ UNCHANGED <<slots, idp, known, sess, issued, now, history>>
  BY DEF Exchange, At
<1>2. /\ issued' = issued /\ made' = made /\ issued \in Nat /\ req \in [Procs -> Reqs]
      /\ req[p].kind = "signin" /\ SoundReq(req[p], issued, made)
  BY <1>1, StepKinds DEF slots, TypeInv, SessOK, ReqOK
<1>3. SlotsOK' /\ IdpOK' /\ SessOK' /\ RestOK' /\ HistOK'
  BY <1>1, SlotsStay, IdpStays, SessStay, RestStays, HistStays DEF TypeInv
<1>4. CASE Return(p)
  BY <1>1, <1>2, <1>3, <1>4, ReturnEnds, EndsSound DEF TypeInv
<1>5. ASSUME NEW a \in Accounts, For(p, a), req' = [req EXCEPT ![p].pc = "record", ![p].roles = auth[a]]
      PROVE  /\ TypeInv' /\ Moves(p, "record") /\ req'[p].todo = req[p].todo
             /\ \E b \in Accounts : For(p, b) /\ req'[p].roles = auth[b]
  <2>1. auth[a] \in SUBSET Numbers
    BY DEF TypeInv, IdpOK
  <2>2. Moves(p, "record") /\ req'[p].roles = auth[a] /\ req'[p].todo = req[p].todo
    BY <1>2, <1>5, <2>1, GotoWithRoles DEF Pcs
  <2>3. ReqOK'
    BY <1>2, <2>2, MovesSound DEF Pcs, StepsOf, TypeInv, SoundReq
  <2> QED BY <1>3, <1>5, <2>2, <2>3 DEF TypeInv
<1> QED BY <1>1, <1>2, <1>4, <1>5 DEF Exchange

LEMMA RecordSignInFacts ==
  ASSUME TypeInv, NEW p \in Procs, RecordSignIn(p)
  PROVE  /\ TypeInv' /\ UNCHANGED <<slots, idp, sess, issued, now, history>>
         /\ req[p].pc = "record" /\ req[p].kind = "signin" /\ Goes(p, "session")
<1>1. /\ req[p].pc = "record" /\ UNCHANGED <<slots, idp, sess, issued, now, history>> /\ Goto(p, "session")
      /\ known' \in {known \cup req[p].acct} \cup (IF "db" \in Faults THEN {known} ELSE {})
  BY DEF RecordSignIn, At
<1>2. /\ issued' = issued /\ made' = made /\ req \in [Procs -> Reqs] /\ req[p] \in Reqs
      /\ req[p].kind = "signin"
  BY <1>1, StepKinds DEF slots, TypeInv, SessOK, ReqOK
<1>3. Goes(p, "session")
  BY <1>1, <1>2, GotoGoes DEF Pcs
<1>4. ReqOK'
  BY <1>2, <1>3, GoesSound DEF Pcs, StepsOf, TypeInv
<1>5. RestOK'
  <2>1. known' \subseteq known \cup req[p].acct
    BY <1>1
  <2> QED BY <1>1, <1>2, <2>1 DEF RestOK, TypeInv, Reqs
<1> QED BY <1>1, <1>2, <1>3, <1>4, <1>5, SlotsStay, IdpStays, SessStay, HistStays DEF TypeInv

LEMMA CreateSessionFacts ==
  ASSUME TypeInv, NEW p \in Procs, CreateSession(p)
  PROVE  /\ TypeInv' /\ UNCHANGED <<slots, idp, known, now, history>> /\ Ends(p)
         /\ req[p].pc = "session" /\ req[p].kind = "signin"
         /\ \/ /\ issued + 1 \in Sids /\ sess'[issued + 1].acct = req[p].acct
               /\ sess'[issued + 1].roles = req[p].roles
               /\ \A s \in Sids \ {issued + 1} : sess'[s] = sess[s]
            \/ UNCHANGED sess
<1> DEFINE c == [acct |-> req[p].acct, roles |-> req[p].roles, exp |-> now + SessionTTL]
<1>1. /\ req[p].pc = "session" /\ issued < MaxSessions /\ Return(p)
      /\ UNCHANGED <<slots, idp, known, now, history>>
      /\ \/ issued' = issued + 1 /\ sess' = [sess EXCEPT ![issued + 1] = c]
         \/ UNCHANGED <<issued, sess>>
  BY DEF CreateSession, At
<1>2. /\ made' = made /\ req \in [Procs -> Reqs] /\ req[p] \in Reqs /\ req[p].kind = "signin"
      /\ \E a \in Accounts : req[p].acct = {a}
  BY <1>1, StepKinds DEF slots, TypeInv, ReqOK, SoundReq
<1>3. issued \in Nat /\ issued + 1 \in Sids /\ issued' \in 0 .. MaxSessions /\ issued <= issued'
  BY <1>1, AccessAssumption DEF TypeInv, SessOK, Sids
<1>4. Ends(p)
  BY <1>1, <1>2, ReturnEnds
<1>5. ReqOK'
  BY <1>2, <1>3, <1>4, EndsSound DEF TypeInv
<1>6. SlotsOK' /\ IdpOK' /\ RestOK' /\ HistOK'
  BY <1>1, SlotsStay, IdpStays, RestStays, HistStays DEF TypeInv
<1>7. c \in Sessions /\ c.acct = req[p].acct /\ c.roles = req[p].roles
  <2>1. now + SessionTTL \in 0 .. MaxTime + SessionTTL
    BY AccessAssumption DEF TypeInv, RestOK
  <2> QED BY <1>2, <2>1 DEF Sessions, Reqs
<1> HIDE DEF c
<1>8. CASE issued' = issued + 1 /\ sess' = [sess EXCEPT ![issued + 1] = c]
  <2>1. /\ sess' \in [Sids -> Sessions] /\ sess'[issued + 1] = c
        /\ \A s \in Sids \ {issued + 1} : sess'[s] = sess[s]
    BY <1>3, <1>7, <1>8 DEF TypeInv, SessOK
  <2>2. \A s \in Sids : s > issued' \/ sess'[s].acct = {} => sess'[s] = NoSession
    <3>1. \A s \in Sids : s > issued' => s > issued /\ s # issued + 1
      BY <1>3, <1>8 DEF Sids
    <3>2. sess'[issued + 1].acct # {}
      BY <1>2, <1>7, <2>1
    <3> QED BY <2>1, <3>1, <3>2 DEF TypeInv, SessOK
  <2>3. SessOK'
    BY <1>3, <2>1, <2>2 DEF SessOK
  <2> QED BY <1>1, <1>2, <1>3, <1>4, <1>5, <1>6, <1>7, <2>1, <2>3 DEF TypeInv
<1>9. CASE UNCHANGED <<issued, sess>>
  <2>1. SessOK'
    BY <1>9, SessStay DEF TypeInv
  <2> QED BY <1>1, <1>2, <1>4, <1>5, <1>6, <1>9, <2>1 DEF TypeInv
<1> QED BY <1>1, <1>8, <1>9

LEMMA LoadSessionFacts ==
  ASSUME TypeInv, NEW p \in Procs, LoadSession(p)
  PROVE  /\ TypeInv' /\ UNCHANGED <<slots, idp, known, sess, issued, now, history>>
         /\ req[p].pc = "load" /\ req[p].kind = "page"
         /\ (Goes(p, "touch") /\ Live(req[p].sid)) \/ Ends(p)
<1>1. /\ req[p].pc = "load" /\ UNCHANGED <<slots, idp, known, sess, issued, now, history>>
      /\ (Goto(p, "touch") /\ Live(req[p].sid)) \/ Return(p)
  BY DEF LoadSession, At
<1>2. /\ issued' = issued /\ made' = made /\ issued \in Nat /\ req[p].kind = "page" /\ req \in [Procs -> Reqs]
  BY <1>1, StepKinds DEF slots, TypeInv, SessOK, ReqOK
<1>3. (Goes(p, "touch") /\ Live(req[p].sid)) \/ Ends(p)
  BY <1>1, <1>2, GotoGoes, ReturnEnds DEF Pcs
<1>4. ReqOK'
  BY <1>2, <1>3, GoesSound, EndsSound DEF Pcs, StepsOf, TypeInv
<1> QED BY <1>1, <1>2, <1>3, <1>4, SlotsStay, IdpStays, SessStay, RestStays, HistStays DEF TypeInv

LEMMA TouchSessionFacts ==
  ASSUME TypeInv, NEW p \in Procs, TouchSession(p)
  PROVE  /\ TypeInv' /\ UNCHANGED <<slots, idp, known, issued, now, history>>
         /\ req[p].pc = "touch" /\ req[p].kind = "page" /\ Ends(p) /\ req[p].sid \in Sids
         /\ \A s \in Sids \ {req[p].sid} : sess'[s] = sess[s]
         /\ sess'[req[p].sid].acct = sess[req[p].sid].acct /\ sess'[req[p].sid].roles = sess[req[p].sid].roles
<1> DEFINE s == req[p].sid
           o == sess[s]
           c == IF o.acct = {} THEN o ELSE [o EXCEPT !.exp = now + SessionTTL]
<1>1. /\ req[p].pc = "touch" /\ UNCHANGED <<slots, idp, known, issued, now, history>> /\ Return(p)
      /\ sess' = [sess EXCEPT ![s] = IF @.acct = {} THEN @ ELSE [@ EXCEPT !.exp = now + SessionTTL]]
  BY DEF TouchSession, At
<1>2. /\ issued' = issued /\ made' = made /\ issued \in Nat /\ req[p].kind = "page" /\ req \in [Procs -> Reqs]
      /\ s \in Sids
  BY <1>1, StepKinds DEF slots, TypeInv, SessOK, ReqOK, SoundReq
<1>3. Ends(p)
  BY <1>1, <1>2, ReturnEnds
<1>4. ReqOK'
  BY <1>2, <1>3, EndsSound DEF TypeInv
<1>5. now + SessionTTL \in 0 .. MaxTime + SessionTTL
  BY AccessAssumption DEF TypeInv, RestOK
<1>6. sess' = [sess EXCEPT ![s] = c]
  BY <1>1, <1>2 DEF TypeInv, SessOK
<1>7. c \in Sessions /\ c.acct = o.acct /\ c.roles = o.roles
  <2>1. o \in Sessions
    BY <1>2 DEF TypeInv, SessOK
  <2> HIDE DEF o
  <2> QED BY <1>5, <2>1 DEF Sessions
<1>8. IF o.acct = {} THEN c = NoSession ELSE c.acct = o.acct
  BY <1>2, <1>7 DEF TypeInv, SessOK
<1> HIDE DEF c
<1>9. SessOK' /\ sess'[s] = c /\ \A r \in Sids \ {s} : sess'[r] = sess[r]
  BY <1>2, <1>6, <1>7, <1>8, SessFields DEF TypeInv
<1> QED BY <1>1, <1>2, <1>3, <1>4, <1>7, <1>9, SlotsStay, IdpStays, RestStays, HistStays DEF TypeInv

(* Rows are deleted. *)
LEMMA SessDeleted ==
  ASSUME SessOK, UNCHANGED issued, NEW S \in SUBSET Sids,
         sess' = [s \in Sids |-> IF s \in S THEN NoSession ELSE sess[s]]
  PROVE  SessOK'
<1>1. NoSession \in Sessions /\ NoSession.acct = {}
  <2>1. 0 \in 0 .. MaxTime + SessionTTL
    BY AccessAssumption
  <2> QED BY <2>1 DEF NoSession, Sessions
<1>2. \A s \in Sids : sess'[s] = IF s \in S THEN NoSession ELSE sess[s]
  OBVIOUS
<1>3. sess' \in [Sids -> Sessions]
  BY <1>1 DEF SessOK
<1> QED BY <1>1, <1>2, <1>3 DEF SessOK

LEMMA RevokeSessionsFacts ==
  ASSUME TypeInv, NEW p \in Procs, RevokeSessions(p)
  PROVE  /\ TypeInv' /\ UNCHANGED <<slots, idp, known, issued, now, entitled, removed>> /\ Ends(p)
         /\ req[p].pc = "signout" /\ req[p].kind = "signout"
         /\ \A s \in Sids : sess'[s] = IF sess[s].acct = req[p].acct THEN NoSession ELSE sess[s]
         /\ ended' = ended \cup Ended(p, Numbers, "signout")
              \cup {<<a, n, "settled">> : a \in req[p].acct,
                                          n \in {m \in Numbers : \A b \in req[p].acct : Settled(b, m)}}
<1> DEFINE settled == {<<a, n, "settled">> : a \in req[p].acct,
                                             n \in {m \in Numbers : \A b \in req[p].acct : Settled(b, m)}}
           S == {s \in Sids : sess[s].acct = req[p].acct}
<1>1. /\ req[p].pc = "signout" /\ UNCHANGED <<slots, idp, known, issued, now, entitled, removed>> /\ Return(p)
      /\ sess' = [s \in Sids |-> IF sess[s].acct = req[p].acct THEN NoSession ELSE sess[s]]
      /\ ended' = ended \cup Ended(p, Numbers, "signout") \cup settled
  BY DEF RevokeSessions, At
<1>2. /\ issued' = issued /\ made' = made /\ issued \in Nat /\ req[p].kind = "signout" /\ req \in [Procs -> Reqs]
      /\ req[p] \in Reqs
  BY <1>1, StepKinds DEF slots, TypeInv, SessOK, ReqOK
<1>3. Ends(p)
  BY <1>1, <1>2, ReturnEnds
<1>4. ReqOK'
  BY <1>2, <1>3, EndsSound DEF TypeInv
<1>5. SessOK'
  <2>1. sess' = [s \in Sids |-> IF s \in S THEN NoSession ELSE sess[s]]
    BY <1>1
  <2> QED BY <1>2, <2>1, SessDeleted DEF TypeInv
<1>6. settled \subseteq Accounts \X Numbers \X Endings
  BY <1>2 DEF Reqs, Endings
<1> HIDE DEF settled
<1>7. HistOK'
  BY <1>1, <1>6, EndedType DEF TypeInv, HistOK, Endings
<1>8. SlotsOK' /\ IdpOK' /\ RestOK'
  BY <1>1, SlotsStay, IdpStays, RestStays DEF TypeInv
<1>9. \A s \in Sids : sess'[s] = IF sess[s].acct = req[p].acct THEN NoSession ELSE sess[s]
  BY <1>1
<1> QED BY <1>1, <1>2, <1>3, <1>4, <1>5, <1>7, <1>8, <1>9 DEF TypeInv, settled

LEMMA LogoutFacts ==
  ASSUME TypeInv, NEW s \in Sids, Logout(s)
  PROVE  /\ TypeInv' /\ UNCHANGED <<slots, idp, known, issued, req, now, history>>
         /\ \A r \in Sids : sess'[r] = IF r \in {s} THEN NoSession ELSE sess[r]
<1>1. /\ UNCHANGED <<slots, idp, known, issued, req, now, history>> /\ sess' = [sess EXCEPT ![s] = NoSession]
  BY DEF Logout
<1>2. sess' = [r \in Sids |-> IF r \in {s} THEN NoSession ELSE sess[r]]
  BY <1>1 DEF TypeInv, SessOK
<1>3. SessOK'
  BY <1>1, <1>2, SessDeleted DEF TypeInv
<1>4. ReqOK'
  BY <1>1 DEF TypeInv, ReqOK, OneCreate, slots
<1> QED BY <1>1, <1>2, <1>3, <1>4, SlotsStay, IdpStays, RestStays, HistStays DEF TypeInv

LEMMA PurgeFacts ==
  ASSUME TypeInv, PurgeExpiredSessions
  PROVE  /\ TypeInv' /\ UNCHANGED <<slots, idp, known, issued, req, now, history>>
         /\ \A r \in Sids : sess'[r] = NoSession \/ sess'[r] = sess[r]
<1> DEFINE S == {s \in Sids : ~Live(s)}
<1>1. /\ UNCHANGED <<slots, idp, known, issued, req, now, history>>
      /\ sess' = [s \in Sids |-> IF Live(s) THEN sess[s] ELSE NoSession]
  BY DEF PurgeExpiredSessions
<1>2. sess' = [r \in Sids |-> IF r \in S THEN NoSession ELSE sess[r]]
  BY <1>1
<1>3. SessOK'
  BY <1>1, <1>2, SessDeleted DEF TypeInv
<1>4. ReqOK'
  BY <1>1 DEF TypeInv, ReqOK, OneCreate, slots
<1> QED BY <1>1, <1>2, <1>3, <1>4, SlotsStay, IdpStays, RestStays, HistStays DEF TypeInv

-----------------------------------------------------------------------------
(* Rows and Roles of the Numbers *)

LEMMA DeleteRowFacts ==
  ASSUME TypeInv, NEW p \in Procs, DeleteRow(p)
  PROVE  /\ TypeInv' /\ UNCHANGED <<idp, known, sess, issued, made, now, history>>
         /\ req[p].pc = "unrow" /\ req[p].kind = "delete" /\ Goes(p, "sread") /\ req[p].n \in Numbers
         /\ world' = [world EXCEPT ![req[p].n] = 0] /\ creator' = [creator EXCEPT ![req[p].n] = {}]
<1>1. /\ req[p].pc = "unrow" /\ UNCHANGED <<idp, known, sess, issued, made, now, history>> /\ Goto(p, "sread")
      /\ world' = [world EXCEPT ![req[p].n] = 0] /\ creator' = [creator EXCEPT ![req[p].n] = {}]
  BY DEF DeleteRow, At
<1>2. /\ issued' = issued /\ made' = made /\ req \in [Procs -> Reqs]
      /\ req[p].kind = "delete" /\ req[p].n \in Numbers
  BY <1>1, StepKinds DEF TypeInv, ReqOK, SoundReq
<1>3. Goes(p, "sread")
  BY <1>1, <1>2, GotoGoes DEF Pcs
<1>4. ReqOK'
  BY <1>2, <1>3, GoesSound DEF Pcs, StepsOf, TypeInv
<1>5. SlotsOK'
  <2>1. 0 \in Worlds
    BY AccessAssumption DEF Worlds
  <2> QED BY <1>1, <1>2, <2>1 DEF SlotsOK, TypeInv
<1> QED BY <1>1, <1>2, <1>3, <1>4, <1>5, IdpStays, SessStay, RestStays, HistStays DEF TypeInv

LEMMA RemoveRoleFacts ==
  ASSUME TypeInv, NEW p \in Procs, RemoveRole(p)
  PROVE  /\ TypeInv' /\ UNCHANGED <<slots, known, sess, issued, now, history>>
         /\ req[p].pc \in {"unrole", "undo"} /\ Ends(p) /\ req[p].n \in Numbers
         /\ \/ /\ roleKeys' = roleKeys \ {req[p].n}
               /\ \A a \in Accounts : auth'[a] = auth[a] \ {req[p].n}
            \/ UNCHANGED idp
<1>1. /\ req[p].pc \in {"unrole", "undo"} /\ UNCHANGED <<slots, known, sess, issued, now, history>> /\ Return(p)
      /\ \/ roleKeys' = roleKeys \ {req[p].n} /\ auth' = [a \in Accounts |-> auth[a] \ {req[p].n}]
         \/ UNCHANGED idp
  BY DEF RemoveRole
<1>2. /\ issued' = issued /\ made' = made /\ issued \in Nat /\ req \in [Procs -> Reqs] /\ req[p].n \in Numbers
  BY <1>1, StepKinds DEF slots, TypeInv, SessOK, ReqOK, SoundReq
<1>3. Ends(p)
  BY <1>1, <1>2, ReturnEnds
<1>4. ReqOK'
  BY <1>2, <1>3, EndsSound DEF TypeInv
<1>5. IdpOK'
  BY <1>1 DEF IdpOK, TypeInv, idp
<1>6. \/ roleKeys' = roleKeys \ {req[p].n} /\ \A a \in Accounts : auth'[a] = auth[a] \ {req[p].n}
      \/ UNCHANGED idp
  BY <1>1
<1> QED BY <1>1, <1>2, <1>3, <1>4, <1>5, <1>6, SlotsStay, SessStay, RestStays, HistStays DEF TypeInv

LEMMA AddRoleFacts ==
  ASSUME TypeInv, NEW p \in Procs, AddRole(p)
  PROVE  /\ TypeInv' /\ UNCHANGED <<slots, auth, known, sess, issued, now, history>>
         /\ req[p].pc = "addrole" /\ req[p].kind = "create" /\ req[p].n \in Numbers
         /\ \/ Ends(p) /\ UNCHANGED roleKeys
            \/ Goes(p, "row") /\ req[p].n \notin roleKeys /\ roleKeys' = roleKeys \cup {req[p].n}
<1>1. /\ req[p].pc = "addrole" /\ UNCHANGED <<slots, auth, known, sess, issued, now, history>>
      /\ \/ Return(p) /\ UNCHANGED roleKeys
         \/ Goto(p, "row") /\ req[p].n \notin roleKeys /\ roleKeys' = roleKeys \cup {req[p].n}
  BY DEF AddRole, At
<1>2. /\ issued' = issued /\ made' = made /\ issued \in Nat /\ req \in [Procs -> Reqs]
      /\ req[p].kind = "create" /\ req[p].n \in Numbers
  BY <1>1, StepKinds DEF slots, TypeInv, SessOK, ReqOK, SoundReq
<1>3. (Return(p) => Ends(p)) /\ (Goto(p, "row") => Goes(p, "row"))
  BY <1>2, ReturnEnds, GotoGoes DEF Pcs
<1>4. ReqOK'
  BY <1>1, <1>2, <1>3, EndsSound, GoesSound DEF Pcs, StepsOf, TypeInv
<1>5. IdpOK'
  BY <1>1, <1>2 DEF IdpOK, TypeInv
<1> QED BY <1>1, <1>2, <1>3, <1>4, <1>5, SlotsStay, SessStay, RestStays, HistStays DEF TypeInv

LEMMA InsertRowFacts ==
  ASSUME TypeInv, NEW p \in Procs, InsertRow(p)
  PROVE  /\ TypeInv' /\ UNCHANGED <<idp, known, sess, issued, now, ended, removed>>
         /\ req[p].pc = "row" /\ req[p].kind = "create" /\ req[p].n \in Numbers
         /\ \/ /\ Ends(p)
               /\ world' = [world EXCEPT ![req[p].n] = made + 1]
               /\ creator' = [creator EXCEPT ![req[p].n] = req[p].acct]
               /\ entitled' = entitled \cup (req[p].acct \X {made + 1})
            \/ Goes(p, "undo") /\ UNCHANGED <<slots, entitled>>
<1>1. /\ req[p].pc = "row" /\ UNCHANGED <<idp, known, sess, issued, now, ended, removed>>
      /\ \/ /\ world' = [world EXCEPT ![req[p].n] = made + 1]
            /\ creator' = [creator EXCEPT ![req[p].n] = req[p].acct]
            /\ made' = made + 1
            /\ entitled' = entitled \cup (req[p].acct \X {made + 1})
            /\ Return(p)
         \/ Goto(p, "undo") /\ UNCHANGED <<slots, entitled>>
  BY DEF InsertRow, At
<1>2. /\ issued' = issued /\ issued \in Nat /\ req \in [Procs -> Reqs] /\ req[p] \in Reqs
      /\ req[p].kind = "create" /\ req[p].n \in Numbers /\ made < MaxWorlds
  BY <1>1, StepKinds DEF TypeInv, SessOK, ReqOK, SoundReq
<1>3. IdpOK' /\ SessOK' /\ RestOK'
  BY <1>1, IdpStays, SessStay, RestStays DEF TypeInv
<1>4. CASE Return(p) /\ UNCHANGED removed
            /\ world' = [world EXCEPT ![req[p].n] = made + 1]
            /\ creator' = [creator EXCEPT ![req[p].n] = req[p].acct]
            /\ made' = made + 1
            /\ entitled' = entitled \cup (req[p].acct \X {made + 1})
  <2>1. Ends(p)
    BY <1>2, <1>4, ReturnEnds
  <2>2. ReqOK'
    BY <1>2, <2>1, EndsSound DEF TypeInv
  <2>3. made + 1 \in Worlds /\ made + 1 \in 1 .. MaxWorlds
    BY <1>2, AccessAssumption DEF TypeInv, SlotsOK, Worlds
  <2>4. req[p].acct \in SUBSET Accounts
    BY <1>2 DEF Reqs
  <2>5. SlotsOK'
    BY <1>2, <1>4, <2>3, <2>4 DEF SlotsOK, TypeInv
  <2>6. HistOK'
    <3>1. req[p].acct \X {made + 1} \subseteq Accounts \X (1 .. MaxWorlds)
      BY <2>3, <2>4
    <3> QED BY <1>1, <1>4, <3>1 DEF HistOK, TypeInv
  <2> QED BY <1>1, <1>2, <1>3, <1>4, <2>1, <2>2, <2>5, <2>6 DEF TypeInv
<1>5. CASE Goto(p, "undo") /\ UNCHANGED <<slots, entitled>>
  <2>1. Goes(p, "undo")
    BY <1>2, <1>5, GotoGoes DEF Pcs
  <2>2. ReqOK'
    BY <1>2, <1>5, <2>1, GoesSound DEF Pcs, StepsOf, TypeInv, slots
  <2>3. SlotsOK' /\ HistOK'
    BY <1>1, <1>5, SlotsStay, HistStays DEF TypeInv, history
  <2> QED BY <1>1, <1>2, <1>3, <1>5, <2>1, <2>2, <2>3 DEF TypeInv
<1> QED BY <1>1, <1>4, <1>5

LEMMA RemovedInZitadelFacts ==
  ASSUME TypeInv, NEW a \in Accounts, NEW n \in Numbers, RemovedInZitadel(a, n)
  PROVE  /\ TypeInv' /\ UNCHANGED <<slots, roleKeys, known, sess, issued, req, now, entitled, ended>>
         /\ auth' = [auth EXCEPT ![a] = auth[a] \ {n}]
<1>1. /\ UNCHANGED <<slots, roleKeys, known, sess, issued, req, now, entitled, ended>>
      /\ auth' = [auth EXCEPT ![a] = auth[a] \ {n}] /\ removed' = [removed EXCEPT ![a][n] = now]
  BY DEF RemovedInZitadel
<1>2. IdpOK'
  BY <1>1 DEF IdpOK, TypeInv
<1>3. HistOK'
  <2>1. now \in 0 .. Never
    BY AccessAssumption DEF TypeInv, RestOK, Never
  <2>2. removed \in [Accounts -> [Numbers -> 0 .. Never]] /\ removed[a] \in [Numbers -> 0 .. Never]
    BY DEF TypeInv, HistOK
  <2>3. removed' \in [Accounts -> [Numbers -> 0 .. Never]]
    <3>1. [removed[a] EXCEPT ![n] = now] \in [Numbers -> 0 .. Never]
      BY <2>1, <2>2
    <3>2. removed' = [removed EXCEPT ![a] = [removed[a] EXCEPT ![n] = now]]
      BY <1>1, <2>2
    <3> QED BY <2>2, <3>1, <3>2
  <2> QED BY <1>1, <2>3 DEF HistOK, TypeInv
<1>4. ReqOK'
  BY <1>1 DEF TypeInv, ReqOK, OneCreate, slots
<1> QED BY <1>1, <1>2, <1>3, <1>4, SlotsStay, SessStay, RestStays DEF TypeInv

LEMMA TickFacts ==
  ASSUME TypeInv, Tick
  PROVE  /\ TypeInv' /\ UNCHANGED <<slots, idp, known, sess, issued, req, history>>
         /\ now \in Nat /\ now' = now + 1
<1>1. UNCHANGED <<slots, idp, known, sess, issued, req, history>> /\ now < MaxTime /\ now' = now + 1
  BY DEF Tick
<1>2. now \in Nat /\ now' \in 0 .. MaxTime /\ known' = known
  BY <1>1, AccessAssumption DEF TypeInv, RestOK
<1>3. ReqOK'
  BY <1>1 DEF TypeInv, ReqOK, OneCreate, slots
<1>4. RestOK'
  BY <1>2 DEF RestOK, TypeInv
<1> QED BY <1>1, <1>2, <1>3, <1>4, SlotsStay, IdpStays, SessStay, HistStays DEF TypeInv

(* Only a Tick or nothing at all. *)
LEMMA StutterFacts ==
  ASSUME TypeInv, UNCHANGED vars
  PROVE  TypeInv'
<1>1. UNCHANGED <<slots, idp, known, sess, issued, req, now, history>>
  BY DEF vars, slots, idp, history
<1>2. ReqOK'
  BY <1>1 DEF TypeInv, ReqOK, OneCreate, slots
<1> QED BY <1>1, <1>2, SlotsStay, IdpStays, SessStay, RestStays, HistStays DEF TypeInv

-----------------------------------------------------------------------------
(* Type correctness *)

LEMMA TypeInit == Init => TypeInv
<1> SUFFICES ASSUME Init PROVE TypeInv
  OBVIOUS
<1>1. IdpOK /\ RestOK
  BY AccessAssumption DEF Init, IdpOK, RestOK
<1>2. SlotsOK
  <2>1. MaxInstances \in Worlds /\ \A n \in Numbers : n \in Worlds
    BY AccessAssumption DEF Worlds, Numbers
  <2> QED BY <2>1 DEF Init, SlotsOK
<1>3. issued \in 0 .. MaxSessions /\ (SignedIn # {} => issued = 1)
  <2>1. CASE SignedIn = {}
    <3>1. Cardinality({}) = 0
      BY FS_EmptySet
    <3> QED BY <2>1, <3>1, AccessAssumption DEF Init
  <2>2. ASSUME NEW a \in Accounts, SignedIn = {a}, MaxSessions > 0
        PROVE  issued \in 0 .. MaxSessions /\ issued = 1
    <3>1. Cardinality({a}) = 1
      BY FS_Singleton
    <3> QED BY <2>2, <3>1, AccessAssumption DEF Init
  <2> QED BY <2>1, <2>2, AccessAssumption
<1>4. SessOK
  <2>1. PICK left \in 1 .. SessionTTL :
          sess = [s \in Sids |-> IF s = 1 /\ SignedIn # {}
                    THEN [acct |-> SignedIn, roles |-> UNION {auth[a] : a \in SignedIn}, exp |-> left]
                    ELSE NoSession]
    BY DEF Init
  <2> DEFINE c == [acct |-> SignedIn, roles |-> UNION {auth[a] : a \in SignedIn}, exp |-> left]
  <2>2. left \in 0 .. MaxTime + SessionTTL /\ 0 \in 0 .. MaxTime + SessionTTL
    BY AccessAssumption
  <2>3. SignedIn \in SUBSET Accounts
    BY AccessAssumption
  <2>4. UNION {auth[a] : a \in SignedIn} \in SUBSET Numbers
    BY <1>1, <2>3 DEF IdpOK
  <2>5. c \in Sessions /\ c.acct = SignedIn
    BY <2>2, <2>3, <2>4 DEF Sessions
  <2>6. NoSession \in Sessions /\ NoSession.acct = {}
    BY <2>2 DEF NoSession, Sessions
  <2> HIDE DEF c
  <2>7. sess = [s \in Sids |-> IF s = 1 /\ SignedIn # {} THEN c ELSE NoSession]
    BY <2>1 DEF c
  <2>8. sess \in [Sids -> Sessions]
    BY <2>5, <2>6, <2>7
  <2>9. \A s \in Sids : s > issued \/ sess[s].acct = {} => sess[s] = NoSession
    BY <1>3, <2>5, <2>7 DEF Sids
  <2> QED BY <1>3, <2>8, <2>9 DEF SessOK
<1>5. ReqOK
  <2>1. req = [p \in Procs |-> Idle]
    BY DEF Init
  <2>2. SoundReq(Idle, issued, made)
    BY IdleIsAReq DEF SoundReq, StepsOf
  <2> QED BY <2>1, <2>2, IdleIsAReq DEF ReqOK, OneCreate
<1>6. HistOK
  <2>1. Never \in 0 .. Never
    BY AccessAssumption DEF Never
  <2> QED BY <2>1 DEF Init, HistOK
<1> QED BY <1>1, <1>2, <1>4, <1>5, <1>6 DEF TypeInv

LEMMA TypeStep == TypeInv /\ [Next]_vars => TypeInv'
<1> SUFFICES ASSUME TypeInv, [Next]_vars PROVE TypeInv'
  OBVIOUS
<1>1. ASSUME NEW p \in Procs, Request(p) PROVE TypeInv'
  <2>1. PICK kind \in Kinds \cap AllKinds, A \in {{}} \cup {{a} : a \in Accounts}, n \in Numbers \cup {0},
             s \in Sids \cup {0} : Begin(p, kind, A, n, s)
    BY <1>1 DEF Request
  <2>2. kind \in AllKinds
    OBVIOUS
  <2> QED BY <2>1, <2>2, BeginFacts
<1>2. ASSUME NEW p \in Procs, Step(p) PROVE TypeInv'
  <2>1. RequireAccount(p) => TypeInv'
    BY RequireAccountFacts
  <2>2. AuthorizationFor(p) => TypeInv'
    BY AuthorizationForFacts
  <2>3. UpdateAuthorization(p) => TypeInv'
    BY UpdateAuthorizationFacts
  <2>4. ReadSessionRoles(p) => TypeInv'
    BY ReadSessionRolesFacts
  <2>5. WriteSessionRoles(p) => TypeInv'
    BY WriteSessionRolesFacts
  <2>6. Exchange(p) => TypeInv'
    BY ExchangeFacts
  <2>7. RecordSignIn(p) => TypeInv'
    BY RecordSignInFacts
  <2>8. CreateSession(p) => TypeInv'
    BY CreateSessionFacts
  <2>9. LoadSession(p) => TypeInv'
    BY LoadSessionFacts
  <2>10. TouchSession(p) => TypeInv'
    BY TouchSessionFacts
  <2>11. RevokeSessions(p) => TypeInv'
    BY RevokeSessionsFacts
  <2>12. DeleteRow(p) => TypeInv'
    BY DeleteRowFacts
  <2>13. RemoveRole(p) => TypeInv'
    BY RemoveRoleFacts
  <2>14. AddRole(p) => TypeInv'
    BY AddRoleFacts
  <2>15. InsertRow(p) => TypeInv'
    BY InsertRowFacts
  <2> QED BY <1>2, <2>1, <2>2, <2>3, <2>4, <2>5, <2>6, <2>7, <2>8, <2>9, <2>10, <2>11, <2>12, <2>13, <2>14, <2>15 DEF Step
<1> QED BY <1>1, <1>2, LogoutFacts, RemovedInZitadelFacts, PurgeFacts, TickFacts, StutterFacts DEF Next

(* Type correctness: every row, Role and request is what its declaration    *)
(* says, only sessions that were issued and not deleted have a row, and no  *)
(* update or renewal still under way brings one of them back                *)
(* (mutateSessionRoles, TouchSession).                                      *)
THEOREM AccessTypeCorrect == Spec => []AccessTypeOK
<1>1. Spec => []TypeInv
  BY TypeInit, TypeStep, PTL DEF Spec
<1> QED BY <1>1, TypeParts, PTL

-----------------------------------------------------------------------------
(* The end of access at a sign-out everywhere *)

(* Nothing the request r of Account a carries brings Role n back. *)
CarriesNot(r, a, n) ==
  r.acct = {a} =>
    /\ r.kind = "signin" => n \notin r.roles
    /\ r.kind = "grant" => r.n # n
    /\ r.kind \in {"grant", "revoke"} /\ r.pc = "gwrite" => n \notin r.roles

(* Account a is without Role n: in Zitadel, in its sessions, in the updates *)
(* of its sessions still to run, and in what its requests carry.            *)
GoneFrom(a, n) ==
  /\ n \notin auth[a]
  /\ \A p \in Procs : CarriesNot(req[p], a, n)
  /\ \A s \in Sids : sess[s].acct = {a} => n \notin sess[s].roles
  /\ \A p \in Procs : \A t \in req[p].todo : sess[t[1]].acct = {a} => n \notin t[2]

EndInv == \A a \in Accounts, n \in Numbers : <<a, n, "settled">> \in ended => GoneFrom(a, n)

LEMMA EndInvImplies == EndInv => AccessEndsAtSignOut
BY DEF EndInv, GoneFrom, AccessEndsAtSignOut, StaysEnded

(* The announcement of another ending is not a sign-out. *)
LEMMA OtherEndings ==
  ASSUME NEW p, NEW S, NEW how \in {"revoke", "signout"}, NEW a, NEW n,
         <<a, n, "settled">> \in ended \cup Ended(p, S, how)
  PROVE  <<a, n, "settled">> \in ended
BY DEF Ended

(* A request moves, the tables change: what may come back is in the request *)
(* that moved and in the rows that changed.                                 *)
LEMMA GoneStays ==
  ASSUME NEW a \in Accounts, NEW n \in Numbers, GoneFrom(a, n), NEW p \in Procs, Others(p),
         n \notin auth'[a], CarriesNot(req'[p], a, n),
         \A s \in Sids : sess'[s].acct = {a} => n \notin sess'[s].roles,
         \A q \in Procs \ {p} : \A t \in req[q].todo : sess'[t[1]].acct = {a} => sess[t[1]].acct = {a},
         \A t \in req'[p].todo : sess'[t[1]].acct = {a} => n \notin t[2]
  PROVE  GoneFrom(a, n)'
<1>1. \A q \in Procs : CarriesNot(req'[q], a, n)
  BY DEF GoneFrom, Others
<1>2. ASSUME NEW q \in Procs, NEW t \in req'[q].todo, sess'[t[1]].acct = {a} PROVE n \notin t[2]
  BY <1>2 DEF GoneFrom, Others
<1> QED BY <1>1, <1>2 DEF GoneFrom, CarriesNot

(* A request ends, or goes on carrying what it carried. *)
LEMMA GoneCarried ==
  ASSUME NEW a \in Accounts, NEW n \in Numbers, GoneFrom(a, n), NEW p \in Procs,
         UNCHANGED sess, n \notin auth'[a],
         \/ Ends(p)
         \/ \E pc \in Pcs \ {"gwrite"} : Moves(p, pc) /\ req'[p].roles = req[p].roles /\ req'[p].todo \subseteq req[p].todo
  PROVE  GoneFrom(a, n)'
<1>1. Others(p)
  BY DEF Ends, Moves
<1>2. CarriesNot(req'[p], a, n)
  BY IdleIsAReq DEF Ends, Moves, GoneFrom, CarriesNot
<1>3. req'[p].todo \subseteq req[p].todo
  BY IdleIsAReq DEF Ends
<1> QED BY <1>1, <1>2, <1>3, GoneStays DEF GoneFrom

(* Rows are deleted. *)
LEMMA GoneDeleted ==
  ASSUME NEW a \in Accounts, NEW n \in Numbers, GoneFrom(a, n), UNCHANGED <<auth, req>>, TypeInv,
         \A s \in Sids : sess'[s] = NoSession \/ sess'[s] = sess[s]
  PROVE  GoneFrom(a, n)'
<1>1. NoSession.acct = {}
  BY DEF NoSession
<1>2. \A p \in Procs : \A t \in req[p].todo : t[1] \in Sids
  BY DEF TypeInv, ReqOK, Reqs
<1>3. \A s \in Sids : sess'[s].acct = {a} => sess'[s] = sess[s]
  BY <1>1
<1> QED BY <1>2, <1>3 DEF GoneFrom, CarriesNot

LEMMA EndInit == Init => EndInv
BY DEF Init, EndInv

LEMMA EndBegin ==
  ASSUME TypeInv, EndInv, NEW p \in Procs, NEW kind \in AllKinds, NEW A \in {{}} \cup {{a} : a \in Accounts},
         NEW n \in Numbers \cup {0}, NEW s \in Sids \cup {0}, Begin(p, kind, A, n, s)
  PROVE  EndInv'
<1> SUFFICES ASSUME NEW a \in Accounts, NEW m \in Numbers, <<a, m, "settled">> \in ended' PROVE GoneFrom(a, m)'
  BY DEF EndInv
<1>1. /\ Others(p) /\ UNCHANGED <<idp, sess>> /\ req'[p].kind = kind /\ req'[p].pc = FirstPc(kind)
      /\ req'[p].acct = A /\ req'[p].n = n /\ req'[p].roles = {} /\ req'[p].todo = {}
      /\ ended' = IF kind = "grant" THEN ended \ (A \X {n} \X Endings) ELSE ended
  BY BeginFacts
<1>2. GoneFrom(a, m)
  BY <1>1 DEF EndInv
<1>3. kind = "grant" /\ A = {a} => n # m
  BY <1>1 DEF Endings
<1>4. CarriesNot(req'[p], a, m)
  BY <1>1, <1>3 DEF CarriesNot
<1> QED BY <1>1, <1>2, <1>4, GoneStays DEF GoneFrom, idp

LEMMA EndGrant ==
  ASSUME TypeInv, EndInv, NEW p \in Procs, RequireAccount(p) \/ AuthorizationFor(p) \/ UpdateAuthorization(p)
  PROVE  EndInv'
<1> SUFFICES ASSUME NEW a \in Accounts, NEW n \in Numbers, <<a, n, "settled">> \in ended' PROVE GoneFrom(a, n)'
  BY DEF EndInv
<1>1. CASE RequireAccount(p)
  <2>1. UNCHANGED <<idp, sess, history>> /\ (Goes(p, "gread") \/ Ends(p))
    BY <1>1, RequireAccountFacts
  <2>2. GoneFrom(a, n)
    BY <2>1 DEF EndInv, history
  <2> QED BY <2>1, <2>2, GoneCarried DEF Goes, Pcs, GoneFrom, idp
<1>2. CASE AuthorizationFor(p)
  <2>1. /\ UNCHANGED <<idp, sess, history>>
        /\ \/ Ends(p)
           \/ /\ Moves(p, "gwrite") /\ req'[p].todo = req[p].todo
              /\ \E b \in Accounts : For(p, b) /\ req'[p].roles = auth[b]
    BY <1>2, AuthorizationForFacts
  <2>2. GoneFrom(a, n)
    BY <2>1 DEF EndInv, history
  <2>3. CASE Ends(p)
    BY <2>1, <2>2, <2>3, GoneCarried DEF GoneFrom, idp
  <2>4. ASSUME NEW b \in Accounts, For(p, b), req'[p].roles = auth[b], Moves(p, "gwrite"), req'[p].todo = req[p].todo
        PROVE  GoneFrom(a, n)'
    <3>1. CarriesNot(req'[p], a, n)
      BY <2>2, <2>4 DEF CarriesNot, GoneFrom, Moves, For
    <3> QED BY <2>1, <2>2, <2>4, <3>1, GoneStays DEF Moves, GoneFrom, idp
  <2> QED BY <2>1, <2>3, <2>4
<1>3. CASE UpdateAuthorization(p)
  <2>1. /\ UNCHANGED <<sess, ended>> /\ req[p].pc = "gwrite"
        /\ \/ Ends(p) /\ UNCHANGED auth
           \/ Goes(p, "sread") /\ UNCHANGED auth
           \/ /\ Goes(p, "sread")
              /\ \E b \in Accounts : For(p, b) /\ auth' = [auth EXCEPT ![b] = NewKeys(p)]
    BY <1>3, UpdateAuthorizationFacts
  <2>2. GoneFrom(a, n) /\ auth \in [Accounts -> SUBSET Numbers] /\ req[p].kind \in {"grant", "revoke"}
    BY <2>1, StepKinds DEF EndInv, TypeInv, IdpOK
  <2>3. n \notin auth'[a]
    <3>1. For(p, a) => n \notin NewKeys(p)
      BY <2>1, <2>2 DEF GoneFrom, CarriesNot, NewKeys, For
    <3>2. ASSUME NEW b \in Accounts, For(p, b), auth' = [auth EXCEPT ![b] = NewKeys(p)] PROVE n \notin auth'[a]
      BY <2>2, <3>1, <3>2 DEF GoneFrom
    <3> QED BY <2>1, <2>2, <3>2 DEF GoneFrom
  <2> QED BY <2>1, <2>2, <2>3, GoneCarried DEF Goes, Pcs
<1> QED BY <1>1, <1>2, <1>3

(* What follows the sessions carries nothing new. *)
LEMMA GoneAfter ==
  ASSUME NEW a \in Accounts, NEW n \in Numbers, GoneFrom(a, n), NEW p \in Procs, After(p), CarriesNot(req'[p], a, n),
         n \notin auth'[a], \A s \in Sids : sess'[s].acct = {a} => n \notin sess'[s].roles,
         \A q \in Procs \ {p} : \A t \in req[q].todo : sess'[t[1]].acct = {a} => sess[t[1]].acct = {a}
  PROVE  GoneFrom(a, n)'
<1>1. Others(p) /\ req'[p].todo = {}
  BY IdleIsAReq DEF After, Ends, Moves
<1> QED BY <1>1, GoneStays

LEMMA AfterCarries ==
  ASSUME NEW a, NEW n, NEW p \in Procs, After(p)
  PROVE  CarriesNot(req'[p], a, n)
BY IdleIsAReq DEF After, Ends, Moves, CarriesNot

LEMMA EndSessionRoles ==
  ASSUME TypeInv, EndInv, NEW p \in Procs, ReadSessionRoles(p) \/ WriteSessionRoles(p)
  PROVE  EndInv'
<1> SUFFICES ASSUME NEW a \in Accounts, NEW n \in Numbers, <<a, n, "settled">> \in ended' PROVE GoneFrom(a, n)'
  BY DEF EndInv
<1>1. CASE ReadSessionRoles(p)
  <2>1. /\ UNCHANGED <<idp, sess>> /\ ended' \in {ended, ended \cup Ended(p, {req[p].n}, "revoke")}
        /\ \/ /\ Moves(p, "swrite") /\ req'[p].roles = req[p].roles
              /\ \A t \in req'[p].todo : t[1] \in Concerned(p) /\ t[2] = NewRoles(p, sess[t[1]].roles)
           \/ After(p)
    BY <1>1, ReadSessionRolesFacts
  <2>2. GoneFrom(a, n)
    BY <2>1, OtherEndings DEF EndInv
  <2>3. CASE After(p)
    BY <2>1, <2>2, <2>3, AfterCarries, GoneAfter DEF GoneFrom, idp
  <2>4. CASE /\ Moves(p, "swrite") /\ req'[p].roles = req[p].roles
             /\ \A t \in req'[p].todo : t[1] \in Concerned(p) /\ t[2] = NewRoles(p, sess[t[1]].roles)
    <3>1. Others(p) /\ CarriesNot(req'[p], a, n)
      BY <2>2, <2>4 DEF Moves, GoneFrom, CarriesNot
    <3>2. ASSUME NEW t \in req'[p].todo, sess[t[1]].acct = {a} PROVE n \notin t[2]
      <4>1. n \notin sess[t[1]].roles /\ (req[p].kind = "grant" => req[p].acct = {a})
        BY <2>2, <2>4, <3>2 DEF GoneFrom, Concerned
      <4>2. req[p].kind = "grant" => req[p].n # n
        BY <2>2, <4>1 DEF GoneFrom, CarriesNot
      <4> QED BY <2>4, <4>1, <4>2 DEF NewRoles
    <3> QED BY <2>1, <2>2, <3>1, <3>2, GoneStays DEF GoneFrom, idp
  <2> QED BY <2>1, <2>3, <2>4
<1>2. CASE WriteSessionRoles(p)
  <2>1. /\ UNCHANGED idp /\ ended' \in {ended, ended \cup Ended(p, {req[p].n}, "revoke")}
        /\ \/ /\ \E t \in req[p].todo :
                   /\ \A s \in Sids \ {t[1]} : sess'[s] = sess[s]
                   /\ t[1] \in Sids /\ sess'[t[1]].acct = sess[t[1]].acct
                   /\ sess'[t[1]].roles = IF sess[t[1]].acct = {} THEN sess[t[1]].roles ELSE t[2]
                   /\ \/ Moves(p, "swrite") /\ req'[p].roles = req[p].roles /\ req'[p].todo = req[p].todo \ {t}
                      \/ After(p)
           \/ After(p) /\ UNCHANGED sess
    BY <1>2, WriteSessionRolesFacts
  <2>2. GoneFrom(a, n)
    BY <2>1, OtherEndings DEF EndInv
  <2>3. CASE After(p) /\ UNCHANGED sess
    BY <2>1, <2>2, <2>3, AfterCarries, GoneAfter DEF GoneFrom, idp
  <2>4. ASSUME NEW t \in req[p].todo, \A s \in Sids \ {t[1]} : sess'[s] = sess[s],
               t[1] \in Sids, sess'[t[1]].acct = sess[t[1]].acct,
               sess'[t[1]].roles = IF sess[t[1]].acct = {} THEN sess[t[1]].roles ELSE t[2],
               \/ Moves(p, "swrite") /\ req'[p].roles = req[p].roles /\ req'[p].todo = req[p].todo \ {t}
               \/ After(p)
        PROVE  GoneFrom(a, n)'
    <3>1. \A s \in Sids : sess'[s].acct = sess[s].acct
      BY <2>4
    <3>2. \A q \in Procs : \A u \in req[q].todo : u[1] \in Sids
      BY DEF TypeInv, ReqOK, Reqs
    <3>3. \A s \in Sids : sess'[s].acct = {a} => n \notin sess'[s].roles
      BY <2>2, <2>4, <3>1 DEF GoneFrom
    <3>4. CASE After(p)
      BY <2>1, <2>2, <3>1, <3>2, <3>3, <3>4, AfterCarries, GoneAfter DEF GoneFrom, idp
    <3>5. CASE Moves(p, "swrite") /\ req'[p].roles = req[p].roles /\ req'[p].todo = req[p].todo \ {t}
      <4>1. Others(p) /\ CarriesNot(req'[p], a, n)
        BY <2>2, <3>5 DEF Moves, GoneFrom, CarriesNot
      <4>2. \A u \in req'[p].todo : sess'[u[1]].acct = {a} => n \notin u[2]
        BY <2>2, <3>1, <3>2, <3>5 DEF GoneFrom
      <4>3. n \notin auth'[a]
        BY <2>1, <2>2 DEF GoneFrom, idp
      <4> QED BY <2>2, <3>1, <3>2, <3>3, <4>1, <4>2, <4>3, GoneStays
    <3> QED BY <2>4, <3>4, <3>5
  <2> QED BY <2>1, <2>3, <2>4
<1> QED BY <1>1, <1>2

LEMMA EndSessions ==
  ASSUME TypeInv, EndInv, NEW p \in Procs,
         Exchange(p) \/ RecordSignIn(p) \/ CreateSession(p) \/ LoadSession(p) \/ TouchSession(p)
  PROVE  EndInv'
<1> SUFFICES ASSUME NEW a \in Accounts, NEW n \in Numbers, <<a, n, "settled">> \in ended' PROVE GoneFrom(a, n)'
  BY DEF EndInv
<1>0. GoneFrom(a, n)
  BY ExchangeFacts, RecordSignInFacts, CreateSessionFacts, LoadSessionFacts, TouchSessionFacts DEF EndInv, history
<1>1. CASE Exchange(p)
  <2>1. /\ UNCHANGED <<idp, sess>>
        /\ \/ Ends(p)
           \/ /\ Moves(p, "record") /\ req'[p].todo = req[p].todo
              /\ \E b \in Accounts : For(p, b) /\ req'[p].roles = auth[b]
    BY <1>1, ExchangeFacts
  <2>2. CASE Ends(p)
    BY <1>0, <2>1, <2>2, GoneCarried DEF GoneFrom, idp
  <2>3. ASSUME NEW b \in Accounts, For(p, b), req'[p].roles = auth[b], Moves(p, "record"), req'[p].todo = req[p].todo
        PROVE  GoneFrom(a, n)'
    <3>1. CarriesNot(req'[p], a, n)
      BY <1>0, <2>3 DEF CarriesNot, GoneFrom, Moves, For
    <3> QED BY <1>0, <2>1, <2>3, <3>1, GoneStays DEF Moves, GoneFrom, idp
  <2> QED BY <2>1, <2>2, <2>3
<1>2. CASE RecordSignIn(p)
  <2>1. UNCHANGED <<idp, sess>> /\ Goes(p, "session")
    BY <1>2, RecordSignInFacts
  <2> QED BY <1>0, <2>1, GoneCarried DEF Goes, Pcs, GoneFrom, idp
<1>3. CASE CreateSession(p)
  <2>1. /\ UNCHANGED idp /\ Ends(p) /\ req[p].kind = "signin"
        /\ \/ /\ issued + 1 \in Sids /\ sess'[issued + 1].acct = req[p].acct
              /\ sess'[issued + 1].roles = req[p].roles
              /\ \A s \in Sids \ {issued + 1} : sess'[s] = sess[s]
           \/ UNCHANGED sess
    BY <1>3, CreateSessionFacts
  <2>2. Others(p) /\ req'[p].todo = {} /\ CarriesNot(req'[p], a, n)
    BY <2>1, IdleIsAReq DEF Ends, CarriesNot
  <2>3. \A s \in Sids : sess'[s].acct = {a} => n \notin sess'[s].roles
    BY <1>0, <2>1 DEF GoneFrom, CarriesNot
  <2>4. ASSUME NEW q \in Procs, NEW t \in req[q].todo PROVE sess'[t[1]] = sess[t[1]]
    <3>1. t[1] \in Sids /\ t[1] <= issued /\ issued \in Nat
      BY DEF TypeInv, ReqOK, Reqs, SoundReq, SessOK
    <3>2. t[1] # issued + 1
      BY <3>1 DEF Sids
    <3> QED BY <2>1, <3>1, <3>2
  <2>5. n \notin auth'[a]
    BY <1>0, <2>1 DEF GoneFrom, idp
  <2>6. \A q \in Procs \ {p} : \A t \in req[q].todo : sess'[t[1]].acct = {a} => sess[t[1]].acct = {a}
    BY <2>4
  <2> QED BY <1>0, <2>2, <2>3, <2>5, <2>6, GoneStays
<1>4. CASE LoadSession(p)
  <2>1. UNCHANGED <<idp, sess>> /\ (Goes(p, "touch") \/ Ends(p))
    BY <1>4, LoadSessionFacts
  <2> QED BY <1>0, <2>1, GoneCarried DEF Goes, Pcs, GoneFrom, idp
<1>5. CASE TouchSession(p)
  <2>1. /\ UNCHANGED idp /\ Ends(p)
        /\ \A s \in Sids : sess'[s].acct = sess[s].acct /\ sess'[s].roles = sess[s].roles
    BY <1>5, TouchSessionFacts
  <2>2. Others(p) /\ req'[p].todo = {} /\ CarriesNot(req'[p], a, n)
    BY <2>1, IdleIsAReq DEF Ends, CarriesNot
  <2>3. \A q \in Procs : \A t \in req[q].todo : t[1] \in Sids
    BY DEF TypeInv, ReqOK, Reqs
  <2>4. n \notin auth'[a] /\ \A s \in Sids : sess'[s].acct = {a} => n \notin sess'[s].roles
    BY <1>0, <2>1 DEF GoneFrom, idp
  <2>5. \A q \in Procs \ {p} : \A t \in req[q].todo : sess'[t[1]].acct = {a} => sess[t[1]].acct = {a}
    BY <2>1, <2>3
  <2> QED BY <1>0, <2>2, <2>4, <2>5, GoneStays
<1> QED BY <1>1, <1>2, <1>3, <1>4, <1>5

LEMMA EndRevokeSessions ==
  ASSUME TypeInv, EndInv, NEW p \in Procs, RevokeSessions(p)
  PROVE  EndInv'
<1> SUFFICES ASSUME NEW a \in Accounts, NEW n \in Numbers, <<a, n, "settled">> \in ended' PROVE GoneFrom(a, n)'
  BY DEF EndInv
<1>1. /\ UNCHANGED idp /\ Ends(p) /\ req[p].kind = "signout"
      /\ \A s \in Sids : sess'[s] = IF sess[s].acct = req[p].acct THEN NoSession ELSE sess[s]
      /\ ended' = ended \cup Ended(p, Numbers, "signout")
           \cup {<<b, m, "settled">> : b \in req[p].acct,
                                       m \in {m \in Numbers : \A b \in req[p].acct : Settled(b, m)}}
  BY RevokeSessionsFacts
<1>2. Others(p) /\ req'[p].todo = {} /\ CarriesNot(req'[p], a, n)
  BY <1>1, IdleIsAReq DEF Ends, CarriesNot
<1>3. NoSession.acct = {}
  BY DEF NoSession
<1>4. \A q \in Procs : \A t \in req[q].todo : t[1] \in Sids
  BY DEF TypeInv, ReqOK, Reqs
<1>5. CASE <<a, n, "settled">> \in ended
  <2>1. GoneFrom(a, n)
    BY <1>5 DEF EndInv
  <2>2. \A s \in Sids : sess'[s].acct = {a} => sess'[s] = sess[s]
    BY <1>1, <1>3
  <2>3. n \notin auth'[a] /\ \A s \in Sids : sess'[s].acct = {a} => n \notin sess'[s].roles
    BY <1>1, <2>1, <2>2 DEF GoneFrom, idp
  <2>4. \A q \in Procs \ {p} : \A t \in req[q].todo : sess'[t[1]].acct = {a} => sess[t[1]].acct = {a}
    BY <1>4, <2>2
  <2> QED BY <1>2, <2>1, <2>3, <2>4, GoneStays
<1>6. CASE <<a, n, "settled">> \notin ended
  <2>1. req[p].acct = {a} /\ Settled(a, n)
    <3>1. <<a, n, "settled">> \notin ended \cup Ended(p, Numbers, "signout")
      BY <1>6, OtherEndings
    <3>2. a \in req[p].acct /\ \A b \in req[p].acct : Settled(b, n)
      BY <1>1, <3>1
    <3>3. \E b \in Accounts : req[p].acct = {b}
      BY <1>1 DEF TypeInv, ReqOK, SoundReq
    <3> QED BY <3>2, <3>3
  <2>2. \A s \in Sids : sess'[s].acct # {a}
    BY <1>1, <1>3, <2>1
  <2>3. \A q \in Procs : CarriesNot(req[q], a, n)
    BY <2>1 DEF Settled, For, CarriesNot
  <2>4. \A q \in Procs : CarriesNot(req'[q], a, n) /\ \A t \in req'[q].todo : t[1] \in Sids
    BY <1>2, <1>4, <2>3 DEF Others
  <2>5. n \notin auth'[a]
    BY <1>1, <2>1 DEF Settled, idp
  <2> QED BY <2>2, <2>4, <2>5 DEF GoneFrom, CarriesNot
<1> QED BY <1>5, <1>6

LEMMA EndNumbers ==
  ASSUME TypeInv, EndInv, NEW p \in Procs, DeleteRow(p) \/ RemoveRole(p) \/ AddRole(p) \/ InsertRow(p)
  PROVE  EndInv'
<1> SUFFICES ASSUME NEW a \in Accounts, NEW n \in Numbers, <<a, n, "settled">> \in ended' PROVE GoneFrom(a, n)'
  BY DEF EndInv
<1>1. /\ UNCHANGED <<sess, ended>> /\ \A b \in Accounts : auth'[b] \subseteq auth[b]
      /\ Ends(p) \/ \E pc \in {"sread", "row", "undo"} : Goes(p, pc)
  BY DeleteRowFacts, RemoveRoleFacts, AddRoleFacts, InsertRowFacts DEF history, idp
<1>2. GoneFrom(a, n)
  BY <1>1 DEF EndInv
<1>3. n \notin auth'[a]
  BY <1>1, <1>2 DEF GoneFrom
<1> QED BY <1>1, <1>2, <1>3, GoneCarried DEF Goes, Pcs

LEMMA EndStep == TypeInv /\ EndInv /\ [Next]_vars => EndInv'
<1> SUFFICES ASSUME TypeInv, EndInv, [Next]_vars PROVE EndInv'
  OBVIOUS
<1>1. ASSUME NEW p \in Procs, Request(p) PROVE EndInv'
  <2>1. PICK kind \in Kinds \cap AllKinds, A \in {{}} \cup {{a} : a \in Accounts}, n \in Numbers \cup {0},
             s \in Sids \cup {0} : Begin(p, kind, A, n, s)
    BY <1>1 DEF Request
  <2>2. kind \in AllKinds
    OBVIOUS
  <2> QED BY <2>1, <2>2, EndBegin
<1>2. ASSUME NEW p \in Procs, Step(p) PROVE EndInv'
  BY <1>2, EndGrant, EndSessionRoles, EndSessions, EndRevokeSessions, EndNumbers DEF Step
<1>3. ASSUME UNCHANGED <<auth, req, ended>>, \A s \in Sids : sess'[s] = NoSession \/ sess'[s] = sess[s] PROVE EndInv'
  BY <1>3, GoneDeleted DEF EndInv
<1>4. ASSUME NEW s \in Sids, Logout(s) PROVE EndInv'
  BY <1>3, <1>4, LogoutFacts DEF idp, history
<1>5. ASSUME NEW a \in Accounts, NEW n \in Numbers, RemovedInZitadel(a, n) PROVE EndInv'
  <2>1. UNCHANGED <<sess, req, ended>> /\ auth' = [auth EXCEPT ![a] = auth[a] \ {n}]
    BY <1>5, RemovedInZitadelFacts
  <2>2. \A b \in Accounts : auth'[b] \subseteq auth[b]
    BY <2>1 DEF TypeInv, IdpOK
  <2> QED BY <2>1, <2>2 DEF EndInv, GoneFrom, CarriesNot
<1>6. CASE PurgeExpiredSessions
  BY <1>3, <1>6, PurgeFacts DEF idp, history
<1>7. CASE Tick
  BY <1>3, <1>7, TickFacts DEF idp, history
<1>8. CASE UNCHANGED vars
  BY <1>3, <1>8 DEF vars
<1> QED BY <1>1, <1>2, <1>4, <1>5, <1>6, <1>7, <1>8 DEF Next

(* An Account that was signed out everywhere while it held a Role no more,  *)
(* with no sign-in or Grant under way to bring the Role back, operates the  *)
(* Number again only after the next Grant: no update, renewal or sign-in    *)
(* still in flight restores it (RevokeSessions, mutateSessionRoles,         *)
(* TouchSession, Callback).                                                 *)
THEOREM SignOutEndsAccess == Spec => []AccessEndsAtSignOut
<1>1. Init => TypeInv /\ EndInv
  BY TypeInit, EndInit
<1>2. TypeInv /\ EndInv /\ [Next]_vars => TypeInv' /\ EndInv'
  BY TypeStep, EndStep
<1>3. Spec => [](TypeInv /\ EndInv)
  BY <1>1, <1>2, PTL DEF Spec
<1> QED BY <1>3, EndInvImplies, PTL

-----------------------------------------------------------------------------
(* The reuse of Numbers, when requests come one after the other *)

(* Requests come one after the other, and the updates of the sessions table *)
(* that an access change asks for do not fail.                              *)
OneByOne == ~Concurrent /\ "sessions" \notin Faults

(* If Number n holds a world, Account a was granted that very world. *)
MayHold(a, n) == world[n] # 0 => <<a, world[n]>> \in entitled

RolesExist == \A a \in Accounts : auth[a] \subseteq roleKeys
RolesGranted == \A a \in Accounts : \A n \in auth[a] : MayHold(a, n)
CreatorsGranted == \A a \in Accounts, n \in Numbers : creator[n] = {a} => MayHold(a, n)
OneAccountEach == \A s \in Sids : sess[s].acct = {} \/ \E a \in Accounts : sess[s].acct = {a}

(* A session that lives, or that a renewal under way may bring back. *)
InUse(s) == Live(s) \/ \E p \in Procs : req[p].pc = "touch" /\ req[p].sid = s
SessionsGranted ==
  \A s \in Sids, a \in Accounts : sess[s].acct = {a} /\ InUse(s) => \A n \in sess[s].roles : MayHold(a, n)

TablesGranted == RolesExist /\ RolesGranted /\ CreatorsGranted /\ OneAccountEach /\ SessionsGranted

OneAtATime ==
  /\ \A p, q \in Procs : req[p].kind # "none" /\ req[q].kind # "none" => p = q
  /\ \A p \in Procs : req[p].kind = "none" => req[p].todo = {}

(* The Roles the request of p carries, and the Role it grants. *)
CarriedGranted(p) ==
  \A a \in Accounts : req[p].acct = {a} =>
    /\ req[p].kind = "signin" \/ req[p].pc = "gwrite" => \A n \in req[p].roles : MayHold(a, n)
    /\ req[p].kind = "grant" /\ req[p].pc \in {"sread", "swrite"} => MayHold(a, req[p].n)

(* Its updates of sessions still to run. *)
UpdatesGranted(p) ==
  \A t \in req[p].todo :
    /\ \A a \in Accounts : sess[t[1]].acct = {a} => \A n \in t[2] : MayHold(a, n)
    /\ req[p].kind = "create" => req[p].n \notin t[2]

(* A create first retires its Number from the live sessions, then mints its *)
(* Role, which no Account holds until the row is there.                     *)
Retired(p) ==
  req[p].kind = "create" =>
    /\ req[p].pc = "swrite" =>
         \A s \in Sids : Live(s) /\ req[p].n \in sess[s].roles => \E t \in req[p].todo : t[1] = s
    /\ req[p].pc \in {"addrole", "row"} => \A s \in Sids : Live(s) => req[p].n \notin sess[s].roles
    /\ req[p].pc = "row" => \A a \in Accounts : req[p].n \notin auth[a]

RequestGranted(p) == CarriedGranted(p) /\ UpdatesGranted(p) /\ Retired(p)

GrantInv == TablesGranted /\ OneAtATime /\ \A p \in Procs : RequestGranted(p)

LEMMA GrantInvImplies == TypeInv /\ GrantInv => AccessWasGranted
<1> SUFFICES ASSUME TypeInv, GrantInv, NEW s \in Sids, NEW n \in Numbers, CanOperate(s, n), world[n] # 0
             PROVE  \E a \in Accounts : sess[s].acct = {a} /\ <<a, world[n]>> \in entitled
  BY DEF AccessWasGranted
<1>1. Live(s) /\ (n \in sess[s].roles \/ creator[n] = sess[s].acct)
  BY DEF CanOperate
<1>2. PICK a \in Accounts : sess[s].acct = {a}
  BY <1>1 DEF Live, GrantInv, TablesGranted, OneAccountEach
<1>3. MayHold(a, n)
  BY <1>1, <1>2 DEF GrantInv, TablesGranted, SessionsGranted, InUse, CreatorsGranted
<1> QED BY <1>2, <1>3 DEF MayHold

(* A world that was granted stays so, as long as it keeps its Number. *)
LEMMA MayHoldStays ==
  ASSUME UNCHANGED world, entitled \subseteq entitled', NEW a, NEW n, MayHold(a, n)
  PROVE  MayHold(a, n)'
BY DEF MayHold

(* An idle goroutine asks for nothing. *)
LEMMA IdleIsGranted ==
  ASSUME NEW p \in Procs, req[p].kind = "none", req[p].pc = "idle", req[p].todo = {}
  PROVE  RequestGranted(p)
BY DEF RequestGranted, CarriedGranted, UpdatesGranted, Retired

LEMMA OthersIdle ==
  ASSUME TypeInv, GrantInv, NEW p \in Procs, req[p].pc # "idle"
  PROVE  \A q \in Procs \ {p} : req[q].kind = "none" /\ req[q].pc = "idle" /\ req[q].todo = {}
<1>1. \A q \in Procs : req[q].kind = "none" => req[q].pc = "idle"
  BY DEF TypeInv, ReqOK, SoundReq, StepsOf
<1> QED BY <1>1 DEF GrantInv, OneAtATime

(* The request of p took a step: it is enough to look at it and the tables. *)
LEMMA GrantMoved ==
  ASSUME NEW p \in Procs, Others(p), TablesGranted', RequestGranted(p)', req'[p].kind # "none" \/ req'[p].todo = {},
         \A q \in Procs \ {p} : req[q].kind = "none" /\ req[q].pc = "idle" /\ req[q].todo = {}
  PROVE  GrantInv'
<1>1. \A q \in Procs \ {p} : req'[q].kind = "none" /\ req'[q].pc = "idle" /\ req'[q].todo = {}
  BY DEF Others
<1>2. \A q \in Procs \ {p} : RequestGranted(q)'
  BY <1>1 DEF RequestGranted, CarriedGranted, UpdatesGranted, Retired
<1>3. OneAtATime'
  BY <1>1 DEF OneAtATime
<1> QED BY <1>2, <1>3 DEF GrantInv

LEMMA GrantEnded ==
  ASSUME TypeInv, GrantInv, NEW p \in Procs, req[p].pc # "idle", Ends(p), TablesGranted'
  PROVE  GrantInv'
<1>1. req'[p].kind = "none" /\ req'[p].pc = "idle" /\ req'[p].todo = {} /\ Others(p)
  BY IdleIsAReq DEF Ends
<1>2. RequestGranted(p)'
  BY <1>1 DEF RequestGranted, CarriedGranted, UpdatesGranted, Retired
<1> QED BY <1>1, <1>2, OthersIdle, GrantMoved

(* The tables lose rows and Roles only; a session comes into use that was. *)
LEMMA TablesShrink ==
  ASSUME TablesGranted, UNCHANGED <<world, creator>>, entitled \subseteq entitled',
         \A a \in Accounts : auth'[a] \subseteq auth[a] /\ auth'[a] \subseteq roleKeys',
         \A s \in Sids : \/ sess'[s].acct = {}
                         \/ sess'[s].acct = sess[s].acct /\ sess'[s].roles = sess[s].roles /\ (InUse(s)' => InUse(s))
  PROVE  TablesGranted'
<1>1. RolesExist' /\ OneAccountEach'
  BY DEF RolesExist, OneAccountEach, TablesGranted
<1>2. RolesGranted' /\ CreatorsGranted'
  BY MayHoldStays DEF RolesGranted, CreatorsGranted, TablesGranted
<1>3. SessionsGranted'
  <2> SUFFICES ASSUME NEW s \in Sids, NEW a \in Accounts, (sess[s].acct = {a} /\ InUse(s))', NEW n \in sess'[s].roles
               PROVE  MayHold(a, n)'
    BY DEF SessionsGranted
  <2>1. sess[s].acct = {a} /\ InUse(s) /\ n \in sess[s].roles
    OBVIOUS
  <2> QED BY <2>1, MayHoldStays DEF TablesGranted, SessionsGranted
<1> QED BY <1>1, <1>2, <1>3 DEF TablesGranted

(* Without a renewal that starts, sessions come into use by their row only. *)
LEMMA UseStays ==
  ASSUME TypeInv, NEW p \in Procs, Others(p), req'[p].pc # "touch", now' = now, NEW s \in Sids, sess'[s] = sess[s], InUse(s)'
  PROVE  InUse(s)
<1>1. Live(s)' => Live(s)
  BY DEF Live
<1>2. \A q \in Procs : req'[q].pc = "touch" => req'[q] = req[q]
  BY DEF Others
<1> QED BY <1>1, <1>2 DEF InUse

(* The tables stay as they are, but for Roles that go. *)
LEMMA TablesStay ==
  ASSUME TypeInv, GrantInv, NEW p \in Procs, Others(p), req'[p].pc # "touch", UNCHANGED <<world, creator, sess, now>>,
         entitled \subseteq entitled', \A a \in Accounts : auth'[a] \subseteq auth[a] /\ auth'[a] \subseteq roleKeys'
  PROVE  TablesGranted'
<1>1. \A s \in Sids : sess'[s] = sess[s] /\ (InUse(s)' => InUse(s))
  BY UseStays
<1> QED BY <1>1, TablesShrink DEF GrantInv

LEMMA GrantInit == ASSUME OneByOne, Init PROVE GrantInv
<1>1. RolesExist /\ CreatorsGranted
  BY DEF Init, RolesExist, CreatorsGranted
<1>2. \A a \in Accounts, n \in Numbers : n \in auth[a] => MayHold(a, n)
  <2>1. \A n \in Numbers : n \in 1 .. MaxWorlds /\ world[n] = n
    BY AccessAssumption DEF Init, Numbers
  <2> QED BY <2>1 DEF Init, MayHold
<1>3. RolesGranted
  BY <1>2 DEF Init, RolesGranted
<1>4. ASSUME NEW s \in Sids
      PROVE  \/ sess[s].acct = {}
             \/ \E a \in Accounts : sess[s].acct = {a} /\ \A n \in sess[s].roles : n \in auth[a]
  <2>1. PICK left \in 1 .. SessionTTL :
          sess = [r \in Sids |-> IF r = 1 /\ SignedIn # {}
                    THEN [acct |-> SignedIn, roles |-> UNION {auth[a] : a \in SignedIn}, exp |-> left]
                    ELSE NoSession]
    BY DEF Init
  <2>2. CASE s = 1 /\ SignedIn # {}
    <3>1. PICK a \in Accounts : SignedIn = {a}
      BY <2>2, AccessAssumption
    <3>2. sess[s].acct = {a} /\ sess[s].roles = UNION {auth[b] : b \in {a}}
      BY <2>1, <2>2, <3>1
    <3> QED BY <3>2
  <2>3. CASE ~(s = 1 /\ SignedIn # {})
    BY <2>1, <2>3 DEF NoSession
  <2> QED BY <2>2, <2>3
<1>5. OneAccountEach
  BY <1>4 DEF OneAccountEach
<1>6. SessionsGranted
  <2> SUFFICES ASSUME NEW s \in Sids, NEW a \in Accounts, sess[s].acct = {a}, NEW n \in sess[s].roles
               PROVE  MayHold(a, n)
    BY DEF SessionsGranted
  <2>1. n \in auth[a]
    BY <1>4
  <2> QED BY <1>2, <2>1 DEF Init
<1>7. \A p \in Procs : req[p].kind = "none" /\ req[p].pc = "idle" /\ req[p].todo = {}
  BY IdleIsAReq DEF Init
<1>8. OneAtATime
  BY <1>7 DEF OneAtATime
<1> QED BY <1>1, <1>3, <1>5, <1>6, <1>7, <1>8, IdleIsGranted DEF GrantInv, TablesGranted

LEMMA GrantBegin ==
  ASSUME OneByOne, TypeInv, GrantInv, NEW p \in Procs, NEW kind \in AllKinds,
         NEW A \in {{}} \cup {{a} : a \in Accounts}, NEW n \in Numbers \cup {0}, NEW s \in Sids \cup {0},
         Begin(p, kind, A, n, s)
  PROVE  GrantInv'
<1>1. /\ Others(p) /\ UNCHANGED <<slots, idp, sess, now, entitled>>
      /\ req'[p].kind = kind /\ req'[p].pc = FirstPc(kind) /\ req'[p].roles = {} /\ req'[p].todo = {}
      /\ \A q \in Procs : req[q].pc = "idle"
  BY BeginFacts DEF OneByOne
<1>2. \A q \in Procs : req[q].kind = "none" /\ req[q].todo = {}
  BY <1>1, StepKinds DEF TypeInv, GrantInv, OneAtATime
<1>3. req'[p].pc \in {"account", "gread", "signout", "exchange", "load", "sread", "unrow"}
      /\ (kind = "grant" => req'[p].pc = "account")
  BY <1>1 DEF FirstPc, AllKinds
<1>4. RequestGranted(p)'
  BY <1>1, <1>3 DEF RequestGranted, CarriedGranted, UpdatesGranted, Retired
<1>5. TablesGranted'
  BY <1>1, <1>3, TablesStay DEF slots, idp, GrantInv, TablesGranted, RolesExist
<1> QED BY <1>1, <1>2, <1>4, <1>5, GrantMoved

(* The request of p ends, or goes on, and the tables lose at most Roles. *)
LEMMA GrantQuiet ==
  ASSUME TypeInv, GrantInv, NEW p \in Procs, req[p].pc # "idle", UNCHANGED <<world, creator, sess, now, entitled>>,
         \A a \in Accounts : auth'[a] \subseteq auth[a] /\ auth'[a] \subseteq roleKeys',
         Ends(p)
  PROVE  GrantInv'
<1>1. Others(p) /\ req'[p].pc # "touch"
  BY IdleIsAReq DEF Ends
<1>2. TablesGranted'
  BY <1>1, TablesStay
<1> QED BY <1>2, GrantEnded

LEMMA GrantAuthorization ==
  ASSUME TypeInv, GrantInv, NEW p \in Procs, RequireAccount(p) \/ AuthorizationFor(p)
  PROVE  GrantInv'
<1>1. /\ UNCHANGED <<slots, idp, sess, now, history>> /\ req[p].pc \in {"account", "gread"}
      /\ \/ Ends(p)
         \/ Goes(p, "gread") /\ req[p].kind = "grant"
         \/ /\ Moves(p, "gwrite") /\ req'[p].todo = req[p].todo
            /\ \E a \in Accounts : For(p, a) /\ req'[p].roles = auth[a]
  <2>1. RequireAccount(p) => req[p].kind = "grant"
    BY StepKinds DEF RequireAccount, At, TypeInv
  <2> QED BY <2>1, RequireAccountFacts, AuthorizationForFacts
<1>2. /\ UNCHANGED <<world, creator, sess, now, entitled>>
      /\ \A a \in Accounts : auth'[a] \subseteq auth[a] /\ auth'[a] \subseteq roleKeys'
  BY <1>1 DEF slots, idp, history, GrantInv, TablesGranted, RolesExist
<1>3. CASE Ends(p)
  BY <1>1, <1>2, <1>3, GrantQuiet
<1>4. \A q \in Procs \ {p} : req[q].kind = "none" /\ req[q].pc = "idle" /\ req[q].todo = {}
  BY <1>1, OthersIdle
<1>5. req[p].kind \in {"grant", "revoke"} /\ UpdatesGranted(p)
  BY <1>1, StepKinds DEF TypeInv, GrantInv, RequestGranted
<1>6. CASE Goes(p, "gread") /\ req[p].kind = "grant"
  <2>1. RequestGranted(p)'
    BY <1>2, <1>5, <1>6, MayHoldStays DEF RequestGranted, CarriedGranted, UpdatesGranted, Retired, Goes, Moves, MayHold
  <2>2. TablesGranted' /\ Others(p) /\ req'[p].kind # "none"
    BY <1>2, <1>6, TablesStay DEF Goes, Moves
  <2> QED BY <1>4, <2>1, <2>2, GrantMoved
<1>7. ASSUME Moves(p, "gwrite"), req'[p].todo = req[p].todo, NEW a \in Accounts, For(p, a), req'[p].roles = auth[a]
      PROVE  GrantInv'
  <2>1. CarriedGranted(p)'
    BY <1>2, <1>5, <1>7 DEF CarriedGranted, Moves, For, MayHold, GrantInv, TablesGranted, RolesGranted
  <2>2. UpdatesGranted(p)' /\ Retired(p)'
    BY <1>2, <1>5, <1>7 DEF UpdatesGranted, Retired, Moves, MayHold
  <2>3. TablesGranted' /\ Others(p) /\ req'[p].kind # "none"
    BY <1>2, <1>5, <1>7, TablesStay DEF Moves
  <2> QED BY <1>4, <2>1, <2>2, <2>3, GrantMoved DEF RequestGranted
<1> QED BY <1>1, <1>3, <1>6, <1>7

LEMMA GrantUpdateAuthorization ==
  ASSUME TypeInv, GrantInv, NEW p \in Procs, UpdateAuthorization(p)
  PROVE  GrantInv'
<1>1. /\ UNCHANGED <<slots, roleKeys, sess, now>> /\ req[p].pc = "gwrite" /\ entitled \subseteq entitled'
      /\ \/ Ends(p) /\ UNCHANGED <<auth, entitled>>
         \/ Goes(p, "sread") /\ UNCHANGED <<auth, entitled>> /\ NewKeys(p) = req[p].roles
         \/ /\ Goes(p, "sread") /\ NewKeys(p) \subseteq roleKeys
            /\ \E a \in Accounts :
                 /\ For(p, a) /\ auth' = [auth EXCEPT ![a] = NewKeys(p)]
                 /\ req[p].kind = "grant" /\ world[req[p].n] # 0 => <<a, world[req[p].n]>> \in entitled'
  BY UpdateAuthorizationFacts
<1>2. /\ UNCHANGED <<world, creator>> /\ req[p].kind \in {"grant", "revoke"} /\ SoundReq(req[p], issued, made)
      /\ auth \in [Accounts -> SUBSET Numbers]
  BY <1>1, StepKinds DEF slots, TypeInv, IdpOK
<1>3. \A q \in Procs \ {p} : req[q].kind = "none" /\ req[q].pc = "idle" /\ req[q].todo = {}
  BY <1>1, OthersIdle
<1>4. CarriedGranted(p) /\ UpdatesGranted(p)
  BY DEF GrantInv, RequestGranted
<1>5. CASE Ends(p) /\ UNCHANGED <<auth, entitled>>
  BY <1>1, <1>2, <1>5, GrantQuiet DEF GrantInv, TablesGranted, RolesExist
<1>6. CASE Goes(p, "sread")
  <2>1. /\ Others(p) /\ req'[p].pc = "sread" /\ req'[p].kind = req[p].kind /\ req'[p].acct = req[p].acct
        /\ req'[p].n = req[p].n /\ req'[p].todo = req[p].todo
    BY <1>6 DEF Goes, Moves
  <2>2. UpdatesGranted(p)' /\ Retired(p)'
    BY <1>1, <1>2, <1>4, <2>1, MayHoldStays DEF UpdatesGranted, Retired
  <2>3. ASSUME NEW a \in Accounts, req[p].acct = {a}, req[p].kind = "grant" PROVE MayHold(a, req[p].n)'
    <3>1. ASSUME NewKeys(p) = req[p].roles PROVE MayHold(a, req[p].n)'
      <4>1. req[p].n \in req[p].roles
        BY <2>3, <3>1 DEF NewKeys
      <4>2. MayHold(a, req[p].n)
        BY <1>1, <1>4, <2>3, <4>1 DEF CarriedGranted
      <4> QED BY <1>1, <1>2, <2>1, <4>2 DEF MayHold
    <3>2. ASSUME NEW b \in Accounts, For(p, b),
                 req[p].kind = "grant" /\ world[req[p].n] # 0 => <<b, world[req[p].n]>> \in entitled'
          PROVE  MayHold(a, req[p].n)'
      BY <1>2, <2>1, <2>3, <3>2 DEF MayHold, For
    <3>3. req'[p].pc # Idle.pc
      BY <2>1, IdleIsAReq
    <3>4. ~Ends(p)
      BY <3>3 DEF Ends
    <3> QED BY <1>1, <3>1, <3>2, <3>4
  <2>4. CarriedGranted(p)'
    BY <1>2, <2>1, <2>3 DEF CarriedGranted
  <2>5. CASE UNCHANGED auth
    <3>1. TablesGranted'
      BY <1>1, <1>2, <2>1, <2>5, TablesStay DEF GrantInv, TablesGranted, RolesExist
    <3> QED BY <1>2, <1>3, <2>1, <2>2, <2>4, <3>1, GrantMoved DEF RequestGranted
  <2>6. ASSUME NEW a \in Accounts, For(p, a), auth' = [auth EXCEPT ![a] = NewKeys(p)], NewKeys(p) \subseteq roleKeys
        PROVE  GrantInv'
    <3>1. auth'[a] = NewKeys(p) /\ \A b \in Accounts \ {a} : auth'[b] = auth[b]
      BY <1>2, <2>6
    <3>2. \A n \in NewKeys(p) : MayHold(a, n)'
      <4>1. ASSUME NEW n \in req[p].roles PROVE MayHold(a, n)'
        <5>1. MayHold(a, n)
          BY <1>1, <1>4, <2>6 DEF CarriedGranted, For
        <5> QED BY <1>1, <1>2, <5>1 DEF MayHold
      <4>2. req[p].kind = "grant" => MayHold(a, req[p].n)'
        BY <2>3, <2>6 DEF For
      <4> QED BY <2>1, <4>1, <4>2 DEF NewKeys, MayHold
    <3>3. RolesExist'
      BY <1>1, <2>6, <3>1 DEF GrantInv, TablesGranted, RolesExist
    <3>4. RolesGranted'
      <4> SUFFICES ASSUME NEW b \in Accounts, NEW n \in auth'[b] PROVE MayHold(b, n)'
        BY DEF RolesGranted
      <4>1. CASE b = a
        BY <3>1, <3>2, <4>1
      <4>2. CASE b # a
        BY <1>1, <1>2, <3>1, <4>2, MayHoldStays DEF GrantInv, TablesGranted, RolesGranted
      <4> QED BY <4>1, <4>2
    <3>5. CreatorsGranted' /\ OneAccountEach'
      BY <1>1, <1>2, MayHoldStays DEF GrantInv, TablesGranted, CreatorsGranted, OneAccountEach
    <3>6. SessionsGranted'
      <4> SUFFICES ASSUME NEW s \in Sids, NEW b \in Accounts, (sess[s].acct = {b} /\ InUse(s))', NEW n \in sess'[s].roles
                   PROVE  MayHold(b, n)'
        BY DEF SessionsGranted
      <4>1. sess'[s] = sess[s] /\ InUse(s)
        BY <1>1, <2>1, UseStays
      <4> QED BY <1>1, <1>2, <4>1, MayHoldStays DEF GrantInv, TablesGranted, SessionsGranted
    <3>7. TablesGranted'
      BY <3>3, <3>4, <3>5, <3>6 DEF TablesGranted
    <3> QED BY <1>2, <1>3, <2>1, <2>2, <2>4, <3>7, GrantMoved DEF RequestGranted
  <2>7. ~Ends(p)
    BY <2>1, IdleIsAReq DEF Ends
  <2> QED BY <1>1, <2>5, <2>6, <2>7
<1> QED BY <1>1, <1>5, <1>6

(* What follows the last update: a create has retired its Number. *)
LEMMA GrantAfter ==
  ASSUME TypeInv, GrantInv, NEW p \in Procs, req[p].pc # "idle", After(p), TablesGranted',
         req[p].kind = "create" => \A s \in Sids : Live(s)' => req[p].n \notin sess'[s].roles
  PROVE  GrantInv'
<1>1. \A q \in Procs \ {p} : req[q].kind = "none" /\ req[q].pc = "idle" /\ req[q].todo = {}
  BY OthersIdle
<1>2. CASE Ends(p)
  BY <1>2, GrantEnded
<1>3. CASE req[p].kind = "create" /\ Moves(p, "addrole") /\ req'[p].todo = {}
  <2>1. RequestGranted(p)'
    BY <1>3 DEF RequestGranted, CarriedGranted, UpdatesGranted, Retired, Moves
  <2> QED BY <1>1, <1>3, <2>1, GrantMoved DEF Moves
<1>4. CASE req[p].kind = "delete" /\ Moves(p, "unrole") /\ req'[p].todo = {}
  <2>1. RequestGranted(p)'
    BY <1>4 DEF RequestGranted, CarriedGranted, UpdatesGranted, Retired, Moves
  <2> QED BY <1>1, <1>4, <2>1, GrantMoved DEF Moves
<1> QED BY <1>2, <1>3, <1>4 DEF After

LEMMA AfterFields ==
  ASSUME NEW p \in Procs, After(p)
  PROVE  Others(p) /\ req'[p].pc # "touch"
BY IdleIsAReq DEF After, Ends, Moves

LEMMA GrantReadSessionRoles ==
  ASSUME OneByOne, TypeInv, GrantInv, NEW p \in Procs, ReadSessionRoles(p)
  PROVE  GrantInv'
<1>1. /\ UNCHANGED <<slots, idp, sess, now, entitled>> /\ req[p].pc = "sread"
      /\ req[p].kind \in {"grant", "revoke", "create", "delete"}
      /\ \/ /\ Moves(p, "swrite") /\ req'[p].roles = req[p].roles
            /\ \A t \in req'[p].todo : t[1] \in Concerned(p) /\ t[2] = NewRoles(p, sess[t[1]].roles)
            /\ \A s \in Concerned(p) : NewRoles(p, sess[s].roles) = sess[s].roles
                                       \/ \E t \in req'[p].todo : t[1] = s
         \/ After(p) /\ \A s \in Concerned(p) : NewRoles(p, sess[s].roles) = sess[s].roles
  BY ReadSessionRolesFacts DEF OneByOne
<1>2. /\ UNCHANGED <<world, creator, sess, now, entitled, auth>>
      /\ \A a \in Accounts : auth'[a] \subseteq auth[a] /\ auth'[a] \subseteq roleKeys'
  BY <1>1 DEF slots, idp, GrantInv, TablesGranted, RolesExist
<1>3. CASE /\ Moves(p, "swrite") /\ req'[p].roles = req[p].roles
           /\ \A t \in req'[p].todo : t[1] \in Concerned(p) /\ t[2] = NewRoles(p, sess[t[1]].roles)
           /\ \A s \in Concerned(p) : NewRoles(p, sess[s].roles) = sess[s].roles
                                      \/ \E t \in req'[p].todo : t[1] = s
  <2>1. /\ Others(p) /\ req'[p].pc = "swrite" /\ req'[p].kind = req[p].kind /\ req'[p].acct = req[p].acct
        /\ req'[p].n = req[p].n
    BY <1>3 DEF Moves
  <2>2. CarriedGranted(p)'
    BY <1>1, <1>2, <2>1 DEF CarriedGranted, MayHold, GrantInv, RequestGranted
  <2>3. UpdatesGranted(p)'
    <3>1. ASSUME NEW t \in req'[p].todo, NEW a \in Accounts, sess[t[1]].acct = {a}, NEW n \in t[2] PROVE MayHold(a, n)
      <4>1. t[1] \in Sids /\ Live(t[1]) /\ (req[p].kind = "grant" => req[p].acct = {a})
        BY <1>3, <3>1 DEF Concerned
      <4>2. \A m \in sess[t[1]].roles : MayHold(a, m)
        BY <3>1, <4>1 DEF GrantInv, TablesGranted, SessionsGranted, InUse
      <4>3. req[p].kind = "grant" => MayHold(a, req[p].n)
        BY <1>1, <4>1 DEF GrantInv, RequestGranted, CarriedGranted
      <4> QED BY <1>3, <3>1, <4>2, <4>3 DEF NewRoles
    <3>2. ASSUME NEW t \in req'[p].todo PROVE req[p].kind = "create" => req[p].n \notin t[2]
      BY <1>3, <3>2 DEF NewRoles
    <3> QED BY <1>2, <2>1, <3>1, <3>2 DEF UpdatesGranted, MayHold
  <2>4. Retired(p)'
    <3>1. ASSUME req[p].kind = "create", NEW s \in Sids, Live(s), req[p].n \in sess[s].roles
          PROVE  \E t \in req'[p].todo : t[1] = s
      <4>1. s \in Concerned(p)
        BY <3>1 DEF Concerned
      <4>2. NewRoles(p, sess[s].roles) # sess[s].roles
        BY <3>1 DEF NewRoles
      <4> QED BY <1>3, <4>1, <4>2
    <3>2. \A s \in Sids : Live(s)' <=> Live(s)
      BY <1>2 DEF Live
    <3> QED BY <1>2, <2>1, <3>1, <3>2 DEF Retired
  <2>5. TablesGranted'
    BY <1>2, <2>1, TablesStay
  <2>6. \A q \in Procs \ {p} : req[q].kind = "none" /\ req[q].pc = "idle" /\ req[q].todo = {}
    BY <1>1, OthersIdle
  <2> QED BY <1>1, <2>1, <2>2, <2>3, <2>4, <2>5, <2>6, GrantMoved DEF RequestGranted
<1>4. CASE After(p) /\ \A s \in Concerned(p) : NewRoles(p, sess[s].roles) = sess[s].roles
  <2>1. TablesGranted'
    BY <1>2, <1>4, AfterFields, TablesStay
  <2>2. req[p].kind = "create" => \A s \in Sids : Live(s)' => req[p].n \notin sess'[s].roles
    <3>1. ASSUME req[p].kind = "create", NEW s \in Sids, Live(s)' PROVE req[p].n \notin sess'[s].roles
      <4>1. s \in Concerned(p)
        BY <1>2, <3>1 DEF Concerned, Live
      <4>2. NewRoles(p, sess[s].roles) = sess[s].roles
        BY <1>4, <4>1
      <4> QED BY <1>2, <3>1, <4>2 DEF NewRoles
    <3> QED BY <3>1
  <2> QED BY <1>1, <1>4, <2>1, <2>2, GrantAfter
<1> QED BY <1>1, <1>3, <1>4

LEMMA GrantWriteSessionRoles ==
  ASSUME OneByOne, TypeInv, GrantInv, NEW p \in Procs, WriteSessionRoles(p)
  PROVE  GrantInv'
<1>1. /\ UNCHANGED <<slots, idp, now, entitled>> /\ req[p].pc = "swrite"
      /\ req[p].kind \in {"grant", "revoke", "create", "delete"}
      /\ \E t \in req[p].todo :
           /\ \A s \in Sids \ {t[1]} : sess'[s] = sess[s]
           /\ t[1] \in Sids /\ sess'[t[1]].acct = sess[t[1]].acct /\ sess'[t[1]].exp = sess[t[1]].exp
           /\ sess'[t[1]].roles = IF sess[t[1]].acct = {} THEN sess[t[1]].roles ELSE t[2]
           /\ \/ Moves(p, "swrite") /\ req'[p].roles = req[p].roles /\ req'[p].todo = req[p].todo \ {t}
              \/ After(p) /\ req[p].todo = {t}
  BY WriteSessionRolesFacts DEF OneByOne
<1>2. UNCHANGED <<world, creator, now, entitled, auth, roleKeys>>
  BY <1>1 DEF slots, idp
<1>3. PICK t \in req[p].todo :
        /\ \A s \in Sids \ {t[1]} : sess'[s] = sess[s]
        /\ t[1] \in Sids /\ sess'[t[1]].acct = sess[t[1]].acct /\ sess'[t[1]].exp = sess[t[1]].exp
        /\ sess'[t[1]].roles = IF sess[t[1]].acct = {} THEN sess[t[1]].roles ELSE t[2]
        /\ \/ Moves(p, "swrite") /\ req'[p].roles = req[p].roles /\ req'[p].todo = req[p].todo \ {t}
           \/ After(p) /\ req[p].todo = {t}
  BY <1>1
<1>4. \A s \in Sids : sess'[s].acct = sess[s].acct /\ sess'[s].exp = sess[s].exp
  BY <1>3
<1>5. \A s \in Sids : Live(s)' <=> Live(s)
  BY <1>2, <1>4 DEF Live
<1>6. Others(p) /\ req'[p].pc # "touch"
  BY <1>3, AfterFields DEF Moves
<1>7. CarriedGranted(p) /\ UpdatesGranted(p) /\ Retired(p)
  BY DEF GrantInv, RequestGranted
<1>8. TablesGranted'
  <2>1. RolesExist' /\ RolesGranted' /\ CreatorsGranted'
    BY <1>2 DEF GrantInv, TablesGranted, RolesExist, RolesGranted, CreatorsGranted, MayHold
  <2>2. OneAccountEach'
    BY <1>4 DEF GrantInv, TablesGranted, OneAccountEach
  <2>3. SessionsGranted'
    <3> SUFFICES ASSUME NEW s \in Sids, NEW a \in Accounts, (sess[s].acct = {a} /\ InUse(s))', NEW n \in sess'[s].roles
                 PROVE  MayHold(a, n)'
      BY DEF SessionsGranted
    <3>1. sess[s].acct = {a} /\ InUse(s)
      <4>1. \A q \in Procs : req'[q].pc = "touch" => req'[q] = req[q]
        BY <1>6 DEF Others
      <4> QED BY <1>4, <1>5, <4>1 DEF InUse
    <3>2. MayHold(a, n)
      <4>1. CASE s = t[1]
        BY <1>3, <1>7, <3>1, <4>1 DEF UpdatesGranted
      <4>2. CASE s # t[1]
        BY <1>3, <3>1, <4>2 DEF GrantInv, TablesGranted, SessionsGranted
      <4> QED BY <4>1, <4>2
    <3> QED BY <1>2, <3>2 DEF MayHold
  <2> QED BY <2>1, <2>2, <2>3 DEF TablesGranted
(* A live session that still has the Number of a create is another one's. *)
<1>9. ASSUME req[p].kind = "create", NEW s \in Sids, Live(s)', req[p].n \in sess'[s].roles
      PROVE  \E u \in req[p].todo \ {t} : u[1] = s
  <2>1. Live(s) /\ sess[s].acct # {}
    BY <1>5, <1>9 DEF Live
  <2>2. s # t[1]
    BY <1>3, <1>7, <1>9, <2>1 DEF UpdatesGranted
  <2>3. PICK u \in req[p].todo : u[1] = s
    BY <1>1, <1>3, <1>7, <1>9, <2>1, <2>2 DEF Retired
  <2> QED BY <2>2, <2>3
<1>10. CASE After(p) /\ req[p].todo = {t}
  <2>1. req[p].kind = "create" => \A s \in Sids : Live(s)' => req[p].n \notin sess'[s].roles
    BY <1>9, <1>10
  <2> QED BY <1>1, <1>8, <1>10, <2>1, GrantAfter
<1>11. CASE Moves(p, "swrite") /\ req'[p].roles = req[p].roles /\ req'[p].todo = req[p].todo \ {t}
  <2>1. /\ req'[p].pc = "swrite" /\ req'[p].kind = req[p].kind /\ req'[p].acct = req[p].acct
        /\ req'[p].n = req[p].n
    BY <1>11 DEF Moves
  <2>2. CarriedGranted(p)'
    BY <1>1, <1>2, <1>7, <2>1 DEF CarriedGranted, MayHold
  <2>3. UpdatesGranted(p)'
    <3>1. \A u \in req'[p].todo : u \in req[p].todo /\ u[1] \in Sids
      BY <1>11 DEF TypeInv, ReqOK, Reqs
    <3> QED BY <1>2, <1>4, <1>7, <2>1, <3>1 DEF UpdatesGranted, MayHold
  <2>4. Retired(p)'
    BY <1>9, <1>11, <2>1 DEF Retired
  <2>5. \A q \in Procs \ {p} : req[q].kind = "none" /\ req[q].pc = "idle" /\ req[q].todo = {}
    BY <1>1, OthersIdle
  <2> QED BY <1>1, <1>6, <1>8, <2>1, <2>2, <2>3, <2>4, <2>5, GrantMoved DEF RequestGranted
<1> QED BY <1>3, <1>10, <1>11

LEMMA GrantSignIn ==
  ASSUME TypeInv, GrantInv, NEW p \in Procs, Exchange(p) \/ RecordSignIn(p)
  PROVE  GrantInv'
<1>1. /\ UNCHANGED <<slots, idp, sess, now, history>> /\ req[p].pc \in {"exchange", "record"} /\ req[p].kind = "signin"
      /\ \/ Ends(p)
         \/ Goes(p, "session")
         \/ /\ Moves(p, "record") /\ req'[p].todo = req[p].todo
            /\ \E a \in Accounts : For(p, a) /\ req'[p].roles = auth[a]
  BY ExchangeFacts, RecordSignInFacts
<1>2. /\ UNCHANGED <<world, creator, sess, now, entitled, auth>>
      /\ \A a \in Accounts : auth'[a] \subseteq auth[a] /\ auth'[a] \subseteq roleKeys'
  BY <1>1 DEF slots, idp, history, GrantInv, TablesGranted, RolesExist
<1>3. CASE Ends(p)
  BY <1>1, <1>2, <1>3, GrantQuiet
<1>4. \A q \in Procs \ {p} : req[q].kind = "none" /\ req[q].pc = "idle" /\ req[q].todo = {}
  BY <1>1, OthersIdle
<1>5. CarriedGranted(p) /\ UpdatesGranted(p)
  BY DEF GrantInv, RequestGranted
<1>6. CASE Goes(p, "session")
  <2>1. CarriedGranted(p)' /\ UpdatesGranted(p)' /\ Retired(p)'
    BY <1>1, <1>2, <1>5, <1>6 DEF CarriedGranted, UpdatesGranted, Retired, Goes, Moves, MayHold
  <2>2. TablesGranted' /\ Others(p) /\ req'[p].kind # "none"
    BY <1>1, <1>2, <1>6, TablesStay DEF Goes, Moves
  <2> QED BY <1>4, <2>1, <2>2, GrantMoved DEF RequestGranted
<1>7. ASSUME Moves(p, "record"), req'[p].todo = req[p].todo, NEW a \in Accounts, For(p, a), req'[p].roles = auth[a]
      PROVE  GrantInv'
  <2>1. CarriedGranted(p)'
    BY <1>1, <1>2, <1>7 DEF CarriedGranted, Moves, For, MayHold, GrantInv, TablesGranted, RolesGranted
  <2>2. UpdatesGranted(p)' /\ Retired(p)'
    BY <1>1, <1>2, <1>5, <1>7 DEF UpdatesGranted, Retired, Moves, MayHold
  <2>3. TablesGranted' /\ Others(p) /\ req'[p].kind # "none"
    BY <1>1, <1>2, <1>7, TablesStay DEF Moves
  <2> QED BY <1>4, <2>1, <2>2, <2>3, GrantMoved DEF RequestGranted
<1> QED BY <1>1, <1>3, <1>6, <1>7

LEMMA GrantCreateSession ==
  ASSUME TypeInv, GrantInv, NEW p \in Procs, CreateSession(p)
  PROVE  GrantInv'
<1>1. /\ UNCHANGED <<slots, idp, now, history>> /\ Ends(p) /\ req[p].pc = "session" /\ req[p].kind = "signin"
      /\ \/ /\ issued + 1 \in Sids /\ sess'[issued + 1].acct = req[p].acct
            /\ sess'[issued + 1].roles = req[p].roles
            /\ \A s \in Sids \ {issued + 1} : sess'[s] = sess[s]
         \/ UNCHANGED sess
  BY CreateSessionFacts
<1>2. /\ UNCHANGED <<world, creator, now, entitled, auth, roleKeys>>
      /\ \A a \in Accounts : auth'[a] \subseteq auth[a] /\ auth'[a] \subseteq roleKeys'
  BY <1>1 DEF slots, idp, history, GrantInv, TablesGranted, RolesExist
<1>3. CASE UNCHANGED sess
  BY <1>1, <1>2, <1>3, GrantQuiet
<1>4. CASE /\ issued + 1 \in Sids /\ sess'[issued + 1].acct = req[p].acct
           /\ sess'[issued + 1].roles = req[p].roles
           /\ \A s \in Sids \ {issued + 1} : sess'[s] = sess[s]
  <2>1. CarriedGranted(p) /\ \E a \in Accounts : req[p].acct = {a}
    BY <1>1 DEF GrantInv, RequestGranted, TypeInv, ReqOK, SoundReq
  <2>2. RolesExist' /\ RolesGranted' /\ CreatorsGranted'
    BY <1>2 DEF GrantInv, TablesGranted, RolesExist, RolesGranted, CreatorsGranted, MayHold
  <2>3. OneAccountEach'
    BY <1>4, <2>1 DEF GrantInv, TablesGranted, OneAccountEach
  <2>4. SessionsGranted'
    <3> SUFFICES ASSUME NEW s \in Sids, NEW a \in Accounts, (sess[s].acct = {a} /\ InUse(s))', NEW n \in sess'[s].roles
                 PROVE  MayHold(a, n)'
      BY DEF SessionsGranted
    <3>1. MayHold(a, n)
      <4>1. CASE s = issued + 1
        BY <1>1, <1>4, <2>1, <4>1 DEF CarriedGranted
      <4>2. CASE s # issued + 1
        <5>1. sess'[s] = sess[s]
          BY <1>4, <4>2
        <5>2. Others(p) /\ req'[p].pc # "touch"
          BY <1>1, IdleIsAReq DEF Ends
        <5>3. InUse(s)
          BY <1>2, <5>1, <5>2, UseStays
        <5> QED BY <5>1, <5>3 DEF GrantInv, TablesGranted, SessionsGranted
      <4> QED BY <4>1, <4>2
    <3> QED BY <1>2, <3>1 DEF MayHold
  <2>5. TablesGranted'
    BY <2>2, <2>3, <2>4 DEF TablesGranted
  <2> QED BY <1>1, <2>5, GrantEnded
<1> QED BY <1>1, <1>3, <1>4

LEMMA GrantPage ==
  ASSUME TypeInv, GrantInv, NEW p \in Procs, LoadSession(p) \/ TouchSession(p)
  PROVE  GrantInv'
<1>1. CASE LoadSession(p)
  <2>1. /\ UNCHANGED <<slots, idp, sess, now, history>> /\ req[p].pc = "load" /\ req[p].kind = "page"
        /\ (Goes(p, "touch") /\ Live(req[p].sid)) \/ Ends(p)
    BY <1>1, LoadSessionFacts
  <2>2. /\ UNCHANGED <<world, creator, sess, now, entitled, auth>>
        /\ \A a \in Accounts : auth'[a] \subseteq auth[a] /\ auth'[a] \subseteq roleKeys'
    BY <2>1 DEF slots, idp, history, GrantInv, TablesGranted, RolesExist
  <2>3. CASE Ends(p)
    BY <2>1, <2>2, <2>3, GrantQuiet
  <2>4. CASE Goes(p, "touch") /\ Live(req[p].sid)
    <3>1. /\ Others(p) /\ req'[p].pc = "touch" /\ req'[p].sid = req[p].sid /\ req'[p].kind = "page"
          /\ req'[p].todo = req[p].todo /\ req[p].sid \in Sids
      BY <2>1, <2>4 DEF Goes, Moves, TypeInv, ReqOK, SoundReq
    <3>2. \A s \in Sids : InUse(s)' => InUse(s)
      <4>1. \A s \in Sids : Live(s)' => Live(s)
        BY <2>2 DEF Live
      <4> QED BY <2>4, <3>1, <4>1 DEF InUse, Others
    <3>3. TablesGranted'
      BY <2>2, <3>2, TablesShrink DEF GrantInv
    <3>4. RequestGranted(p)'
      BY <2>2, <3>1 DEF RequestGranted, CarriedGranted, UpdatesGranted, Retired, GrantInv, MayHold
    <3>5. \A q \in Procs \ {p} : req[q].kind = "none" /\ req[q].pc = "idle" /\ req[q].todo = {}
      BY <2>1, OthersIdle
    <3> QED BY <3>1, <3>3, <3>4, <3>5, GrantMoved
  <2> QED BY <2>1, <2>3, <2>4
<1>2. CASE TouchSession(p)
  <2>1. /\ UNCHANGED <<slots, idp, now, history>> /\ req[p].pc = "touch" /\ Ends(p) /\ req[p].sid \in Sids
        /\ \A s \in Sids \ {req[p].sid} : sess'[s] = sess[s]
        /\ sess'[req[p].sid].acct = sess[req[p].sid].acct /\ sess'[req[p].sid].roles = sess[req[p].sid].roles
    BY <1>2, TouchSessionFacts
  <2>2. /\ UNCHANGED <<world, creator, entitled>>
        /\ \A a \in Accounts : auth'[a] \subseteq auth[a] /\ auth'[a] \subseteq roleKeys'
    BY <2>1 DEF slots, idp, history, GrantInv, TablesGranted, RolesExist
  <2>3. Others(p) /\ req'[p].pc # "touch"
    BY <2>1, IdleIsAReq DEF Ends
  <2>4. ASSUME NEW s \in Sids
        PROVE  sess'[s].acct = sess[s].acct /\ sess'[s].roles = sess[s].roles /\ (InUse(s)' => InUse(s))
    <3>1. CASE s = req[p].sid
      BY <2>1, <3>1 DEF InUse
    <3>2. CASE s # req[p].sid
      BY <2>1, <2>3, <3>2, UseStays
    <3> QED BY <3>1, <3>2
  <2>5. TablesGranted'
    BY <2>2, <2>4, TablesShrink DEF GrantInv
  <2> QED BY <2>1, <2>5, GrantEnded
<1> QED BY <1>1, <1>2

LEMMA GrantSignOut ==
  ASSUME TypeInv, GrantInv, NEW p \in Procs, RevokeSessions(p)
  PROVE  GrantInv'
<1>1. /\ UNCHANGED <<slots, idp, now, entitled>> /\ Ends(p) /\ req[p].pc = "signout"
      /\ \A s \in Sids : sess'[s] = IF sess[s].acct = req[p].acct THEN NoSession ELSE sess[s]
  BY RevokeSessionsFacts
<1>2. /\ UNCHANGED <<world, creator, entitled>>
      /\ \A a \in Accounts : auth'[a] \subseteq auth[a] /\ auth'[a] \subseteq roleKeys'
  BY <1>1 DEF slots, idp, GrantInv, TablesGranted, RolesExist
<1>3. Others(p) /\ req'[p].pc # "touch"
  BY <1>1, IdleIsAReq DEF Ends
<1>4. ASSUME NEW s \in Sids, sess'[s].acct # {}
      PROVE  sess'[s].acct = sess[s].acct /\ sess'[s].roles = sess[s].roles /\ (InUse(s)' => InUse(s))
  <2>1. sess'[s] = sess[s]
    BY <1>1, <1>4 DEF NoSession
  <2> QED BY <1>1, <1>3, <2>1, UseStays
<1>5. TablesGranted'
  BY <1>2, <1>4, TablesShrink DEF GrantInv
<1> QED BY <1>1, <1>5, GrantEnded

(* A row goes: its Number holds no world until a create, which brings the   *)
(* Role and the creator of its own.                                         *)
LEMMA GrantDeleteRow ==
  ASSUME TypeInv, GrantInv, NEW p \in Procs, DeleteRow(p)
  PROVE  GrantInv'
<1>1. /\ UNCHANGED <<idp, sess, now, history>> /\ req[p].pc = "unrow" /\ req[p].kind = "delete"
      /\ Goes(p, "sread") /\ req[p].n \in Numbers
      /\ world' = [world EXCEPT ![req[p].n] = 0] /\ creator' = [creator EXCEPT ![req[p].n] = {}]
  BY DeleteRowFacts
<1>2. UNCHANGED <<auth, roleKeys, entitled>>
  BY <1>1 DEF idp, history
<1>3. Others(p) /\ req'[p].pc = "sread" /\ req'[p].kind = "delete" /\ req'[p].todo = req[p].todo
  BY <1>1 DEF Goes, Moves
<1>4. ASSUME NEW a, NEW n \in Numbers, MayHold(a, n) PROVE MayHold(a, n)'
  BY <1>1, <1>2, <1>4 DEF MayHold, TypeInv, SlotsOK
<1>5. RolesExist' /\ OneAccountEach'
  BY <1>1, <1>2 DEF GrantInv, TablesGranted, RolesExist, OneAccountEach
<1>6. RolesGranted'
  BY <1>2, <1>4 DEF GrantInv, TablesGranted, RolesGranted, TypeInv, IdpOK
<1>7. CreatorsGranted'
  <2>1. \A n \in Numbers : creator'[n] # {} => creator'[n] = creator[n]
    BY <1>1 DEF TypeInv, SlotsOK
  <2> QED BY <1>4, <2>1 DEF GrantInv, TablesGranted, CreatorsGranted
<1>8. SessionsGranted'
  <2> SUFFICES ASSUME NEW s \in Sids, NEW a \in Accounts, (sess[s].acct = {a} /\ InUse(s))', NEW n \in sess'[s].roles
               PROVE  MayHold(a, n)'
    BY DEF SessionsGranted
  <2>1. InUse(s) /\ sess'[s] = sess[s]
    BY <1>1, <1>3, UseStays
  <2>2. MayHold(a, n)
    BY <2>1 DEF GrantInv, TablesGranted, SessionsGranted
  <2>3. n \in Numbers
    BY <2>1 DEF TypeInv, SessOK, Sessions
  <2> QED BY <1>4, <2>2, <2>3
<1>9. RequestGranted(p)'
  <2>1. UpdatesGranted(p)'
    <3>1. \A t \in req[p].todo : t[1] \in Sids /\ t[2] \subseteq Numbers
      BY DEF TypeInv, ReqOK, Reqs
    <3>2. UpdatesGranted(p)
      BY DEF GrantInv, RequestGranted
    <3> QED BY <1>1, <1>3, <1>4, <3>1, <3>2 DEF UpdatesGranted
  <2> QED BY <1>3, <2>1 DEF RequestGranted, CarriedGranted, Retired
<1>10. TablesGranted'
  BY <1>5, <1>6, <1>7, <1>8 DEF TablesGranted
<1> QED BY <1>1, <1>3, <1>9, <1>10, OthersIdle, GrantMoved

LEMMA GrantRoles ==
  ASSUME TypeInv, GrantInv, NEW p \in Procs, RemoveRole(p) \/ AddRole(p)
  PROVE  GrantInv'
<1>1. CASE RemoveRole(p)
  <2>1. /\ UNCHANGED <<slots, sess, now, history>> /\ req[p].pc \in {"unrole", "undo"} /\ Ends(p)
        /\ \/ roleKeys' = roleKeys \ {req[p].n} /\ \A a \in Accounts : auth'[a] = auth[a] \ {req[p].n}
           \/ UNCHANGED idp
    BY <1>1, RemoveRoleFacts
  <2>2. \A a \in Accounts : auth'[a] \subseteq auth[a] /\ auth'[a] \subseteq roleKeys'
    BY <2>1 DEF idp, GrantInv, TablesGranted, RolesExist
  <2> QED BY <2>1, <2>2, GrantQuiet DEF slots, history
<1>2. CASE AddRole(p)
  <2>1. /\ UNCHANGED <<slots, auth, sess, now, history>> /\ req[p].pc = "addrole" /\ req[p].kind = "create"
        /\ \/ Ends(p) /\ UNCHANGED roleKeys
           \/ Goes(p, "row") /\ req[p].n \notin roleKeys /\ roleKeys' = roleKeys \cup {req[p].n}
    BY <1>2, AddRoleFacts
  <2>2. /\ UNCHANGED <<world, creator, sess, now, entitled, auth>>
        /\ \A a \in Accounts : auth'[a] \subseteq auth[a] /\ auth'[a] \subseteq roleKeys'
    BY <2>1 DEF slots, history, GrantInv, TablesGranted, RolesExist
  <2>3. CASE Ends(p)
    BY <2>1, <2>2, <2>3, GrantQuiet
  <2>4. CASE Goes(p, "row") /\ req[p].n \notin roleKeys
    <3>1. /\ Others(p) /\ req'[p].pc = "row" /\ req'[p].kind = "create" /\ req'[p].n = req[p].n
          /\ req'[p].todo = req[p].todo
      BY <2>1, <2>4 DEF Goes, Moves
    <3>2. Retired(p)'
      <4>1. \A s \in Sids : Live(s)' => Live(s)
        BY <2>2 DEF Live
      <4>2. \A s \in Sids : Live(s) => req[p].n \notin sess[s].roles
        BY <2>1 DEF GrantInv, RequestGranted, Retired
      <4>3. \A a \in Accounts : req[p].n \notin auth[a]
        BY <2>4 DEF GrantInv, TablesGranted, RolesExist
      <4> QED BY <2>2, <3>1, <4>1, <4>2, <4>3 DEF Retired
    <3>3. UpdatesGranted(p)'
      BY <2>1, <2>2, <3>1 DEF GrantInv, RequestGranted, UpdatesGranted, MayHold
    <3>4. CarriedGranted(p)'
      BY <3>1 DEF CarriedGranted
    <3>5. TablesGranted'
      BY <2>2, <3>1, TablesStay
    <3> QED BY <2>1, <3>1, <3>2, <3>3, <3>4, <3>5, OthersIdle, GrantMoved DEF RequestGranted
  <2> QED BY <2>1, <2>3, <2>4
<1> QED BY <1>1, <1>2

(* The row of a new world: nobody but its creator may hold it.              *)
LEMMA GrantInsertRow ==
  ASSUME TypeInv, GrantInv, NEW p \in Procs, InsertRow(p)
  PROVE  GrantInv'
<1>1. /\ UNCHANGED <<idp, sess, now>> /\ req[p].pc = "row" /\ req[p].kind = "create" /\ req[p].n \in Numbers
      /\ \/ /\ Ends(p)
            /\ world' = [world EXCEPT ![req[p].n] = made + 1]
            /\ creator' = [creator EXCEPT ![req[p].n] = req[p].acct]
            /\ entitled' = entitled \cup (req[p].acct \X {made + 1})
         \/ Goes(p, "undo") /\ UNCHANGED <<slots, entitled>>
  BY InsertRowFacts
<1>2. UNCHANGED <<auth, roleKeys>>
  BY <1>1 DEF idp
<1>3. \A q \in Procs \ {p} : req[q].kind = "none" /\ req[q].pc = "idle" /\ req[q].todo = {}
  BY <1>1, OthersIdle
<1>4. CASE /\ Ends(p)
           /\ world' = [world EXCEPT ![req[p].n] = made + 1]
           /\ creator' = [creator EXCEPT ![req[p].n] = req[p].acct]
           /\ entitled' = entitled \cup (req[p].acct \X {made + 1})
  <2>1. /\ \A s \in Sids : Live(s) => req[p].n \notin sess[s].roles
        /\ \A a \in Accounts : req[p].n \notin auth[a]
    BY <1>1 DEF GrantInv, RequestGranted, Retired
  <2>2. world'[req[p].n] = made + 1 /\ \A n \in Numbers \ {req[p].n} : world'[n] = world[n] /\ creator'[n] = creator[n]
    BY <1>1, <1>4 DEF TypeInv, SlotsOK
  <2>3. ASSUME NEW a, NEW n \in Numbers, n # req[p].n, MayHold(a, n) PROVE MayHold(a, n)'
    BY <1>4, <2>2, <2>3 DEF MayHold
  <2>4. RolesExist' /\ OneAccountEach'
    BY <1>1, <1>2 DEF GrantInv, TablesGranted, RolesExist, OneAccountEach
  <2>5. RolesGranted'
    BY <1>2, <2>1, <2>3 DEF GrantInv, TablesGranted, RolesGranted, TypeInv, IdpOK
  <2>6. CreatorsGranted'
    <3> SUFFICES ASSUME NEW a \in Accounts, NEW n \in Numbers, creator'[n] = {a} PROVE MayHold(a, n)'
      BY DEF CreatorsGranted
    <3>1. CASE n = req[p].n
      <4>1. creator'[n] = req[p].acct
        BY <1>1, <1>4, <3>1 DEF TypeInv, SlotsOK
      <4>2. a \in req[p].acct
        BY <4>1
      <4>3. <<a, made + 1>> \in entitled'
        BY <1>4, <4>2
      <4> QED BY <2>2, <3>1, <4>3 DEF MayHold
    <3>2. CASE n # req[p].n
      BY <2>2, <2>3, <3>2 DEF GrantInv, TablesGranted, CreatorsGranted
    <3> QED BY <3>1, <3>2
  <2>7. SessionsGranted'
    <3> SUFFICES ASSUME NEW s \in Sids, NEW a \in Accounts, (sess[s].acct = {a} /\ InUse(s))', NEW n \in sess'[s].roles
                 PROVE  MayHold(a, n)'
      BY DEF SessionsGranted
    <3>1. sess'[s] = sess[s] /\ Others(p) /\ req'[p].pc # "touch"
      BY <1>1, <1>4, IdleIsAReq DEF Ends
    <3>2. InUse(s)
      BY <1>1, <3>1, UseStays
    <3>3. Live(s)
      BY <1>1, <1>3, <3>2 DEF InUse
    <3>4. MayHold(a, n) /\ n # req[p].n
      BY <2>1, <3>1, <3>2, <3>3 DEF GrantInv, TablesGranted, SessionsGranted
    <3>5. n \in Numbers
      BY <3>1 DEF TypeInv, SessOK, Sessions
    <3> QED BY <2>3, <3>4, <3>5
  <2>8. TablesGranted'
    BY <2>4, <2>5, <2>6, <2>7 DEF TablesGranted
  <2> QED BY <1>1, <1>4, <2>8, GrantEnded
<1>5. CASE Goes(p, "undo") /\ UNCHANGED <<slots, entitled>>
  <2>1. UNCHANGED <<world, creator, entitled>>
    BY <1>5 DEF slots
  <2>2. Others(p) /\ req'[p].pc = "undo" /\ req'[p].kind = "create" /\ req'[p].n = req[p].n /\ req'[p].todo = req[p].todo
    BY <1>1, <1>5 DEF Goes, Moves
  <2>3. TablesGranted'
    BY <1>1, <1>2, <2>1, <2>2, TablesStay DEF GrantInv, TablesGranted, RolesExist
  <2>4. UpdatesGranted(p)'
    BY <1>1, <2>1, <2>2 DEF GrantInv, RequestGranted, UpdatesGranted, MayHold
  <2>5. CarriedGranted(p)' /\ Retired(p)'
    BY <2>2 DEF CarriedGranted, Retired
  <2> QED BY <1>3, <2>2, <2>3, <2>4, <2>5, GrantMoved DEF RequestGranted
<1> QED BY <1>1, <1>4, <1>5

(* Rows and Roles go, and the clock ticks, without a request.               *)
LEMMA GrantEnvironment ==
  ASSUME TypeInv, GrantInv, UNCHANGED <<world, creator, req, entitled, roleKeys>>, now' \in Nat, now <= now',
         \A s \in Sids : sess'[s] = NoSession \/ sess'[s] = sess[s], \A a \in Accounts : auth'[a] \subseteq auth[a]
  PROVE  GrantInv'
<1>1. ASSUME NEW s \in Sids, sess'[s].acct # {} PROVE sess'[s] = sess[s] /\ (Live(s)' => Live(s))
  <2>1. sess'[s] = sess[s] /\ sess[s].exp \in Int /\ now \in Int
    BY <1>1, AccessAssumption DEF NoSession, TypeInv, SessOK, Sessions, RestOK
  <2> QED BY <2>1 DEF Live
<1>2. \A s \in Sids : sess'[s].acct # {} => (InUse(s)' => InUse(s))
  BY <1>1 DEF InUse
<1>3. TablesGranted'
  <2>1. \A a \in Accounts : auth'[a] \subseteq auth[a] /\ auth'[a] \subseteq roleKeys'
    BY DEF GrantInv, TablesGranted, RolesExist
  <2> QED BY <1>1, <1>2, <2>1, TablesShrink DEF GrantInv
<1>4. ASSUME NEW p \in Procs PROVE RequestGranted(p)'
  <2>1. CarriedGranted(p) /\ UpdatesGranted(p) /\ Retired(p)
    BY DEF GrantInv, RequestGranted
  <2>2. CarriedGranted(p)'
    BY <2>1 DEF CarriedGranted, MayHold
  <2>3. UpdatesGranted(p)'
    <3>1. \A t \in req[p].todo : t[1] \in Sids
      BY DEF TypeInv, ReqOK, Reqs
    <3> QED BY <1>1, <2>1, <3>1 DEF UpdatesGranted, MayHold
  <2>4. Retired(p)'
    <3>1. \A s \in Sids : Live(s)' => Live(s) /\ sess'[s] = sess[s]
      BY <1>1 DEF Live
    <3> QED BY <2>1, <3>1 DEF Retired
  <2> QED BY <2>2, <2>3, <2>4 DEF RequestGranted
<1>5. OneAtATime'
  BY DEF GrantInv, OneAtATime
<1> QED BY <1>3, <1>4, <1>5 DEF GrantInv

LEMMA GrantStep == ASSUME OneByOne PROVE TypeInv /\ GrantInv /\ [Next]_vars => GrantInv'
<1> SUFFICES ASSUME TypeInv, GrantInv, [Next]_vars PROVE GrantInv'
  OBVIOUS
<1>1. ASSUME NEW p \in Procs, Request(p) PROVE GrantInv'
  <2>1. PICK kind \in Kinds \cap AllKinds, A \in {{}} \cup {{a} : a \in Accounts}, n \in Numbers \cup {0},
             s \in Sids \cup {0} : Begin(p, kind, A, n, s)
    BY <1>1 DEF Request
  <2>2. kind \in AllKinds
    OBVIOUS
  <2> QED BY <2>1, <2>2, GrantBegin
<1>2. ASSUME NEW p \in Procs, Step(p) PROVE GrantInv'
  <2>1. RequireAccount(p) \/ AuthorizationFor(p) => GrantInv'
    BY GrantAuthorization
  <2>2. UpdateAuthorization(p) => GrantInv'
    BY GrantUpdateAuthorization
  <2>3. ReadSessionRoles(p) => GrantInv'
    BY GrantReadSessionRoles
  <2>4. WriteSessionRoles(p) => GrantInv'
    BY GrantWriteSessionRoles
  <2>5. Exchange(p) \/ RecordSignIn(p) => GrantInv'
    BY GrantSignIn
  <2>6. CreateSession(p) => GrantInv'
    BY GrantCreateSession
  <2>7. LoadSession(p) \/ TouchSession(p) => GrantInv'
    BY GrantPage
  <2>8. RevokeSessions(p) => GrantInv'
    BY GrantSignOut
  <2>9. DeleteRow(p) => GrantInv'
    BY GrantDeleteRow
  <2>10. RemoveRole(p) \/ AddRole(p) => GrantInv'
    BY GrantRoles
  <2>11. InsertRow(p) => GrantInv'
    BY GrantInsertRow
  <2> QED BY <1>2, <2>1, <2>2, <2>3, <2>4, <2>5, <2>6, <2>7, <2>8, <2>9, <2>10, <2>11 DEF Step
<1>3. now \in Nat
  BY AccessAssumption DEF TypeInv, RestOK
<1>4. ASSUME NEW s \in Sids, Logout(s) PROVE GrantInv'
  BY <1>3, <1>4, LogoutFacts, GrantEnvironment DEF idp, slots, history
<1>5. ASSUME NEW a \in Accounts, NEW n \in Numbers, RemovedInZitadel(a, n) PROVE GrantInv'
  <2>1. UNCHANGED <<slots, roleKeys, sess, req, now, entitled>> /\ auth' = [auth EXCEPT ![a] = auth[a] \ {n}]
    BY <1>5, RemovedInZitadelFacts
  <2>2. \A b \in Accounts : auth'[b] \subseteq auth[b]
    BY <2>1 DEF TypeInv, IdpOK
  <2> QED BY <1>3, <2>1, <2>2, GrantEnvironment DEF slots
<1>6. CASE PurgeExpiredSessions
  BY <1>3, <1>6, PurgeFacts, GrantEnvironment DEF idp, slots, history
<1>7. CASE Tick
  <2>1. UNCHANGED <<slots, idp, sess, req, history>> /\ now' = now + 1
    BY <1>7, TickFacts
  <2> QED BY <1>3, <2>1, GrantEnvironment DEF idp, slots, history
<1>8. CASE UNCHANGED vars
  BY <1>3, <1>8, GrantEnvironment DEF vars
<1> QED BY <1>1, <1>2, <1>4, <1>5, <1>6, <1>7, <1>8 DEF Next

(* As long as requests come one after the other and the updates of sessions *)
(* go through, whoever may operate the world at a Number created that very  *)
(* world or was granted it: the Role of the Number is retired from sessions *)
(* and minted afresh before another world takes the Number                  *)
(* (DeleteInstance, CreateInstance, retireSessionRole, AddRole).            *)
THEOREM NumbersChangeHands == OneByOne => (Spec => []AccessWasGranted)
<1> SUFFICES ASSUME OneByOne PROVE Spec => []AccessWasGranted
  OBVIOUS
<1>1. Init => TypeInv /\ GrantInv
  BY TypeInit, GrantInit
<1>2. TypeInv /\ GrantInv /\ [Next]_vars => TypeInv' /\ GrantInv'
  BY TypeStep, GrantStep
<1>3. Spec => [](TypeInv /\ GrantInv)
  BY <1>1, <1>2, PTL DEF Spec
<1> QED BY <1>3, GrantInvImplies, PTL

=============================================================================
