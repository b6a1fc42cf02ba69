---------------------------- MODULE StoresProofs ----------------------------
(***************************************************************************)
(* Theorems about the two state stores: the invariant of the git adapter's *)
(* working clones, and that the git adapter and the local adapter each     *)
(* implement the abstract StateStore.                                      *)
(***************************************************************************)
EXTENDS GitStore, TLAPS

(* The local adapter, with the same goroutines and documents. *)
CONSTANTS LocalCallsOf, Fallback, RemovalsFail
VARIABLES files, local

Local == INSTANCE LocalStore WITH CallsOf <- LocalCallsOf

-----------------------------------------------------------------------------
(* What the Committer makes of a tree *)

(* An operation on a tree gives a tree (StateStore.Effect). *)
LEMMA EffectType ==
  ASSUME NEW op \in Abs!Ops, NEW tree \in Abs!Trees
  PROVE  Abs!Effect(op, tree) \in Abs!Trees
<1>1. CASE op \in [kind : {"add", "remove"}, file : Abs!Files, entry : Entries]
  <2>1. Abs!Body(tree[op.file]) \in Abs!Docs
    BY <1>1 DEF Abs!Body, Abs!Docs, Abs!Trees
  <2> QED BY <1>1, <2>1 DEF Abs!Effect, Abs!Trees, Abs!Docs
<1>2. CASE op \in [kind : {"put"}, file : Abs!Files, doc : Abs!Docs, raw : BOOLEAN]
  BY <1>2 DEF Abs!Effect, Abs!Trees
<1>3. CASE op \in [kind : {"delete"}, dir : Dirs]
  BY <1>3 DEF Abs!Effect, Abs!Trees
<1>4. CASE op \in [kind : {"tree"}, dir : Dirs, docs : [Names -> Abs!Docs \cup {NoDoc}]]
  BY <1>4 DEF Abs!Effect, Abs!Trees, Abs!Files
<1> QED BY <1>1, <1>2, <1>3, <1>4 DEF Abs!Ops

(* Where the document to edit exists and a raw document is alone in its      *)
(* directory, the Committer's function for an operation (PatchDocument,     *)
(* ReplaceData, WriteDirectory, DeleteDirectory) does what ports.StateStore *)
(* says the operation does.                                                 *)
LEMMA EditedIsEffect ==
  ASSUME NEW op \in Abs!Ops, NEW tree \in Abs!Trees, ~Missing(op, tree),
         op.kind = "put" /\ op.raw => Names = {op.file[2]}
  PROVE  Edited(op, tree) = Abs!Effect(op, tree)
<1>0. tree \in [Dirs \X Names -> Abs!Docs \cup {NoDoc}]
  BY DEF Abs!Trees, Abs!Files
<1>1. CASE op \in [kind : {"add", "remove"}, file : Abs!Files, entry : Entries]
  <2>1. op.file \in Dirs \X Names /\ tree[op.file] # NoDoc
    BY <1>1 DEF Missing, InPlace, Abs!Files
  <2>2. Abs!Body(tree[op.file]) = tree[op.file]
    BY <2>1 DEF Abs!Body
  <2>3. CASE op.kind = "add"
    BY <2>2, <2>3 DEF Edited, PatchDocument, Abs!Effect
  <2>4. CASE op.kind = "remove"
    <3>1. CASE op.entry \in tree[op.file]
      BY <2>2, <2>4, <3>1 DEF Edited, PatchDocument, Abs!Effect
    <3>2. CASE op.entry \notin tree[op.file]
      <4>1. tree[op.file] \ {op.entry} = tree[op.file]
        BY <3>2
      <4>2. [tree EXCEPT ![op.file] = tree[op.file] \ {op.entry}] = tree
        BY <1>0, <4>1
      <4> QED BY <2>2, <2>4, <3>2, <4>2 DEF Edited, PatchDocument, Abs!Effect
    <3> QED BY <3>1, <3>2
  <2> QED BY <1>1, <2>3, <2>4
<1>2. CASE op \in [kind : {"put"}, file : Abs!Files, doc : Abs!Docs, raw : BOOLEAN]
  <2>1. CASE ~op.raw
    BY <1>2, <2>1 DEF Edited, ReplaceData, Abs!Effect
  <2>2. CASE op.raw
    <3>1. Names = {op.file[2]} /\ op.file \in Dirs \X Names
      BY <1>2, <2>2 DEF Abs!Files
    <3>2. ASSUME NEW f \in Dirs \X Names
          PROVE  (f[1] = op.file[1]) <=> (f = op.file)
      BY <3>1
    <3>3. WriteDirectory(op.file[1], [n \in {op.file[2]} |-> op.doc], tree)
            = [tree EXCEPT ![op.file] = op.doc]
      BY <1>0, <3>1, <3>2 DEF WriteDirectory
    <3> QED BY <1>2, <2>2, <3>3 DEF Edited, Abs!Effect
  <2> QED BY <1>2, <2>1, <2>2
<1>3. CASE op \in [kind : {"delete"}, dir : Dirs]
  BY <1>0, <1>3 DEF Edited, DeleteDirectory, Abs!Effect, Abs!Files
<1>4. CASE op \in [kind : {"tree"}, dir : Dirs, docs : [Names -> Abs!Docs \cup {NoDoc}]]
  <2> DEFINE given == [n \in {m \in Names : op.docs[m] # NoDoc} |-> op.docs[n]]
  <2>1. Edited(op, tree) = WriteDirectory(op.dir, given, tree)
    BY <1>4 DEF Edited
  <2>2. Abs!Effect(op, tree) = [f \in Dirs \X Names |-> IF f[1] = op.dir THEN op.docs[f[2]] ELSE tree[f]]
    BY <1>4 DEF Abs!Effect, Abs!Files
  <2>3. ASSUME NEW f \in Dirs \X Names
        PROVE  (IF f[2] \in DOMAIN given THEN given[f[2]] ELSE NoDoc) = op.docs[f[2]]
    BY <1>4
  <2> QED BY <1>0, <2>1, <2>2, <2>3 DEF WriteDirectory
<1> QED BY <1>1, <1>2, <1>3, <1>4 DEF Abs!Ops

-----------------------------------------------------------------------------
(* The invariant of the working clones *)

(* What the Committer makes of a tree is a tree. *)
LEMMA EditedType ==
  ASSUME NEW op \in Abs!Ops, NEW tree \in Abs!Trees, ~Missing(op, tree)
  PROVE  Edited(op, tree) \in Abs!Trees
<1>0. tree \in [Dirs \X Names -> Abs!Docs \cup {NoDoc}]
  BY DEF Abs!Trees, Abs!Files
<1>1. CASE op \in [kind : {"add", "remove"}, file : Abs!Files, entry : Entries]
  <2>1. op.file \in Dirs \X Names /\ tree[op.file] \in Abs!Docs
    BY <1>0, <1>1 DEF Missing, InPlace, Abs!Files
  <2>2. tree[op.file] \cup {op.entry} \in Abs!Docs /\ tree[op.file] \ {op.entry} \in Abs!Docs
    BY <1>1, <2>1 DEF Abs!Docs
  <2> QED BY <1>0, <1>1, <2>1, <2>2 DEF Edited, PatchDocument, Abs!Trees, Abs!Files
<1>2. CASE op \in [kind : {"put"}, file : Abs!Files, doc : Abs!Docs, raw : BOOLEAN]
  <2>1. CASE ~op.raw
    BY <1>0, <1>2, <2>1 DEF Edited, ReplaceData, Abs!Trees, Abs!Files
  <2>2. CASE op.raw
    <3> DEFINE given == [n \in {op.file[2]} |-> op.doc]
    <3>1. Edited(op, tree) = WriteDirectory(op.file[1], given, tree)
      BY <1>2, <2>2 DEF Edited
    <3>2. ASSUME NEW f \in Dirs \X Names, f[2] \in DOMAIN given
          PROVE  given[f[2]] \in Abs!Docs
      BY <1>2, <3>2
    <3> HIDE DEF given
    <3> QED BY <1>0, <3>1, <3>2 DEF WriteDirectory, Abs!Trees, Abs!Files
  <2> QED BY <1>2, <2>1, <2>2
<1>3. CASE op \in [kind : {"delete"}, dir : Dirs]
  BY <1>0, <1>3 DEF Edited, DeleteDirectory, Abs!Trees, Abs!Files
<1>4. CASE op \in [kind : {"tree"}, dir : Dirs, docs : [Names -> Abs!Docs \cup {NoDoc}]]
  <2> DEFINE given == [n \in {m \in Names : op.docs[m] # NoDoc} |-> op.docs[n]]
  <2>1. Edited(op, tree) = WriteDirectory(op.dir, given, tree)
    BY <1>4 DEF Edited
  <2>2. ASSUME NEW f \in Dirs \X Names, f[2] \in DOMAIN given
        PROVE  given[f[2]] \in Abs!Docs
    BY <1>4, <2>2
  <2> HIDE DEF given
  <2> QED BY <1>0, <2>1, <2>2 DEF WriteDirectory, Abs!Trees, Abs!Files
<1> QED BY <1>1, <1>2, <1>3, <1>4 DEF Abs!Ops

LEMMA InitGitInv == GitInit => GitInv
<1> SUFFICES ASSUME GitInit PROVE GitInv
  OBVIOUS
<1> USE GitStoreAssumption, CallsAssumption
<1>1. branch = <<InitTree>> /\ Newest = 1 /\ branch[1] = InitTree
  BY DEF GitInit, Newest
<1>2. GitTypeOK
  <2>1. branch \in Seq(Abs!Trees) /\ Newest \in 1..MaxCommits
    BY <1>1
  <2>2. NoClone \in Clones /\ NoClone.at = 0
    BY DEF NoClone, Clones
  <2>3. /\ clone \in [Procs -> Clones]
        /\ \A p \in Procs : clone[p].at \in 0..Newest /\ (clone[p].at # 0 => clone[p].tree \in Abs!Trees)
    BY <1>1, <2>2 DEF GitInit
  <2>4. /\ owner \in [Procs -> Clients \cup {NoDoc}] /\ git \in [Clients -> GitCalls]
        /\ due \in [Procs -> 1..Newest] /\ crashes \in 0..MaxCrashes
    BY <1>1 DEF GitInit, GitCalls
  <2> QED BY <2>1, <2>3, <2>4 DEF GitTypeOK
<1>3. MutexHeldByCommitter /\ CommitIsOnTop
  BY DEF GitInit, MutexHeldByCommitter, CommitIsOnTop, Idle
<1>4. FreshCloneIsCurrent /\ ReadsAreCurrent
  BY DEF GitInit, FreshCloneIsCurrent, ReadsAreCurrent, NoClone
<1> QED BY <1>2, <1>3, <1>4 DEF GitInv

(* Facts about a call and about the process it runs in. *)
LEMMA CallFacts ==
  ASSUME GitTypeOK, NEW c \in Clients
  PROVE  /\ ProcOf[c] \in Procs
         /\ git[c].pc \in {"called", "committed", "done"} => git[c].op \in Abs!Ops
         /\ git[c].pc \in {"called", "committed"} =>
              git[c] = [pc |-> git[c].pc, op |-> git[c].op]
         /\ Newest \in Nat \ {0} /\ branch[Newest] \in Abs!Trees
         /\ Synced \in Clones
<1>1. git[c] \in GitCalls /\ ProcOf[c] \in Procs
  BY GitStoreAssumption DEF GitTypeOK
<1>2. Newest \in Nat \ {0} /\ branch[Newest] \in Abs!Trees
  BY GitStoreAssumption DEF GitTypeOK, Newest
<1>3. Synced \in Clones
  BY <1>2 DEF Synced, Clones
<1> QED BY <1>1, <1>2, <1>3 DEF GitCalls, Idle

LEMMA InvokeInv ==
  ASSUME GitInv, NEW c \in Clients, GitInvoke(c)
  PROVE  GitInv'
<1> USE GitStoreAssumption, CallsAssumption
<1>1. PICK op \in CallsOf[c] :
        git[c] = Idle /\ git' = [git EXCEPT ![c] = [pc |-> "called", op |-> op]]
  BY DEF GitInvoke
<1>2. op \in Abs!Ops
  BY <1>1
<1>3. /\ got' = NoDoc /\ branch' = branch /\ clone' = clone /\ owner' = owner
      /\ due' = due /\ crashes' = crashes /\ Newest' = Newest
  BY DEF GitInvoke, NoRead, Newest
<1>4. [pc |-> "called", op |-> op] \in GitCalls
  BY <1>2 DEF GitCalls
<1>5. GitTypeOK'
  BY <1>1, <1>3, <1>4 DEF GitInv, GitTypeOK
<1>6. git \in [Clients -> GitCalls]
  BY DEF GitInv, GitTypeOK
<1>7. MutexHeldByCommitter'
  BY <1>1, <1>3, <1>6 DEF GitInv, MutexHeldByCommitter, Idle, GitTypeOK
<1>8. CommitIsOnTop'
  BY <1>1, <1>3, <1>6 DEF GitInv, CommitIsOnTop, Idle
<1>9. FreshCloneIsCurrent' /\ ReadsAreCurrent'
  BY <1>3 DEF GitInv, FreshCloneIsCurrent, ReadsAreCurrent
<1> QED BY <1>5, <1>7, <1>8, <1>9 DEF GitInv

LEMMA ReturnInv ==
  ASSUME GitInv, NEW c \in Clients, GitReturn(c)
  PROVE  GitInv'
<1> USE GitStoreAssumption
<1>1. git[c].pc = "done" /\ git' = [git EXCEPT ![c] = Idle]
  BY DEF GitReturn
<1>3. /\ got' = NoDoc /\ branch' = branch /\ clone' = clone /\ owner' = owner
      /\ due' = due /\ crashes' = crashes /\ Newest' = Newest
  BY DEF GitReturn, NoRead, Newest
<1>4. Idle \in GitCalls /\ Idle.pc # "committed"
  BY DEF GitCalls, Idle
<1>5. GitTypeOK'
  BY <1>1, <1>3, <1>4 DEF GitInv, GitTypeOK
<1>6. git \in [Clients -> GitCalls]
  BY DEF GitInv, GitTypeOK
<1>7. MutexHeldByCommitter'
  BY <1>1, <1>3, <1>4, <1>6 DEF GitInv, MutexHeldByCommitter, GitTypeOK
<1>8. CommitIsOnTop'
  BY <1>1, <1>3, <1>4, <1>6 DEF GitInv, CommitIsOnTop
<1>9. FreshCloneIsCurrent' /\ ReadsAreCurrent'
  BY <1>3 DEF GitInv, FreshCloneIsCurrent, ReadsAreCurrent
<1> QED BY <1>5, <1>7, <1>8, <1>9 DEF GitInv

(* A step that replaces the clone of a process whose mutex is free by one of   *)
(* a commit of the branch disturbs no clone that somebody is about to push.  *)
LEMMA CloneInv ==
  ASSUME GitInv, NEW p \in Procs, NEW cl \in Clones,
         owner[p] = NoDoc, UNCHANGED branch, clone' = [clone EXCEPT ![p] = cl],
         cl.at \in 0..Newest /\ (cl.at # 0 => cl.tree \in Abs!Trees),
         cl.fresh => cl.at \in due'[p]..Newest /\ cl.tree = branch[cl.at],
         \A q \in Procs \ {p} : due'[q] = due[q] /\ owner'[q] = owner[q],
         \A b \in Clients : git'[b].pc = "committed" => git'[b] = git[b]
  PROVE  /\ clone' \in [Procs -> Clones]
         /\ \A q \in Procs :
              clone'[q].at \in 0..Newest' /\ (clone'[q].at # 0 => clone'[q].tree \in Abs!Trees)
         /\ CommitIsOnTop' /\ FreshCloneIsCurrent'
<1>1. Newest' = Newest
  BY DEF Newest
<1>2. clone' \in [Procs -> Clones]
  BY DEF GitInv, GitTypeOK
<1>3. clone'[p] = cl /\ \A q \in Procs \ {p} : clone'[q] = clone[q]
  BY DEF GitInv, GitTypeOK
<1>4. \A q \in Procs :
        clone'[q].at \in 0..Newest' /\ (clone'[q].at # 0 => clone'[q].tree \in Abs!Trees)
  BY <1>1, <1>3 DEF GitInv, GitTypeOK
<1>5. ASSUME NEW b \in Clients, git'[b].pc = "committed"
      PROVE  /\ git'[b] = git[b] /\ git[b].pc = "committed"
             /\ clone'[ProcOf[b]] = clone[ProcOf[b]]
  <2>1. git'[b] = git[b] /\ git[b].pc = "committed"
    BY <1>5
  <2>2. owner[ProcOf[b]] = b /\ b # NoDoc
    BY <2>1, GitStoreAssumption DEF GitInv, MutexHeldByCommitter
  <2>3. ProcOf[b] # p /\ ProcOf[b] \in Procs
    BY <2>2, GitStoreAssumption
  <2> QED BY <1>3, <2>1, <2>3
<1>6. CommitIsOnTop'
  BY <1>1, <1>5 DEF GitInv, CommitIsOnTop
<1>7. FreshCloneIsCurrent'
  BY <1>1, <1>3 DEF GitInv, FreshCloneIsCurrent
<1> QED BY <1>2, <1>4, <1>6, <1>7

LEMMA ReadInv ==
  ASSUME GitInv, NEW c \in Clients, ReadFile(c) \/ ReadFails(c)
  PROVE  GitInv'
<1> DEFINE p == ProcOf[c]
<1>1. p \in Procs /\ Newest \in Nat \ {0} /\ branch[Newest] \in Abs!Trees /\ Synced \in Clones
  BY CallFacts DEF GitInv
<1>2. owner[p] = NoDoc /\ UNCHANGED <<branch, owner, git, crashes>> /\ Newest' = Newest
  BY DEF ReadFile, ReadFails, Newest
<1>3. clone[p] \in Clones /\ clone[p].at \in 0..Newest /\ (clone[p].at # 0 => clone[p].tree \in Abs!Trees)
  BY <1>1 DEF GitInv, GitTypeOK
<1>4. clone[p].fresh => clone[p].at \in due[p]..Newest /\ clone[p].tree = branch[clone[p].at]
  BY <1>1, <1>2 DEF GitInv, FreshCloneIsCurrent
<1>5. due \in [Procs -> 1..Newest]
  BY DEF GitInv, GitTypeOK
<1> HIDE DEF p
<1>6. MutexHeldByCommitter'
  BY <1>2 DEF GitInv, MutexHeldByCommitter
<1>7. \A b \in Clients : git'[b].pc = "committed" => git'[b] = git[b]
  BY <1>2
<1>8. CASE ReadFile(c)
  <2> DEFINE cl == IF clone[p].open /\ clone[p].fresh THEN clone[p] ELSE Synced
  <2>1. /\ clone' = [clone EXCEPT ![p] = cl] /\ due' = [due EXCEPT ![p] = cl.at]
        /\ got' = [at |-> cl.at, tree |-> cl.tree, due |-> due[p]]
    BY <1>8 DEF ReadFile, p
  <2>2. /\ cl \in Clones /\ cl.at \in 1..Newest /\ cl.tree \in Abs!Trees
        /\ cl.tree = branch[cl.at] /\ cl.at >= due[p]
    BY <1>1, <1>3, <1>4, <1>5 DEF Synced, NoClone
  <2> HIDE DEF cl
  <2>3. due' \in [Procs -> 1..Newest] /\ due'[p] = cl.at /\ \A q \in Procs \ {p} : due'[q] = due[q]
    BY <1>1, <1>5, <2>1, <2>2
  <2>4. cl.at \in due'[p]..Newest
    BY <1>1, <2>2, <2>3
  <2>5. /\ clone' \in [Procs -> Clones] /\ CommitIsOnTop' /\ FreshCloneIsCurrent'
        /\ \A q \in Procs :
             clone'[q].at \in 0..Newest' /\ (clone'[q].at # 0 => clone'[q].tree \in Abs!Trees)
    <3>1. /\ cl \in Clones /\ clone' = [clone EXCEPT ![p] = cl] /\ UNCHANGED branch
          /\ cl.at \in 0..Newest /\ (cl.at # 0 => cl.tree \in Abs!Trees)
          /\ cl.fresh => cl.at \in due'[p]..Newest /\ cl.tree = branch[cl.at]
          /\ \A q \in Procs \ {p} : due'[q] = due[q] /\ owner'[q] = owner[q]
      BY <1>1, <1>2, <2>1, <2>2, <2>3, <2>4
    <3> QED BY <1>1, <1>2, <1>7, <3>1, CloneInv
  <2>6. GitTypeOK'
    BY <1>2, <2>3, <2>5 DEF GitInv, GitTypeOK
  <2>7. ReadsAreCurrent'
    BY <1>2, <2>1, <2>2 DEF ReadsAreCurrent
  <2> QED BY <1>6, <2>5, <2>6, <2>7 DEF GitInv
<1>9. CASE ReadFails(c)
  <2> DEFINE cl == Opened(clone[p])
  <2>1. clone' = [clone EXCEPT ![p] = cl] /\ due' = due /\ got' = NoDoc
    BY <1>1, <1>9 DEF ReadFails, NoRead, p, GitInv, GitTypeOK
  <2>2. /\ cl \in Clones /\ cl.at \in 0..Newest /\ (cl.at # 0 => cl.tree \in Abs!Trees)
        /\ cl.fresh = clone[p].fresh /\ cl.at = clone[p].at /\ cl.tree = clone[p].tree
    BY <1>3 DEF Opened, Clones, NoClone
  <2> HIDE DEF cl
  <2>3. /\ clone' \in [Procs -> Clones] /\ CommitIsOnTop' /\ FreshCloneIsCurrent'
        /\ \A q \in Procs :
             clone'[q].at \in 0..Newest' /\ (clone'[q].at # 0 => clone'[q].tree \in Abs!Trees)
    BY <1>1, <1>2, <1>4, <1>7, <2>1, <2>2, CloneInv
  <2>4. GitTypeOK'
    BY <1>2, <2>1, <2>3 DEF GitInv, GitTypeOK
  <2>5. ReadsAreCurrent'
    BY <2>1 DEF ReadsAreCurrent
  <2> QED BY <1>6, <2>3, <2>4, <2>5 DEF GitInv
<1> QED BY <1>8, <1>9

LEMMA ExpireInv ==
  ASSUME GitInv, NEW p \in Procs, Expire(p)
  PROVE  GitInv'
<1>1. /\ UNCHANGED <<branch, owner, git, crashes>> /\ Newest' = Newest /\ got' = NoDoc
      /\ clone' = [clone EXCEPT ![p].fresh = FALSE] /\ due' = [due EXCEPT ![p] = Newest]
  BY DEF Expire, NoRead, Newest
<1>2. Newest \in Nat \ {0}
  BY GitStoreAssumption DEF GitInv, GitTypeOK
<1>3. /\ clone[p] \in Clones /\ clone'[p] = [clone[p] EXCEPT !.fresh = FALSE]
      /\ \A q \in Procs \ {p} : clone'[q] = clone[q]
      /\ clone'[p].at = clone[p].at /\ clone'[p].tree = clone[p].tree /\ clone'[p].fresh = FALSE
      /\ clone' \in [Procs -> Clones]
  BY <1>1 DEF GitInv, GitTypeOK, Clones
<1>5. due' \in [Procs -> 1..Newest] /\ \A q \in Procs \ {p} : due'[q] = due[q]
  BY <1>1, <1>2 DEF GitInv, GitTypeOK
<1>6. GitTypeOK'
  BY <1>1, <1>3, <1>5 DEF GitInv, GitTypeOK
<1>7. MutexHeldByCommitter'
  BY <1>1 DEF GitInv, MutexHeldByCommitter
<1>8. \A q \in Procs : clone'[q].at = clone[q].at /\ clone'[q].tree = clone[q].tree
  BY <1>3
<1>9. CommitIsOnTop'
  BY <1>1, <1>8, GitStoreAssumption DEF GitInv, CommitIsOnTop
<1>10. FreshCloneIsCurrent'
  BY <1>1, <1>3, <1>5 DEF GitInv, FreshCloneIsCurrent
<1>11. ReadsAreCurrent'
  BY <1>1 DEF ReadsAreCurrent
<1> QED BY <1>6, <1>7, <1>9, <1>10, <1>11 DEF GitInv

LEMMA CrashInv ==
  ASSUME GitInv, NEW p \in Procs, GitCrash(p)
  PROVE  GitInv'
<1>1. PICK kept \in BOOLEAN :
        clone' = [clone EXCEPT ![p] = IF kept THEN [@ EXCEPT !.open = FALSE, !.fresh = FALSE] ELSE NoClone]
  BY DEF GitCrash
<1>2. /\ UNCHANGED <<branch, due>> /\ Newest' = Newest /\ got' = NoDoc
      /\ crashes < MaxCrashes /\ crashes' = crashes + 1
      /\ owner' = [owner EXCEPT ![p] = NoDoc]
      /\ git' = [c \in Clients |-> IF ProcOf[c] = p THEN Idle ELSE git[c]]
  BY DEF GitCrash, NoRead, Newest
<1>3. /\ clone'[p].fresh = FALSE
      /\ \A q \in Procs \ {p} : clone'[q] = clone[q]
      /\ clone' \in [Procs -> Clones]
      /\ clone'[p].at \in 0..Newest /\ (clone'[p].at # 0 => clone'[p].tree \in Abs!Trees)
  <2> DEFINE shut == [clone[p] EXCEPT !.open = FALSE, !.fresh = FALSE]
             cl   == IF kept THEN shut ELSE NoClone
  <2>1. clone[p] \in Clones /\ clone \in [Procs -> Clones]
        /\ clone[p].at \in 0..Newest /\ (clone[p].at # 0 => clone[p].tree \in Abs!Trees)
    BY DEF GitInv, GitTypeOK
  <2>2. shut \in Clones /\ shut.fresh = FALSE /\ shut.at = clone[p].at /\ shut.tree = clone[p].tree
    BY <2>1 DEF Clones
  <2>3. NoClone \in Clones /\ NoClone.fresh = FALSE /\ NoClone.at = 0 /\ Newest \in Nat
    BY GitStoreAssumption DEF Clones, NoClone, GitInv, GitTypeOK
  <2>5. /\ cl \in Clones /\ cl.fresh = FALSE
        /\ cl.at \in 0..Newest /\ (cl.at # 0 => cl.tree \in Abs!Trees)
    BY <2>1, <2>2, <2>3
  <2>6. clone' = [clone EXCEPT ![p] = cl]
    BY <1>1, <2>1
  <2> HIDE DEF cl
  <2> QED BY <2>1, <2>5, <2>6
<1>4. Idle \in GitCalls /\ Idle.pc # "committed"
  BY DEF GitCalls, Idle
<1>5. git' \in [Clients -> GitCalls] /\ owner' \in [Procs -> Clients \cup {NoDoc}]
  BY <1>2, <1>4 DEF GitInv, GitTypeOK
<1>6. crashes' \in 0..MaxCrashes
  BY <1>2, GitStoreAssumption DEF GitInv, GitTypeOK
<1>7. GitTypeOK'
  BY <1>2, <1>3, <1>5, <1>6 DEF GitInv, GitTypeOK
<1>8. \A c \in Clients : git'[c].pc = "committed" => ProcOf[c] # p /\ git'[c] = git[c]
  BY <1>2, <1>4
<1>9. MutexHeldByCommitter'
  <2>1. \A q \in Procs : owner'[q] # NoDoc => q # p /\ owner'[q] = owner[q] /\ owner[q] \in Clients
    BY <1>2 DEF GitInv, GitTypeOK
  <2>2. \A q \in Procs : owner'[q] # NoDoc =>
          git'[owner'[q]].pc = "committed" /\ ProcOf[owner'[q]] = q
    BY <1>2, <2>1 DEF GitInv, MutexHeldByCommitter
  <2>3. \A c \in Clients : git'[c].pc = "committed" => owner'[ProcOf[c]] = c
    BY <1>2, <1>8, GitStoreAssumption DEF GitInv, MutexHeldByCommitter, GitTypeOK
  <2> QED BY <2>2, <2>3 DEF MutexHeldByCommitter
<1>10. \A c \in Clients : git'[c].pc = "committed" => clone'[ProcOf[c]] = clone[ProcOf[c]]
  BY <1>3, <1>8, GitStoreAssumption
<1>11. CommitIsOnTop'
  BY <1>2, <1>8, <1>10 DEF GitInv, CommitIsOnTop
<1>12. FreshCloneIsCurrent'
  BY <1>2, <1>3 DEF GitInv, FreshCloneIsCurrent, GitTypeOK
<1>13. ReadsAreCurrent'
  BY <1>2 DEF ReadsAreCurrent
<1> QED BY <1>7, <1>9, <1>11, <1>12, <1>13 DEF GitInv

(* From Lock to the commit: either the mutex is free again, or the caller   *)
(* holds it and the clone is one commit ahead of what it was fetched at.    *)
LEMMA StageInv ==
  ASSUME GitInv, NEW c \in Clients, Stage(c)
  PROVE  GitInv'
<1> DEFINE p   == ProcOf[c]
           op  == git[c].op
           new == Edited(op, branch[Newest])
           answer == IF ~Missing(op, branch[Newest]) /\ new = branch[Newest] THEN "unchanged" ELSE "error"
<1>1. /\ p \in Procs /\ Newest \in Nat \ {0} /\ branch[Newest] \in Abs!Trees /\ Synced \in Clones
      /\ git[c].pc = "called" /\ op \in Abs!Ops
  BY CallFacts DEF GitInv, Stage
<1>2. /\ owner[p] = NoDoc /\ UNCHANGED <<branch, due, crashes>> /\ Newest' = Newest /\ got' = NoDoc
  BY DEF Stage, NoRead, Newest
<1>3. /\ clone[p] \in Clones /\ clone[p].at \in 0..Newest /\ (clone[p].at # 0 => clone[p].tree \in Abs!Trees)
      /\ clone[p].fresh => clone[p].at \in due[p]..Newest /\ clone[p].tree = branch[clone[p].at]
      /\ due \in [Procs -> 1..Newest]
  BY <1>1, <1>2 DEF GitInv, GitTypeOK, FreshCloneIsCurrent
<1>4. \A b \in Clients : git[b].pc = "committed" => ProcOf[b] # p
  BY <1>2, GitStoreAssumption DEF GitInv, MutexHeldByCommitter
<1>5. ReadsAreCurrent'
  BY <1>2 DEF ReadsAreCurrent
<1>6. \/ /\ git' = [git EXCEPT ![c] = Done(op, "error")]
         /\ clone' = [clone EXCEPT ![p] = Opened(@)] /\ UNCHANGED owner
      \/ /\ git' = [git EXCEPT ![c] = Done(op, answer)]
         /\ clone' = [clone EXCEPT ![p] = Synced] /\ UNCHANGED owner
      \/ /\ ~Missing(op, branch[Newest]) /\ new # branch[Newest] /\ Newest < MaxCommits
         /\ clone' = [clone EXCEPT ![p] = [Synced EXCEPT !.tree = new]]
         /\ git' = [git EXCEPT ![c].pc = "committed"]
         /\ owner' = [owner EXCEPT ![p] = c]
  BY DEF Stage
<1>7. answer \in {"unchanged", "error"}
  OBVIOUS
<1> HIDE DEF p, op, new, answer
<1>8. ASSUME NEW a \in {"unchanged", "error"}, NEW cl \in {Opened(clone[p]), Synced},
             git' = [git EXCEPT ![c] = Done(op, a)], clone' = [clone EXCEPT ![p] = cl], UNCHANGED owner
      PROVE  GitInv'
  <2>1. /\ cl \in Clones /\ cl.at \in 0..Newest /\ (cl.at # 0 => cl.tree \in Abs!Trees)
        /\ cl.fresh => cl.at \in due[p]..Newest /\ cl.tree = branch[cl.at]
    <3>1. CASE cl = Synced
      BY <1>1, <1>3, <3>1 DEF Synced
    <3>2. CASE cl = Opened(clone[p]) /\ clone[p].at = 0
      BY <1>3, <3>2 DEF Opened
    <3>3. CASE cl = Opened(clone[p]) /\ clone[p].at # 0
      <4>1. cl = [clone[p] EXCEPT !.open = TRUE]
        BY <3>3 DEF Opened
      <4>2. cl \in Clones /\ cl.at = clone[p].at /\ cl.tree = clone[p].tree /\ cl.fresh = clone[p].fresh
        BY <1>3, <4>1 DEF Clones
      <4> QED BY <1>3, <4>2
    <3> QED BY <3>1, <3>2, <3>3
  <2>2. Done(op, a) \in GitCalls /\ Done(op, a).pc = "done"
    BY <1>1 DEF Done, GitCalls
  <2>3. git' \in [Clients -> GitCalls]
    BY <1>8, <2>2 DEF GitInv, GitTypeOK
  <2>4. \A b \in Clients : git'[b].pc = "committed" => b # c /\ git'[b] = git[b]
    BY <1>8, <2>2 DEF GitInv, GitTypeOK
  <2>5. /\ clone' \in [Procs -> Clones] /\ CommitIsOnTop' /\ FreshCloneIsCurrent'
        /\ \A q \in Procs :
             clone'[q].at \in 0..Newest' /\ (clone'[q].at # 0 => clone'[q].tree \in Abs!Trees)
    <3>1. /\ UNCHANGED branch /\ \A q \in Procs \ {p} : due'[q] = due[q] /\ owner'[q] = owner[q]
          /\ cl.fresh => cl.at \in due'[p]..Newest /\ cl.tree = branch[cl.at]
      BY <1>2, <1>8, <2>1
    <3> QED BY <1>1, <1>2, <1>8, <2>1, <2>4, <3>1, CloneInv
  <2>6. MutexHeldByCommitter'
    <3>1. \A b \in Clients : git[b].pc = "committed" => git'[b] = git[b]
      BY <1>1, <1>8 DEF GitInv, GitTypeOK
    <3>2. \A q \in Procs : owner[q] # NoDoc => owner[q] \in Clients
      BY DEF GitInv, GitTypeOK
    <3> QED BY <1>8, <2>4, <3>1, <3>2 DEF GitInv, MutexHeldByCommitter
  <2>7. GitTypeOK'
    BY <1>2, <1>8, <2>3, <2>5 DEF GitInv, GitTypeOK
  <2> QED BY <1>5, <2>5, <2>6, <2>7 DEF GitInv
<1>9. ASSUME ~Missing(op, branch[Newest]), new # branch[Newest], Newest < MaxCommits,
             clone' = [clone EXCEPT ![p] = [Synced EXCEPT !.tree = new]],
             git' = [git EXCEPT ![c].pc = "committed"], owner' = [owner EXCEPT ![p] = c]
      PROVE  GitInv'
  <2> DEFINE cl == [Synced EXCEPT !.tree = new]
  <2>1. new \in Abs!Trees /\ new = Edited(op, branch[Newest])
    BY <1>1, <1>9, EditedType DEF new
  <2>2. cl \in Clones /\ cl.at = Newest /\ cl.tree = new
    BY <1>1, <2>1 DEF Synced, Clones
  <2>3. clone' = [clone EXCEPT ![p] = cl]
    BY <1>9
  <2> HIDE DEF cl
  <2>4. clone'[p] = cl /\ clone' \in [Procs -> Clones] /\ \A q \in Procs \ {p} : clone'[q] = clone[q]
    BY <1>1, <2>2, <2>3 DEF GitInv, GitTypeOK
  <2>5. git[c] = [pc |-> "called", op |-> op] /\ git \in [Clients -> GitCalls]
    BY <1>1, CallFacts DEF GitInv, GitTypeOK, op
  <2>6. /\ git'[c] = [pc |-> "committed", op |-> op] /\ git' \in [Clients -> GitCalls]
        /\ \A b \in Clients \ {c} : git'[b] = git[b]
    <3>1. git' = [git EXCEPT ![c] = [pc |-> "committed", op |-> op]]
      <4>1. [git[c] EXCEPT !.pc = "committed"] = [pc |-> "committed", op |-> op]
        BY <2>5
      <4> QED BY <1>9, <4>1
    <3>2. [pc |-> "committed", op |-> op] \in GitCalls
      BY <1>1 DEF GitCalls
    <3> QED BY <2>5, <3>1, <3>2
  <2>7. owner' \in [Procs -> Clients \cup {NoDoc}] /\ owner'[p] = c /\ \A q \in Procs \ {p} : owner'[q] = owner[q]
    BY <1>1, <1>9 DEF GitInv, GitTypeOK
  <2>8. GitTypeOK'
    <3>1. \A q \in Procs : clone'[q].at \in 0..Newest' /\ (clone'[q].at # 0 => clone'[q].tree \in Abs!Trees)
      BY <1>1, <1>2, <2>1, <2>2, <2>4 DEF GitInv, GitTypeOK
    <3> QED BY <1>2, <2>4, <2>6, <2>7, <3>1 DEF GitInv, GitTypeOK
  <2>9. \A b \in Clients \ {c} : git'[b].pc = "committed" => ProcOf[b] # p /\ git'[b] = git[b]
    BY <1>4, <2>6
  <2>10. MutexHeldByCommitter'
    <3>1. \A b \in Clients : git'[b].pc = "committed" => owner'[ProcOf[b]] = b
      BY <2>7, <2>9, GitStoreAssumption DEF GitInv, MutexHeldByCommitter, p
    <3>2. \A q \in Procs : owner'[q] # NoDoc => git'[owner'[q]].pc = "committed" /\ ProcOf[owner'[q]] = q
      <4> SUFFICES ASSUME NEW q \in Procs, owner'[q] # NoDoc
                   PROVE  git'[owner'[q]].pc = "committed" /\ ProcOf[owner'[q]] = q
        OBVIOUS
      <4>1. CASE q = p
        BY <2>6, <2>7, <4>1 DEF p
      <4>2. CASE q # p
        <5>1. owner'[q] = owner[q] /\ owner[q] \in Clients
          BY <2>7, <4>2 DEF GitInv, GitTypeOK
        <5>2. git[owner[q]].pc = "committed" /\ ProcOf[owner[q]] = q
          BY <5>1 DEF GitInv, MutexHeldByCommitter
        <5>3. owner[q] # c
          BY <1>1, <5>2
        <5> QED BY <2>6, <5>1, <5>2, <5>3
      <4> QED BY <4>1, <4>2
    <3> QED BY <3>1, <3>2 DEF MutexHeldByCommitter
  <2>11. CommitIsOnTop'
    <3>1. \A b \in Clients \ {c} : git'[b].pc = "committed" => clone'[ProcOf[b]] = clone[ProcOf[b]]
      BY <2>4, <2>9, GitStoreAssumption
    <3>2. \A b \in Clients \ {c} : git'[b].pc = "committed" =>
            /\ clone'[ProcOf[b]].at \in 1..Newest' /\ clone'[ProcOf[b]].at < MaxCommits
            /\ ~Missing(git'[b].op, branch'[clone'[ProcOf[b]].at])
            /\ clone'[ProcOf[b]].tree = Edited(git'[b].op, branch'[clone'[ProcOf[b]].at])
            /\ clone'[ProcOf[b]].tree # branch'[clone'[ProcOf[b]].at]
      BY <1>2, <2>9, <3>1 DEF GitInv, CommitIsOnTop
    <3>3. /\ clone'[ProcOf[c]].at \in 1..Newest' /\ clone'[ProcOf[c]].at < MaxCommits
          /\ ~Missing(git'[c].op, branch'[clone'[ProcOf[c]].at])
          /\ clone'[ProcOf[c]].tree = Edited(git'[c].op, branch'[clone'[ProcOf[c]].at])
          /\ clone'[ProcOf[c]].tree # branch'[clone'[ProcOf[c]].at]
      <4>1. /\ clone'[ProcOf[c]].at = Newest /\ clone'[ProcOf[c]].tree = new
            /\ git'[c].op = op /\ branch' = branch
        BY <1>2, <2>2, <2>4, <2>6 DEF p
      <4> QED BY <1>1, <1>2, <1>9, <2>1, <4>1
    <3> QED BY <3>2, <3>3 DEF CommitIsOnTop
  <2>12. FreshCloneIsCurrent'
    BY <1>1, <1>2, <1>3, <2>2, <2>4, <2>7, GitStoreAssumption DEF GitInv, FreshCloneIsCurrent
  <2> QED BY <1>5, <2>8, <2>10, <2>11, <2>12 DEF GitInv
<1> QED BY <1>6, <1>7, <1>8, <1>9

(* A push appends: the commits the branch had stay where they are. *)
LEMMA BranchGrows ==
  ASSUME GitTypeOK, NEW tree \in Abs!Trees, branch' \in {branch, Append(branch, tree)}
  PROVE  /\ branch' \in Seq(Abs!Trees) /\ Newest \in Nat \ {0}
         /\ \A i \in 1..Newest : branch'[i] = branch[i]
         /\ branch' = branch => Newest' = Newest
         /\ branch' = Append(branch, tree) => Newest' = Newest + 1 /\ branch'[Newest + 1] = tree
<1>1. branch \in Seq(Abs!Trees) /\ Len(branch) \in Nat \ {0}
  BY GitStoreAssumption DEF GitTypeOK, Newest
<1>2. CASE branch' = branch
  <2>1. branch # Append(branch, tree)
    <3>1. Len(Append(branch, tree)) = Len(branch) + 1
      BY <1>1
    <3> QED BY <1>1, <3>1
  <2> QED BY <1>1, <1>2, <2>1 DEF Newest
<1>3. CASE branch' = Append(branch, tree)
  <2>1. Len(branch') = Len(branch) + 1 /\ branch' \in Seq(Abs!Trees)
    BY <1>1, <1>3
  <2>2. \A i \in 1..Len(branch) : branch'[i] = branch[i]
    BY <1>1, <1>3
  <2>3. branch'[Len(branch) + 1] = tree
    BY <1>1, <1>3
  <2> QED BY <1>1, <2>1, <2>2, <2>3 DEF Newest
<1> QED BY <1>2, <1>3

(* The push: the mutex is free again, and the clone holds either the new    *)
(* newest commit or the one the refused commit was made on.                 *)
LEMMA PushInv ==
  ASSUME GitInv, NEW c \in Clients, Push(c)
  PROVE  GitInv'
<1> DEFINE p  == ProcOf[c]
           op == git[c].op
<1>1. /\ p \in Procs /\ Newest \in Nat \ {0} /\ git[c].pc = "committed" /\ op \in Abs!Ops
      /\ git[c] = [pc |-> "committed", op |-> op]
  BY CallFacts DEF GitInv, Push
<1>2. /\ owner[p] = c /\ owner' = [owner EXCEPT ![p] = NoDoc] /\ got' = NoDoc /\ crashes' = crashes
  BY <1>1 DEF GitInv, MutexHeldByCommitter, Push, NoRead
<1>3. /\ clone[p] \in Clones /\ clone[p].at \in 1..Newest /\ clone[p].tree \in Abs!Trees
      /\ clone[p].at < MaxCommits
      /\ clone[p].fresh => clone[p].at >= due[p]
      /\ due \in [Procs -> 1..Newest] /\ clone \in [Procs -> Clones]
  BY <1>1 DEF GitInv, GitTypeOK, FreshCloneIsCurrent, CommitIsOnTop
<1> DEFINE Landed(cl, a) ==
        /\ git' = [git EXCEPT ![c] = Done(op, a)]
        /\ clone' = [clone EXCEPT ![p] = cl]
        /\ branch' \in {branch, Append(branch, clone[p].tree)}
        /\ branch' = Append(branch, clone[p].tree) => clone[p].at = Newest
        /\ cl.at \in 1..Newest' /\ cl.tree \in Abs!Trees /\ cl.tree = branch'[cl.at]
        /\ due' \in [Procs -> 1..Newest'] /\ \A q \in Procs \ {p} : due'[q] = due[q]
        /\ cl.fresh => cl.at >= due'[p]
<1>4. \E cl \in Clones, a \in {"changed", "error"} : Landed(cl, a)
  <2> DEFINE ahead == clone[p].at = Newest
  <2> HIDE DEF p
  <2>1. CASE /\ ahead /\ branch' = Append(branch, clone[p].tree)
             /\ clone' = [clone EXCEPT ![p].at = Newest + 1, ![p].fresh = TRUE]
             /\ git' = [git EXCEPT ![c] = Done(op, "changed")]
             /\ due' = [due EXCEPT ![p] = Newest + 1]
    <3> DEFINE cl == [clone[p] EXCEPT !.at = Newest + 1, !.fresh = TRUE]
    <3>1. /\ Newest' = Newest + 1 /\ branch'[Newest + 1] = clone[p].tree
      BY <1>3, <2>1, BranchGrows DEF GitInv
    <3>2. cl \in Clones /\ cl.at = Newest + 1 /\ cl.tree = clone[p].tree
      <4>1. Newest + 1 \in Nat /\ TRUE \in BOOLEAN
        BY <1>1
      <4> QED BY <1>3, <4>1 DEF Clones
    <3>3. clone' = [clone EXCEPT ![p] = cl]
      BY <1>1, <1>3, <2>1
    <3>4. due' \in [Procs -> 1..Newest'] /\ due'[p] = Newest + 1 /\ \A q \in Procs \ {p} : due'[q] = due[q]
      BY <1>1, <1>3, <2>1, <3>1
    <3> HIDE DEF cl
    <3>5. cl.at \in 1..Newest' /\ cl.tree \in Abs!Trees /\ cl.tree = branch'[cl.at] /\ cl.at >= due'[p]
      BY <1>1, <1>3, <3>1, <3>2, <3>4
    <3>6. Landed(cl, "changed")
      BY <2>1, <3>3, <3>4, <3>5
    <3> QED BY <3>2, <3>6
  <2>2. CASE /\ branch' \in {branch} \cup (IF ahead THEN {Append(branch, clone[p].tree)} ELSE {})
             /\ clone' = [clone EXCEPT ![p] = ResetTo(@)]
             /\ git' = [git EXCEPT ![c] = Done(op, "error")]
             /\ UNCHANGED due
    <3> DEFINE cl == ResetTo(clone[p])
    <3>1. /\ branch' \in {branch, Append(branch, clone[p].tree)} /\ Newest' \in {Newest, Newest + 1}
          /\ branch' = Append(branch, clone[p].tree) => ahead
          /\ \A i \in 1..Newest : branch'[i] = branch[i]
      <4>1. branch' \in {branch, Append(branch, clone[p].tree)}
        BY <2>2
      <4>2. Newest' \in {Newest, Newest + 1} /\ \A i \in 1..Newest : branch'[i] = branch[i]
        BY <1>3, <4>1, BranchGrows DEF GitInv
      <4>3. branch # Append(branch, clone[p].tree)
        <5>1. branch \in Seq(Abs!Trees)
          BY DEF GitInv, GitTypeOK
        <5>2. Len(Append(branch, clone[p].tree)) = Len(branch) + 1 /\ Len(branch) \in Nat
          BY <1>3, <5>1
        <5> QED BY <5>2
      <4> QED BY <2>2, <4>1, <4>2, <4>3
    <3>2. branch[clone[p].at] \in Abs!Trees
      BY <1>3 DEF GitInv, GitTypeOK, Newest
    <3>3. /\ cl \in Clones /\ cl.at = clone[p].at /\ cl.fresh = clone[p].fresh
          /\ cl.tree = branch[clone[p].at]
      BY <1>3, <3>2 DEF ResetTo, Clones
    <3>4. clone' = [clone EXCEPT ![p] = cl]
      BY <1>1, <1>3, <2>2
    <3>5. due' \in [Procs -> 1..Newest'] /\ due' = due
      BY <1>1, <1>3, <2>2, <3>1
    <3>6. cl.at \in 1..Newest' /\ cl.tree \in Abs!Trees /\ cl.tree = branch'[cl.at]
      BY <1>1, <1>3, <3>1, <3>2, <3>3
    <3> HIDE DEF cl
    <3>7. Landed(cl, "error")
      BY <1>3, <2>2, <3>1, <3>3, <3>4, <3>5, <3>6
    <3> QED BY <3>3, <3>7
  <2> QED BY <2>1, <2>2 DEF Push, p
<1>5. PICK cl \in Clones, a \in {"changed", "error"} : Landed(cl, a)
  BY <1>4
<1> HIDE DEF p, op
<1>6. /\ branch' \in Seq(Abs!Trees) /\ Newest' \in {Newest, Newest + 1} /\ Newest' \in 1..MaxCommits
      /\ \A i \in 1..Newest : branch'[i] = branch[i]
  <2>1. Newest \in 1..MaxCommits /\ clone[p].at = Newest => Newest + 1 \in 1..MaxCommits
    BY <1>1, <1>3, GitStoreAssumption
  <2>2. Newest \in 1..MaxCommits
    BY DEF GitInv, GitTypeOK
  <2>3. branch' \in Seq(Abs!Trees) /\ \A i \in 1..Newest : branch'[i] = branch[i]
    BY <1>3, <1>5, BranchGrows DEF GitInv
  <2>4. CASE branch' = branch
    BY <1>3, <2>2, <2>3, <2>4 DEF Newest
  <2>5. CASE branch' = Append(branch, clone[p].tree)
    <3>1. Newest' = Newest + 1
      BY <1>3, <2>5, BranchGrows DEF GitInv
    <3> QED BY <1>5, <2>1, <2>2, <2>3, <2>5, <3>1
  <2> QED BY <1>5, <2>4, <2>5
<1>7. clone'[p] = cl /\ clone' \in [Procs -> Clones] /\ \A q \in Procs \ {p} : clone'[q] = clone[q]
  BY <1>1, <1>3, <1>5
<1>8. Done(op, a) \in GitCalls /\ Done(op, a).pc = "done"
  BY <1>1 DEF Done, GitCalls
<1>9. /\ git' \in [Clients -> GitCalls] /\ git'[c].pc = "done"
      /\ \A b \in Clients \ {c} : git'[b] = git[b]
  BY <1>5, <1>8 DEF GitInv, GitTypeOK
<1>10. owner' \in [Procs -> Clients \cup {NoDoc}] /\ owner'[p] = NoDoc /\ \A q \in Procs \ {p} : owner'[q] = owner[q]
  BY <1>1, <1>2 DEF GitInv, GitTypeOK
<1>11. GitTypeOK'
  <2>1. \A q \in Procs : clone'[q].at \in 0..Newest' /\ (clone'[q].at # 0 => clone'[q].tree \in Abs!Trees)
    BY <1>1, <1>5, <1>6, <1>7 DEF GitInv, GitTypeOK
  <2> QED BY <1>2, <1>5, <1>6, <1>7, <1>9, <1>10, <2>1 DEF GitInv, GitTypeOK
<1>12. \A b \in Clients : git'[b].pc = "committed" => b # c /\ ProcOf[b] # p /\ git'[b] = git[b]
  BY <1>2, <1>9 DEF GitInv, MutexHeldByCommitter
<1>13. MutexHeldByCommitter'
  <2>1. \A b \in Clients : git'[b].pc = "committed" => owner'[ProcOf[b]] = b
    BY <1>10, <1>12, GitStoreAssumption DEF GitInv, MutexHeldByCommitter
  <2>2. ASSUME NEW q \in Procs, owner'[q] # NoDoc
        PROVE  git'[owner'[q]].pc = "committed" /\ ProcOf[owner'[q]] = q
    <3>1. q # p /\ owner'[q] = owner[q] /\ owner[q] \in Clients
      BY <1>10, <2>2 DEF GitInv, GitTypeOK
    <3>2. git[owner[q]].pc = "committed" /\ ProcOf[owner[q]] = q
      BY <2>2, <3>1 DEF GitInv, MutexHeldByCommitter
    <3>3. owner[q] # c
      BY <3>1, <3>2 DEF p
    <3> QED BY <1>9, <3>1, <3>2, <3>3
  <2> QED BY <2>1, <2>2 DEF MutexHeldByCommitter
<1>14. CommitIsOnTop'
  <2> SUFFICES ASSUME NEW b \in Clients, git'[b].pc = "committed"
               PROVE  /\ clone'[ProcOf[b]].at \in 1..Newest' /\ clone'[ProcOf[b]].at < MaxCommits
                      /\ ~Missing(git'[b].op, branch'[clone'[ProcOf[b]].at])
                      /\ clone'[ProcOf[b]].tree = Edited(git'[b].op, branch'[clone'[ProcOf[b]].at])
                      /\ clone'[ProcOf[b]].tree # branch'[clone'[ProcOf[b]].at]
    BY DEF CommitIsOnTop
  <2>1. git'[b] = git[b] /\ clone'[ProcOf[b]] = clone[ProcOf[b]]
    BY <1>7, <1>12, GitStoreAssumption
  <2>2. /\ clone[ProcOf[b]].at \in 1..Newest /\ clone[ProcOf[b]].at < MaxCommits
        /\ ~Missing(git[b].op, branch[clone[ProcOf[b]].at])
        /\ clone[ProcOf[b]].tree = Edited(git[b].op, branch[clone[ProcOf[b]].at])
        /\ clone[ProcOf[b]].tree # branch[clone[ProcOf[b]].at]
    BY <2>1 DEF GitInv, CommitIsOnTop
  <2>3. branch'[clone[ProcOf[b]].at] = branch[clone[ProcOf[b]].at]
    BY <1>6, <2>2
  <2> QED BY <1>1, <1>6, <2>1, <2>2, <2>3
<1>15. FreshCloneIsCurrent'
  <2> SUFFICES ASSUME NEW q \in Procs, clone'[q].fresh
               PROVE  /\ clone'[q].at \in due'[q]..Newest'
                      /\ owner'[q] = NoDoc => clone'[q].tree = branch'[clone'[q].at]
    BY DEF FreshCloneIsCurrent
  <2>1. CASE q = p
    BY <1>5, <1>6, <1>7, <1>11, <2>1 DEF GitTypeOK
  <2>2. CASE q # p
    <3>1. clone'[q] = clone[q] /\ due'[q] = due[q] /\ owner'[q] = owner[q]
      BY <1>5, <1>7, <1>10, <2>2
    <3>2. /\ clone[q].at \in due[q]..Newest /\ due[q] \in 1..Newest
          /\ owner[q] = NoDoc => clone[q].tree = branch[clone[q].at]
      BY <3>1 DEF GitInv, FreshCloneIsCurrent, GitTypeOK
    <3>3. branch'[clone[q].at] = branch[clone[q].at]
      BY <1>1, <1>6, <3>2
    <3> QED BY <1>1, <1>6, <3>1, <3>2, <3>3
  <2> QED BY <2>1, <2>2
<1>16. ReadsAreCurrent'
  BY <1>2 DEF ReadsAreCurrent
<1> QED BY <1>11, <1>13, <1>14, <1>15, <1>16 DEF GitInv

LEMMA GitNextInv ==
  ASSUME GitInv, [GitNext]_gitVars
  PROVE  GitInv'
<1>1. CASE GitNext
  BY <1>1, InvokeInv, StageInv, PushInv, ReturnInv, ReadInv, ExpireInv, CrashInv DEF GitNext
<1>2. CASE UNCHANGED gitVars
  BY <1>2 DEF gitVars, GitInv, GitTypeOK, MutexHeldByCommitter, CommitIsOnTop,
              FreshCloneIsCurrent, ReadsAreCurrent, Newest
<1> QED BY <1>1, <1>2

(* In every behaviour of any number of processes and goroutines, whatever   *)
(* they call: the mutex is held exactly from a commit to its push, a commit *)
(* is made on what the clone was fetched at, and a Get (git.Adapter.Get)     *)
(* shows a commit of the branch that is recent enough.                      *)
THEOREM ClonesAreSound == GitSpec => []GitInv
<1>1. GitInit => GitInv
  BY InitGitInv
<1>2. GitInv /\ [GitNext]_gitVars => GitInv'
  BY GitNextInv
<1> QED BY <1>1, <1>2, PTL DEF GitSpec

(* A Get never shows a commit that was not pushed, nor one older than this  *)
(* process has written, shown or was owed by ReadTTL.                       *)
THEOREM ReadsAreOfTheBranch == GitSpec => []ReadsAreCurrent
<1>1. GitInv => ReadsAreCurrent
  BY DEF GitInv
<1> QED BY <1>1, ClonesAreSound, PTL

-----------------------------------------------------------------------------
(* The git adapter implements StateStore *)

(* A goroutine is only ever in an operation that it has called.              *)
LEMMA InvokedStep ==
  ASSUME GitInv, CallsAreInvoked, [GitNext]_gitVars
  PROVE  CallsAreInvoked'
<1>1. git \in [Clients -> GitCalls]
  BY DEF GitInv, GitTypeOK
<1>2. ASSUME NEW c \in Clients, NEW g, git' = [git EXCEPT ![c] = g],
             g = Idle \/ g.op \in CallsOf[c]
      PROVE  CallsAreInvoked'
  BY <1>1, <1>2 DEF CallsAreInvoked
<1>3. ASSUME NEW c \in Clients, GitInvoke(c) PROVE CallsAreInvoked'
  <2>1. PICK op \in CallsOf[c] : git' = [git EXCEPT ![c] = [pc |-> "called", op |-> op]]
    BY <1>3 DEF GitInvoke
  <2> QED BY <1>2, <2>1
<1>4. ASSUME NEW c \in Clients, Stage(c) PROVE CallsAreInvoked'
  <2>1. git[c].pc = "called"
    BY <1>4 DEF Stage
  <2>2. git[c].op \in CallsOf[c] /\ git[c] = [pc |-> "called", op |-> git[c].op]
    BY <2>1, CallFacts DEF GitInv, CallsAreInvoked, Idle
  <2>3. \/ \E a \in {"unchanged", "error"} : git' = [git EXCEPT ![c] = Done(git[c].op, a)]
        \/ git' = [git EXCEPT ![c].pc = "committed"]
    BY <1>4 DEF Stage
  <2>4. [git[c] EXCEPT !.pc = "committed"].op = git[c].op
    BY <2>2
  <2>5. \A a : Done(git[c].op, a).op = git[c].op
    BY DEF Done
  <2> QED BY <1>2, <2>2, <2>3, <2>4, <2>5
<1>5. ASSUME NEW c \in Clients, Push(c) PROVE CallsAreInvoked'
  <2>1. git[c].pc = "committed"
    BY <1>5 DEF Push
  <2>2. git[c].op \in CallsOf[c]
    BY <2>1 DEF CallsAreInvoked, Idle
  <2>3. \E a \in {"changed", "error"} : git' = [git EXCEPT ![c] = Done(git[c].op, a)]
    BY <1>5 DEF Push
  <2>4. \A a : Done(git[c].op, a).op = git[c].op
    BY DEF Done
  <2> QED BY <1>2, <2>2, <2>3, <2>4
<1>6. ASSUME NEW c \in Clients, GitReturn(c) PROVE CallsAreInvoked'
  BY <1>2, <1>6 DEF GitReturn
<1>7. ASSUME NEW p \in Procs, GitCrash(p) PROVE CallsAreInvoked'
  BY <1>7 DEF GitCrash, CallsAreInvoked
<1>8. ASSUME UNCHANGED git PROVE CallsAreInvoked'
  BY <1>8 DEF CallsAreInvoked
<1> QED
  BY <1>3, <1>4, <1>5, <1>6, <1>7, <1>8 DEF GitNext, gitVars, ReadFile, ReadFails, Expire

LEMMA ShownFacts ==
  /\ Shown(Idle) = Abs!Idle
  /\ \A op, a : Shown(Done(op, a)) = Done(op, a)
  /\ \A op : \A pc \in {"called", "committed"} :
       Shown([pc |-> pc, op |-> op]) = [pc |-> "pending", op |-> op]
BY DEF Shown, Idle, Done, Abs!Idle

(* A step of one call is a step of one abstract call. *)
LEMMA ShownStep ==
  ASSUME git \in [Clients -> GitCalls], NEW c \in Clients, NEW g, git' = [git EXCEPT ![c] = g]
  PROVE  [b \in Clients |-> Shown(git'[b])]
           = [[b \in Clients |-> Shown(git[b])] EXCEPT ![c] = Shown(g)]
<1> DEFINE call == [b \in Clients |-> Shown(git[b])]
<1>1. git'[c] = g /\ \A b \in Clients \ {c} : git'[b] = git[b]
  OBVIOUS
<1>2. \A b \in Clients : Shown(git'[b]) = [call EXCEPT ![c] = Shown(g)][b]
  BY <1>1
<1> QED BY <1>2

(* Whoever is between the call and its answer shows as pending. *)
LEMMA PendingCall ==
  ASSUME GitInv, NEW c \in Clients, git[c].pc \in {"called", "committed"}
  PROVE  Shown(git[c]) = [pc |-> "pending", op |-> git[c].op]
<1>1. git[c] = [pc |-> git[c].pc, op |-> git[c].op]
  BY CallFacts DEF GitInv
<1> QED BY <1>1, ShownFacts

LEMMA InvokeSim ==
  ASSUME GitInv, NEW c \in Clients, GitInvoke(c)
  PROVE  Abs!AbsInvoke(c)
<1>1. PICK op \in CallsOf[c] :
        git[c] = Idle /\ git' = [git EXCEPT ![c] = [pc |-> "called", op |-> op]]
  BY DEF GitInvoke
<1>2. branch'[Newest'] = branch[Newest]
  BY DEF GitInvoke, Newest
<1>3. [b \in Clients |-> Shown(git'[b])]
        = [[b \in Clients |-> Shown(git[b])] EXCEPT ![c] = [pc |-> "pending", op |-> op]]
  BY <1>1, ShownStep, ShownFacts DEF GitInv, GitTypeOK
<1>4. Shown(git[c]) = Abs!Idle /\ op \in UNION {CallsOf[b] : b \in Clients}
  BY <1>1, ShownFacts
<1> QED BY <1>2, <1>3, <1>4 DEF Abs!AbsInvoke

(* An answer to a call is the same answer to the abstract call. *)
LEMMA AnswerSim ==
  ASSUME GitInv, NEW c \in Clients, git[c].pc \in {"called", "committed"},
         NEW a, git' = [git EXCEPT ![c] = Done(git[c].op, a)]
  PROVE  /\ Shown(git[c]).pc = "pending" /\ Shown(git[c]).op = git[c].op
         /\ [b \in Clients |-> Shown(git'[b])]
              = [[b \in Clients |-> Shown(git[b])] EXCEPT
                   ![c] = [pc |-> "done", op |-> @.op, answer |-> a]]
<1>1. Shown(git[c]) = [pc |-> "pending", op |-> git[c].op]
  BY PendingCall
<1>2. Shown(Done(git[c].op, a)) = [pc |-> "done", op |-> git[c].op, answer |-> a]
  BY ShownFacts DEF Done
<1>3. [b \in Clients |-> Shown(git'[b])]
        = [[b \in Clients |-> Shown(git[b])] EXCEPT ![c] = Shown(Done(git[c].op, a))]
  BY ShownStep DEF GitInv, GitTypeOK
<1> DEFINE call == [b \in Clients |-> Shown(git[b])]
<1>4. call[c].op = git[c].op
  BY <1>1
<1>5. Shown(Done(git[c].op, a)) = [pc |-> "done", op |-> call[c].op, answer |-> a]
  BY <1>2, <1>4
<1>6. [b \in Clients |-> Shown(git'[b])]
        = [call EXCEPT ![c] = [pc |-> "done", op |-> call[c].op, answer |-> a]]
  BY <1>3, <1>5
<1> QED BY <1>1, <1>6

(* A call that ends in an error without having touched the branch has failed. *)
LEMMA ErrorSim ==
  ASSUME GitInv, NEW c \in Clients, git[c].pc \in {"called", "committed"},
         git' = [git EXCEPT ![c] = Done(git[c].op, "error")], UNCHANGED branch
  PROVE  Abs!AbsFail(c)
<1>1. branch'[Newest'] = branch[Newest]
  BY DEF Newest
<1> QED BY <1>1, AnswerSim DEF Abs!AbsFail

(* From Lock to the commit: the call fails, has nothing to write, or goes on. *)
LEMMA StageSim ==
  ASSUME RawAlone, GitInv, CallsAreInvoked, NEW c \in Clients, Stage(c)
  PROVE  Abs!AbsNext \/ UNCHANGED Abs!absVars
<1> DEFINE op == git[c].op
<1>1. /\ git[c].pc = "called" /\ op \in Abs!Ops /\ branch[Newest] \in Abs!Trees
      /\ UNCHANGED branch /\ branch'[Newest'] = branch[Newest]
  BY CallFacts DEF GitInv, Stage, Newest
<1>2. op.kind = "put" /\ op.raw => Names = {op.file[2]}
  BY <1>1 DEF RawAlone, CallsAreInvoked, Idle
<1>3. CASE git' = [git EXCEPT ![c] = Done(op, "error")]
  BY <1>1, <1>3, ErrorSim DEF Abs!AbsNext
<1>4. CASE /\ git' = [git EXCEPT ![c] = Done(op, "unchanged")]
           /\ ~Missing(op, branch[Newest]) /\ Edited(op, branch[Newest]) = branch[Newest]
  <2>1. branch'[Newest'] = Abs!Effect(op, branch[Newest])
    BY <1>1, <1>2, <1>4, EditedIsEffect
  <2>2. /\ Shown(git[c]).pc = "pending" /\ Shown(git[c]).op = op
        /\ [b \in Clients |-> Shown(git'[b])]
             = [[b \in Clients |-> Shown(git[b])] EXCEPT
                  ![c] = [pc |-> "done", op |-> @.op, answer |-> "unchanged"]]
    BY <1>1, <1>4, AnswerSim
  <2>3. Abs!Answer(branch'[Newest'] # branch[Newest]) = "unchanged"
    BY <1>1 DEF Abs!Answer
  <2> HIDE DEF op
  <2>4. Abs!AbsApply(c)
    BY <2>1, <2>2, <2>3 DEF Abs!AbsApply
  <2> QED BY <2>4 DEF Abs!AbsNext
<1>5. CASE git' = [git EXCEPT ![c].pc = "committed"]
  <2>1. git[c] = [pc |-> "called", op |-> op]
    BY <1>1, CallFacts DEF GitInv
  <2>2. [git[c] EXCEPT !.pc = "committed"] = [pc |-> "committed", op |-> op]
    BY <2>1
  <2>3. git' = [git EXCEPT ![c] = [pc |-> "committed", op |-> op]]
    BY <1>5, <2>2
  <2>4. Shown([pc |-> "committed", op |-> op]) = Shown(git[c])
    BY <2>1, ShownFacts
  <2>5. [b \in Clients |-> Shown(git'[b])]
          = [[b \in Clients |-> Shown(git[b])] EXCEPT ![c] = Shown(git[c])]
    BY <2>3, <2>4, ShownStep DEF GitInv, GitTypeOK
  <2>6. [b \in Clients |-> Shown(git'[b])] = [b \in Clients |-> Shown(git[b])]
    BY <2>5
  <2> QED BY <1>1, <2>6 DEF Abs!absVars
<1> QED BY <1>3, <1>4, <1>5 DEF Stage

(* The push: the call takes effect when the branch takes the commit, whether *)
(* or not the answer arrives, and fails when it does not.                    *)
LEMMA PushSim ==
  ASSUME RawAlone, GitInv, CallsAreInvoked, NEW c \in Clients, Push(c)
  PROVE  Abs!AbsNext
<1> DEFINE op == git[c].op
           cl == clone[ProcOf[c]]
<1>1. /\ git[c].pc = "committed" /\ op \in Abs!Ops /\ Newest \in Nat \ {0}
      /\ branch[Newest] \in Abs!Trees /\ ProcOf[c] \in Procs
  BY CallFacts DEF GitInv, Push
<1>2. op.kind = "put" /\ op.raw => Names = {op.file[2]}
  BY <1>1 DEF RawAlone, CallsAreInvoked, Idle
<1>3. /\ ~Missing(op, branch[cl.at]) /\ cl.tree = Edited(op, branch[cl.at])
      /\ cl.tree # branch[cl.at] /\ cl.at \in 1..Newest /\ cl.tree \in Abs!Trees
  BY <1>1 DEF GitInv, CommitIsOnTop, GitTypeOK
<1>4. \/ /\ branch' = branch /\ git' = [git EXCEPT ![c] = Done(op, "error")]
      \/ /\ cl.at = Newest /\ branch' = Append(branch, cl.tree)
         /\ \E a \in {"changed", "error"} : git' = [git EXCEPT ![c] = Done(op, a)]
  BY DEF Push
<1>5. CASE branch' = branch /\ git' = [git EXCEPT ![c] = Done(op, "error")]
  BY <1>1, <1>5, ErrorSim DEF Abs!AbsNext
<1>6. ASSUME cl.at = Newest, branch' = Append(branch, cl.tree),
             NEW a \in {"changed", "error"}, git' = [git EXCEPT ![c] = Done(op, a)]
      PROVE  Abs!AbsNext
  <2>1. branch'[Newest'] = cl.tree
    BY <1>3, <1>6, BranchGrows DEF GitInv
  <2>2. branch'[Newest'] = Abs!Effect(op, branch[Newest]) /\ branch'[Newest'] # branch[Newest]
    BY <1>1, <1>2, <1>3, <1>6, <2>1, EditedIsEffect
  <2>3. /\ Shown(git[c]).pc = "pending" /\ Shown(git[c]).op = op
        /\ [b \in Clients |-> Shown(git'[b])]
             = [[b \in Clients |-> Shown(git[b])] EXCEPT
                  ![c] = [pc |-> "done", op |-> @.op, answer |-> a]]
    BY <1>1, <1>6, AnswerSim
  <2>4. Abs!Answer(branch'[Newest'] # branch[Newest]) = "changed"
    BY <2>2 DEF Abs!Answer
  <2> HIDE DEF op, cl
  <2>5. \E lost \in BOOLEAN :
          a = IF lost THEN "error" ELSE Abs!Answer(branch'[Newest'] # branch[Newest])
    BY <2>4
  <2>6. Abs!AbsApply(c)
    BY <2>2, <2>3, <2>5 DEF Abs!AbsApply
  <2> QED BY <2>6 DEF Abs!AbsNext
<1> QED BY <1>4, <1>5, <1>6

LEMMA ReturnSim ==
  ASSUME GitInv, NEW c \in Clients, GitReturn(c)
  PROVE  Abs!AbsReturn(c)
<1>1. git[c].pc = "done" /\ git' = [git EXCEPT ![c] = Idle] /\ branch'[Newest'] = branch[Newest]
  BY DEF GitReturn, Newest
<1>2. Shown(git[c]).pc = "done"
  BY <1>1 DEF Shown
<1>3. [b \in Clients |-> Shown(git'[b])]
        = [[b \in Clients |-> Shown(git[b])] EXCEPT ![c] = Abs!Idle]
  BY <1>1, ShownStep, ShownFacts DEF GitInv, GitTypeOK
<1> QED BY <1>1, <1>2, <1>3 DEF Abs!AbsReturn

(* A process that dies takes every call of its goroutines with it. *)
LEMMA CrashSim ==
  ASSUME GitInv, NEW p \in Procs, GitCrash(p)
  PROVE  Abs!AbsCrash
<1> DEFINE cs == {c \in Clients : ProcOf[c] = p}
<1>1. /\ git' = [c \in Clients |-> IF ProcOf[c] = p THEN Idle ELSE git[c]]
      /\ branch'[Newest'] = branch[Newest]
  BY DEF GitCrash, Newest
<1>2. \A c \in Clients : Shown(git'[c]) = IF c \in cs THEN Abs!Idle ELSE Shown(git[c])
  BY <1>1, ShownFacts
<1>3. [c \in Clients |-> Shown(git'[c])]
        = [c \in Clients |-> IF c \in cs THEN Abs!Idle ELSE [b \in Clients |-> Shown(git[b])][c]]
  BY <1>2
<1> QED BY <1>1, <1>3 DEF Abs!AbsCrash

(* Reading, expiring and idling leave the branch and the calls alone. *)
LEMMA QuietSim ==
  ASSUME UNCHANGED <<branch, git>>
  PROVE  UNCHANGED Abs!absVars
BY DEF Abs!absVars, Newest

LEMMA StepSim ==
  ASSUME RawAlone, GitInv, CallsAreInvoked, [GitNext]_gitVars
  PROVE  [Abs!AbsNext]_Abs!absVars
<1>1. ASSUME NEW c \in Clients, GitInvoke(c) PROVE Abs!AbsNext
  BY <1>1, InvokeSim DEF Abs!AbsNext
<1>2. ASSUME NEW c \in Clients, Stage(c) PROVE Abs!AbsNext \/ UNCHANGED Abs!absVars
  BY <1>2, StageSim
<1>3. ASSUME NEW c \in Clients, Push(c) PROVE Abs!AbsNext
  BY <1>3, PushSim
<1>4. ASSUME NEW c \in Clients, GitReturn(c) PROVE Abs!AbsNext
  BY <1>4, ReturnSim DEF Abs!AbsNext
<1>5. ASSUME NEW p \in Procs, GitCrash(p) PROVE Abs!AbsNext
  BY <1>5, CrashSim DEF Abs!AbsNext
<1>6. CASE UNCHANGED <<branch, git>>
  BY <1>6, QuietSim
<1>7. \/ \E c \in Clients : GitInvoke(c) \/ Stage(c) \/ Push(c) \/ GitReturn(c)
      \/ \E p \in Procs : GitCrash(p)
      \/ UNCHANGED <<branch, git>>
  BY DEF GitNext, gitVars, ReadFile, ReadFails, Expire
<1> QED BY <1>1, <1>2, <1>3, <1>4, <1>5, <1>6, <1>7

LEMMA InitSim == GitInit => Abs!AbsInit /\ CallsAreInvoked
<1> SUFFICES ASSUME GitInit PROVE Abs!AbsInit /\ CallsAreInvoked
  OBVIOUS
<1>1. branch[Newest] = InitTree /\ InitTree \in Abs!Trees
  BY CallsAssumption DEF GitInit, Newest
<1>2. \A c \in Clients : git[c] = Idle /\ Shown(git[c]) = Abs!Idle
  BY ShownFacts DEF GitInit
<1> QED BY <1>1, <1>2 DEF Abs!AbsInit, CallsAreInvoked

(* The git adapter is a ports.StateStore, for any number of processes and    *)
(* goroutines and any calls: whatever fetches, pushes, refused pushes, lost  *)
(* answers and process deaths do to each other, each write happens to the    *)
(* branch in one indivisible step on top of what the branch then held,      *)
(* "changed" is answered only to a write that is on the branch, and          *)
(* "unchanged" only when there was nothing to write.  What it takes is that *)
(* a raw document has its directory to itself; no code Puts a raw one.      *)
THEOREM GitIsAStateStore == RawAlone => (GitSpec => GitImplementsStateStore)
<1> SUFFICES ASSUME RawAlone PROVE GitSpec => GitImplementsStateStore
  OBVIOUS
<1>1. GitInit => Abs!AbsInit /\ CallsAreInvoked
  BY InitSim
<1>2. GitInv /\ CallsAreInvoked /\ [GitNext]_gitVars => CallsAreInvoked'
  BY InvokedStep
<1>3. GitInv /\ CallsAreInvoked /\ [GitNext]_gitVars => [Abs!AbsNext]_Abs!absVars
  BY StepSim
<1> QED BY <1>1, <1>2, <1>3, ClonesAreSound, PTL DEF GitSpec, GitImplementsStateStore, Abs!AbsSpec

-----------------------------------------------------------------------------
(* The local adapter implements StateStore *)

Adds == [kind : {"add", "remove"}, file : Abs!Files, entry : Entries]
Puts == [kind : {"put"}, file : Abs!Files, doc : Abs!Docs, raw : BOOLEAN]
Deletes == [kind : {"delete"}, dir : Dirs]
Replaces == [kind : {"tree"}, dir : Dirs, docs : [Names -> Abs!Docs \cup {NoDoc}]]

(* The goroutines call operations of the store; a directory that one of     *)
(* them rewrites or deletes has nothing to fall back on; and nobody writes  *)
(* a document that another goroutine patches.                               *)
LocalCallsAreOps ==
  /\ InitTree \in Abs!Trees /\ Fallback \in Abs!Trees
  /\ \A c \in Clients : LocalCallsOf[c] \subseteq Abs!Ops
NothingFallsBack ==
  \A c \in Clients : \A op \in LocalCallsOf[c] :
    op.kind \in {"delete", "tree"} => \A f \in Abs!Files : f[1] = op.dir => Fallback[f] = NoDoc
Writes(op, f) == IF op.kind \in {"delete", "tree"} THEN f[1] = op.dir ELSE f = op.file
PatchesAreAlone ==
  \A c, d \in Clients : c # d =>
    \A op \in LocalCallsOf[c], other \in LocalCallsOf[d] : op.kind \in {"add", "remove"} => ~Writes(other, op.file)

Patch(op, doc) == IF op.kind = "add" THEN Abs!Body(doc) \cup {op.entry} ELSE Abs!Body(doc) \ {op.entry}

(* Between its Get and its Put, a Patch holds what is still to be written.  *)
LocalCall(c) ==
  \/ local[c] = Idle
  \/ /\ local[c].op \in LocalCallsOf[c]
     /\ \/ local[c] = [pc |-> "called", op |-> local[c].op]
        \/ \E a \in {"changed", "unchanged", "error"} : local[c] = Done(local[c].op, a)
        \/ /\ local[c].op \in Adds
           /\ local[c] = [pc |-> "read", op |-> local[c].op, doc |-> local[c].doc]
           /\ local[c].doc = Patch(local[c].op, Local!Found(local[c].op.file))
           /\ local[c].doc # Abs!Body(Local!Found(local[c].op.file))
LocalInv ==
  /\ files \in Abs!Trees /\ DOMAIN local = Clients /\ local = [c \in Clients |-> local[c]]
  /\ \A c \in Clients : LocalCall(c)

LEMMA OpsCases == Abs!Ops = Adds \cup Puts \cup Deletes \cup Replaces
  BY DEF Abs!Ops, Adds, Puts, Deletes, Replaces

LEMMA FoundIs ==
  ASSUME NEW fs, NEW f
  PROVE  Local!Found(f) = IF files[f] # NoDoc THEN files[f] ELSE Fallback[f]
  BY DEF Local!Found

LEMMA DocsAreDocs == NoDoc \notin Abs!Docs /\ \A doc : Abs!Body(doc) = IF doc = NoDoc THEN {} ELSE doc
  BY GitStoreAssumption DEF GitStoreAssumption, Abs!Docs, Abs!Body

(* What Get finds after one document was written, or a directory.           *)
LEMMA FoundWritten ==
  ASSUME LocalInv, NEW f \in Abs!Files, NEW doc \in Abs!Docs, files' = [files EXCEPT ![f] = doc]
  PROVE  /\ files' \in Abs!Trees
         /\ \A g \in Abs!Files : Local!Found(g)' = IF g = f THEN doc ELSE Local!Found(g)
<1>1. files' \in Abs!Trees /\ \A g \in Abs!Files : files'[g] = IF g = f THEN doc ELSE files[g]
  BY DEF LocalInv, Abs!Trees
<1> QED BY <1>1, DocsAreDocs DEF Local!Found

LEMMA FoundRewritten ==
  ASSUME LocalInv, LocalCallsAreOps, NEW dir, NEW docs \in [Abs!Files -> Abs!Docs \cup {NoDoc}],
         \A f \in Abs!Files : f[1] = dir => Fallback[f] = NoDoc,
         files' = [f \in DOMAIN files |-> IF f[1] = dir THEN docs[f] ELSE files[f]]
  PROVE  /\ files' \in Abs!Trees
         /\ \A g \in Abs!Files : Local!Found(g)' = IF g[1] = dir THEN docs[g] ELSE Local!Found(g)
         /\ files' = files <=> \A g \in Abs!Files : Local!Found(g)' = Local!Found(g)
<1>1. /\ files' \in Abs!Trees /\ files \in Abs!Trees
      /\ \A g \in Abs!Files : files'[g] = IF g[1] = dir THEN docs[g] ELSE files[g]
  BY DEF LocalInv, Abs!Trees
<1>2. \A g \in Abs!Files : g[1] = dir => Local!Found(g) = files[g] /\ Local!Found(g)' = files'[g]
  BY <1>1 DEF Local!Found
<1>3. \A g \in Abs!Files : g[1] # dir => files'[g] = files[g] /\ Local!Found(g)' = Local!Found(g)
  BY <1>1 DEF Local!Found
<1>4. files' = files <=> \A g \in Abs!Files : files'[g] = files[g]
  BY <1>1 DEF Abs!Trees
<1>5. ASSUME NEW g \in Abs!Files
      PROVE  /\ Local!Found(g)' = IF g[1] = dir THEN docs[g] ELSE Local!Found(g)
             /\ files'[g] = files[g] <=> Local!Found(g)' = Local!Found(g)
  <2>1. CASE g[1] = dir
    BY <1>1, <1>2, <2>1
  <2>2. CASE g[1] # dir
    BY <1>1, <1>3, <2>2
  <2> QED BY <2>1, <2>2
<1>6. files' = files <=> \A g \in Abs!Files : Local!Found(g)' = Local!Found(g)
  BY <1>4, <1>5
<1> QED BY <1>1, <1>5, <1>6

LEMMA FoundTyped ==
  ASSUME LocalInv, LocalCallsAreOps
  PROVE  /\ DOMAIN files = Abs!Files /\ \A f \in Abs!Files : Local!Found(f) \in Abs!Docs \cup {NoDoc}
  BY DEF LocalInv, LocalCallsAreOps, Abs!Trees, Local!Found

(* The step of one goroutine, in the refined calls. *)
LEMMA LocalShown ==
  ASSUME LocalInv, NEW c \in Clients, NEW g, local' = [local EXCEPT ![c] = g]
  PROVE  /\ local'[c] = g /\ \A b \in Clients \ {c} : local'[b] = local[b]
         /\ DOMAIN local' = Clients /\ local' = [b \in Clients |-> local'[b]]
         /\ [b \in Clients |-> Shown(local'[b])] = [[b \in Clients |-> Shown(local[b])] EXCEPT ![c] = Shown(g)]
<1>1. local'[c] = g /\ \A b \in Clients \ {c} : local'[b] = local[b]
  BY DEF LocalInv
<1>2. DOMAIN local' = Clients /\ local' = [b \in Clients |-> local'[b]]
  BY DEF LocalInv
<1> DEFINE call == [b \in Clients |-> Shown(local[b])]
<1>3. \A b \in Clients : Shown(local'[b]) = [call EXCEPT ![c] = Shown(g)][b]
  BY <1>1
<1> QED BY <1>1, <1>2, <1>3

LEMMA LocalIsCall ==
  ASSUME LocalInv, LocalCallsAreOps, NEW c \in Clients, local[c].pc # "idle"
  PROVE  local[c].op \in LocalCallsOf[c] /\ local[c].op \in Abs!Ops
  BY DEF LocalInv, LocalCall, LocalCallsAreOps, Idle

LEMMA LocalReads ==
  ASSUME LocalInv, NEW c \in Clients, local[c].pc = "read"
  PROVE  /\ local[c].op \in Adds /\ local[c] = [pc |-> "read", op |-> local[c].op, doc |-> local[c].doc]
         /\ local[c].doc = Patch(local[c].op, Local!Found(local[c].op.file))
         /\ local[c].doc # Abs!Body(Local!Found(local[c].op.file))
<1>1. LocalCall(c)
  BY DEF LocalInv
<1>2. \A op, a : Done(op, a).pc = "done"
  BY DEF Done
<1> QED BY <1>1, <1>2 DEF LocalCall, Idle

(* A write of c leaves what the Patches of the others hold.                 *)
LEMMA OthersHold ==
  ASSUME LocalInv, LocalCallsAreOps, PatchesAreAlone, NEW c \in Clients, NEW d \in Clients, d # c,
         NEW op \in LocalCallsOf[c], local'[d] = local[d],
         \A f \in Abs!Files : ~Writes(op, f) => Local!Found(f)' = Local!Found(f)
  PROVE  LocalCall(d)'
<1>1. LocalCall(d)
  BY DEF LocalInv
<1>2. CASE local[d].pc # "read"
  BY <1>1, <1>2 DEF LocalCall
<1>3. CASE local[d].pc = "read"
  <2>1. local[d].op \in Adds /\ local[d].op \in LocalCallsOf[d]
    BY <1>3, LocalReads, LocalIsCall
  <2>2. ~Writes(op, local[d].op.file)
    BY <2>1 DEF PatchesAreAlone, Adds
  <2>3. Local!Found(local[d].op.file)' = Local!Found(local[d].op.file)
    <3>1. local[d].op.file \in Abs!Files
      BY <2>1 DEF Adds
    <3> PICK f : f = local[d].op.file
      OBVIOUS
    <3>2. Local!Found(f)' = Local!Found(f)
      BY <2>2, <3>1
    <3>3. local'[d].op.file = f
      OBVIOUS
    <3> QED BY <3>2, <3>3 DEF Local!Found
  <2> QED BY <1>3, <2>1, <2>3, LocalReads DEF LocalCall
<1> QED BY <1>2, <1>3

(* A step that is not a write. *)
LEMMA LocalMoves ==
  ASSUME LocalInv, NEW c \in Clients, NEW g, local' = [local EXCEPT ![c] = g], UNCHANGED files, LocalCall(c)'
  PROVE  LocalInv'
<1>1. \A d \in Clients \ {c} : LocalCall(d) /\ local'[d] = local[d]
  BY LocalShown DEF LocalInv
<1>2. \A d \in Clients \ {c} : LocalCall(d)'
  BY <1>1 DEF LocalCall, Local!Found
<1> QED BY <1>2, LocalShown DEF LocalInv

(* A write is over when it is done. *)
LEMMA LocalWrites ==
  ASSUME LocalInv, LocalCallsAreOps, PatchesAreAlone, NEW c \in Clients, NEW op \in LocalCallsOf[c],
         NEW a \in {"changed", "unchanged", "error"}, local' = [local EXCEPT ![c] = Done(op, a)],
         files' \in Abs!Trees, \A f \in Abs!Files : ~Writes(op, f) => Local!Found(f)' = Local!Found(f)
  PROVE  LocalInv'
<1>1. \A d \in Clients \ {c} : LocalCall(d)'
  BY LocalShown, OthersHold
<1>2. local'[c] = Done(op, a) /\ Done(op, a).op = op
  BY LocalShown DEF Done
<1>3. LocalCall(c)'
  BY <1>2 DEF LocalCall
<1> QED BY <1>1, <1>3, LocalShown DEF LocalInv

(* The store that is implemented, and its calls.                            *)
LocalTree == [f \in Abs!Files |-> Local!Found(f)]
LocalCalls == [c \in Clients |-> Shown(local[c])]

LEMMA SameStore ==
  /\ \A op, tree : Local!LocalAbs!Effect(op, tree) = Abs!Effect(op, tree)
  /\ \A b : Local!LocalAbs!Answer(b) = Abs!Answer(b)
  /\ Local!LocalAbs!Idle = Abs!Idle /\ Local!LocalAbs!Trees = Abs!Trees
  /\ \A op, tree : Local!LocalAbs!Halves(op, tree) = Abs!Halves(op, tree)
<1>1. \A doc : Local!LocalAbs!Body(doc) = Abs!Body(doc)
  BY DEF Local!LocalAbs!Body, Abs!Body
<1>2. Local!LocalAbs!Files = Abs!Files /\ Local!LocalAbs!Docs = Abs!Docs
  BY DEF Local!LocalAbs!Files, Abs!Files, Local!LocalAbs!Docs, Abs!Docs
<1>3. \A op, tree : Local!LocalAbs!Effect(op, tree) = Abs!Effect(op, tree)
  BY <1>1, <1>2 DEF Local!LocalAbs!Effect, Abs!Effect
<1>4. Local!LocalAbs!Trees = Abs!Trees
  BY <1>2 DEF Local!LocalAbs!Trees, Abs!Trees
<1>5. \A op, f : Local!LocalAbs!About(op, f) = Abs!About(op, f)
  BY DEF Local!LocalAbs!About, Abs!About
<1>6. \A op, tree : Local!LocalAbs!Halves(op, tree) = Abs!Halves(op, tree)
  BY <1>2, <1>3, <1>4, <1>5 DEF Local!LocalAbs!Halves, Abs!Halves
<1> QED BY <1>3, <1>4, <1>6 DEF Local!LocalAbs!Answer, Abs!Answer, Local!LocalAbs!Idle, Abs!Idle

LEMMA LocalMapped ==
  ASSUME LocalInv
  PROVE  /\ [f \in DOMAIN files |-> Local!Found(f)] = LocalTree
         /\ [c \in Clients |->
              CASE local[c].pc = "idle" -> [pc |-> "idle"]
                [] local[c].pc = "done" -> local[c]
                [] OTHER                -> [pc |-> "pending", op |-> local[c].op]] = LocalCalls
<1>1. DOMAIN files = Abs!Files
  BY DEF LocalInv, Abs!Trees
<1> QED BY <1>1 DEF LocalTree, LocalCalls, Shown

LEMMA LocalMappedNext ==
  ASSUME LocalInv'
  PROVE  /\ [f \in DOMAIN files |-> Local!Found(f)]' = LocalTree'
         /\ [c \in Clients |->
              CASE local[c].pc = "idle" -> [pc |-> "idle"]
                [] local[c].pc = "done" -> local[c]
                [] OTHER                -> [pc |-> "pending", op |-> local[c].op]]' = LocalCalls'
<1>1. DOMAIN files' = Abs!Files
  BY DEF LocalInv, Abs!Trees
<1> QED BY <1>1 DEF LocalTree, LocalCalls, Shown

LEMMA LocalApplies ==
  ASSUME LocalInv, LocalInv', NEW c \in Clients, NEW lost \in BOOLEAN, LocalCalls[c].pc = "pending",
         LocalTree' = Abs!Effect(LocalCalls[c].op, LocalTree),
         LocalCalls' = [LocalCalls EXCEPT ![c] =
           [pc |-> "done", op |-> @.op,
            answer |-> IF lost THEN "error" ELSE Abs!Answer(LocalTree' # LocalTree)]]
  PROVE  Local!LocalAbs!AbsApply(c)
  BY LocalMapped, LocalMappedNext, SameStore DEF Local!LocalAbs!AbsApply

LEMMA LocalFails ==
  ASSUME LocalInv, LocalInv', NEW c \in Clients, LocalCalls[c].pc = "pending", LocalTree' = LocalTree,
         LocalCalls' = [LocalCalls EXCEPT ![c] = [pc |-> "done", op |-> @.op, answer |-> "error"]]
  PROVE  Local!LocalAbs!AbsFail(c)
  BY LocalMapped, LocalMappedNext DEF Local!LocalAbs!AbsFail

Kinds == {"add", "remove", "put", "delete", "tree"}

LEMMA LocalTears ==
  ASSUME LocalInv, LocalInv', NEW c \in Clients, LocalCalls[c].pc = "pending", LocalCalls[c].op.kind \in Kinds,
         LocalTree' \in Abs!Halves(LocalCalls[c].op, LocalTree),
         LocalCalls' = [LocalCalls EXCEPT ![c] = [pc |-> "done", op |-> @.op, answer |-> "error"]]
  PROVE  Local!LocalAbs!AbsTear(c)
  BY LocalMapped, LocalMappedNext, SameStore DEF Local!LocalAbs!AbsTear, Kinds

LEMMA LocalDies ==
  ASSUME LocalInv, LocalInv', LocalCalls' = [c \in Clients |-> Abs!Idle],
         \/ LocalTree' = LocalTree
         \/ \E c \in Clients : /\ LocalCalls[c].pc = "pending" /\ LocalCalls[c].op.kind \in Kinds
                              /\ LocalTree' \in Abs!Halves(LocalCalls[c].op, LocalTree)
  PROVE  Local!LocalAbs!AbsNext
<1>1. ASSUME LocalTree' = LocalTree PROVE Local!LocalAbs!AbsCrash
  <2>1. LocalCalls' = [c \in Clients |-> IF c \in Clients THEN Local!LocalAbs!Idle ELSE LocalCalls[c]]
    BY SameStore
  <2> QED BY <1>1, <2>1, LocalMapped, LocalMappedNext DEF Local!LocalAbs!AbsCrash
<1>2. ASSUME NEW c \in Clients, LocalCalls[c].pc = "pending", LocalCalls[c].op.kind \in Kinds,
             LocalTree' \in Abs!Halves(LocalCalls[c].op, LocalTree)
      PROVE  Local!LocalAbs!AbsTornCrash
  <2>1. LocalCalls' = [b \in Clients |-> IF b \in Clients THEN Local!LocalAbs!Idle ELSE LocalCalls[b]]
    BY SameStore
  <2>2. Clients \in SUBSET Clients
    OBVIOUS
  <2> QED BY <1>2, <2>1, <2>2, LocalMapped, LocalMappedNext, SameStore DEF Local!LocalAbs!AbsTornCrash, Kinds
<1> QED BY <1>1, <1>2 DEF Local!LocalAbs!AbsNext

LEMMA LocalInvokes ==
  ASSUME LocalInv, LocalInv', NEW c \in Clients, NEW op \in LocalCallsOf[c], LocalCalls[c] = Abs!Idle,
         LocalTree' = LocalTree, LocalCalls' = [LocalCalls EXCEPT ![c] = [pc |-> "pending", op |-> op]]
  PROVE  Local!LocalAbs!AbsInvoke(c)
<1>1. op \in UNION {LocalCallsOf[b] : b \in Clients}
  OBVIOUS
<1> QED BY <1>1, LocalMapped, LocalMappedNext, SameStore DEF Local!LocalAbs!AbsInvoke

LEMMA LocalReturns ==
  ASSUME LocalInv, LocalInv', NEW c \in Clients, LocalCalls[c].pc = "done", LocalTree' = LocalTree,
         LocalCalls' = [LocalCalls EXCEPT ![c] = Abs!Idle]
  PROVE  Local!LocalAbs!AbsReturn(c)
  BY LocalMapped, LocalMappedNext, SameStore DEF Local!LocalAbs!AbsReturn

LEMMA LocalStands ==
  ASSUME LocalInv, LocalInv', LocalTree' = LocalTree, LocalCalls' = LocalCalls
  PROVE  UNCHANGED Local!LocalAbs!absVars
  BY LocalMapped, LocalMappedNext DEF Local!LocalAbs!absVars

(* Whoever has called and has no answer shows as pending. *)
LEMMA LocalPending ==
  ASSUME LocalInv, LocalCallsAreOps, NEW c \in Clients, local[c].pc \in {"called", "read"}
  PROVE  /\ Shown(local[c]) = [pc |-> "pending", op |-> local[c].op]
         /\ LocalCalls[c].pc = "pending" /\ LocalCalls[c].op = local[c].op
         /\ \A op, a : local' = [local EXCEPT ![c] = Done(op, a)] /\ op = local[c].op =>
              LocalCalls' = [LocalCalls EXCEPT ![c] = [pc |-> "done", op |-> @.op, answer |-> a]]
<1>1. Shown(local[c]) = [pc |-> "pending", op |-> local[c].op]
  BY DEF Shown
<1>2. LocalCalls[c] = [pc |-> "pending", op |-> local[c].op]
  BY <1>1 DEF LocalCalls
<1>3. ASSUME NEW op, NEW a, local' = [local EXCEPT ![c] = Done(op, a)], op = local[c].op
      PROVE  LocalCalls' = [LocalCalls EXCEPT ![c] = [pc |-> "done", op |-> @.op, answer |-> a]]
  <2>1. Shown(Done(op, a)) = [pc |-> "done", op |-> LocalCalls[c].op, answer |-> a]
    BY <1>2, <1>3, ShownFacts DEF Done
  <2>2. LocalCalls' = [LocalCalls EXCEPT ![c] = Shown(Done(op, a))]
    BY <1>3, LocalShown DEF LocalCalls
  <2> QED BY <2>1, <2>2
<1> QED BY <1>1, <1>2, <1>3

LEMMA LocalDoneIs == \A op, a : Local!LocalDone(op, a) = Done(op, a)
  BY DEF Local!LocalDone, Done

(* A call takes effect in a write, or in finding nothing to write. *)
LEMMA LocalEffect ==
  ASSUME LocalInv, LocalInv', LocalCallsAreOps, NEW c \in Clients, local[c].pc \in {"called", "read"},
         NEW op, op = local[c].op, NEW a, local' = [local EXCEPT ![c] = Done(op, a)],
         LocalTree' = Abs!Effect(op, LocalTree), a = Abs!Answer(LocalTree' # LocalTree)
  PROVE  Local!LocalAbs!AbsApply(c)
<1>1. LocalCalls[c].pc = "pending" /\ LocalCalls[c].op = op
  BY LocalPending
<1>2. LocalCalls' = [LocalCalls EXCEPT ![c] = [pc |-> "done", op |-> @.op, answer |-> a]]
  BY LocalPending
<1>3. \E lost \in BOOLEAN : lost = FALSE
  OBVIOUS
<1> QED BY <1>1, <1>2, <1>3, LocalApplies

LEMMA LocalInvokeSim ==
  ASSUME LocalInv, LocalCallsAreOps, NEW c \in Clients, Local!LocalInvoke(c)
  PROVE  LocalInv' /\ Local!LocalAbs!AbsInvoke(c)
<1>1. PICK op \in LocalCallsOf[c] :
        local[c].pc = "idle" /\ local' = [local EXCEPT ![c] = [pc |-> "called", op |-> op]] /\ UNCHANGED files
  BY DEF Local!LocalInvoke
<1> PICK g : g = [pc |-> "called", op |-> op]
  OBVIOUS
<1>2. local'[c] = g /\ g.op = op
  BY <1>1, LocalShown
<1>3. LocalInv'
  BY <1>1, <1>2, LocalMoves DEF LocalCall
<1>4. Shown(g) = [pc |-> "pending", op |-> op] /\ Shown(local[c]) = Abs!Idle
  BY <1>1 DEF Shown, Abs!Idle
<1>5. LocalCalls' = [LocalCalls EXCEPT ![c] = [pc |-> "pending", op |-> op]] /\ LocalCalls[c] = Abs!Idle
  BY <1>1, <1>4, LocalShown DEF LocalCalls
<1>6. LocalTree' = LocalTree
  BY <1>1 DEF LocalTree, Local!Found
<1> QED BY <1>3, <1>5, <1>6, LocalInvokes

LEMMA LocalReturnSim ==
  ASSUME LocalInv, LocalCallsAreOps, NEW c \in Clients, Local!LocalReturn(c)
  PROVE  LocalInv' /\ Local!LocalAbs!AbsReturn(c)
<1>1. local[c].pc = "done" /\ local' = [local EXCEPT ![c] = Idle] /\ UNCHANGED files
  BY DEF Local!LocalReturn, Idle
<1>2. LocalInv'
  BY <1>1, LocalMoves, LocalShown DEF LocalCall
<1>3. Shown(Idle) = Abs!Idle /\ Shown(local[c]).pc = "done"
  BY <1>1, ShownFacts DEF Shown
<1>4. LocalCalls' = [LocalCalls EXCEPT ![c] = Abs!Idle] /\ LocalCalls[c].pc = "done"
  BY <1>1, <1>3, LocalShown DEF LocalCalls
<1>5. LocalTree' = LocalTree
  BY <1>1 DEF LocalTree, Local!Found
<1> QED BY <1>2, <1>4, <1>5, LocalReturns

(* What a Patch comes to. *)
LEMMA PatchEffect ==
  ASSUME NEW op \in Adds, NEW tree \in Abs!Trees
  PROVE  /\ Patch(op, tree[op.file]) \in Abs!Docs
         /\ Patch(op, tree[op.file]) = Abs!Body(tree[op.file]) => Abs!Effect(op, tree) = tree
         /\ Patch(op, tree[op.file]) # Abs!Body(tree[op.file]) =>
              /\ Abs!Effect(op, tree) = [tree EXCEPT ![op.file] = Patch(op, tree[op.file])]
              /\ Patch(op, tree[op.file]) # tree[op.file]
<1> PICK old : old = Abs!Body(tree[op.file])
  OBVIOUS
<1>1. /\ op.file \in Abs!Files /\ op.entry \in Entries /\ op.kind \in {"add", "remove"}
      /\ tree \in [Abs!Files -> Abs!Docs \cup {NoDoc}]
  BY DEF Adds, Abs!Trees
<1>2. old \in Abs!Docs /\ (tree[op.file] # NoDoc => old = tree[op.file]) /\ (tree[op.file] = NoDoc => old = {})
  BY <1>1, DocsAreDocs DEF Abs!Docs
<1>3. CASE op.kind = "add"
  <2>1. Patch(op, tree[op.file]) = old \cup {op.entry}
    BY <1>3 DEF Patch
  <2>2. old \cup {op.entry} \in Abs!Docs /\ old \cup {op.entry} # {}
    BY <1>1, <1>2 DEF Abs!Docs
  <2>3. Abs!Effect(op, tree) = [tree EXCEPT ![op.file] = old \cup {op.entry}]
    BY <1>3 DEF Abs!Effect
  <2>4. old \cup {op.entry} = old => tree[op.file] = old
    BY <1>2, <2>2
  <2>5. old \cup {op.entry} = old => [tree EXCEPT ![op.file] = old \cup {op.entry}] = tree
    BY <1>1, <2>4
  <2>6. old \cup {op.entry} # old => old \cup {op.entry} # tree[op.file]
    BY <1>2, <2>2, DocsAreDocs
  <2> QED BY <2>1, <2>2, <2>3, <2>5, <2>6
<1>4. CASE op.kind = "remove"
  <2>1. Patch(op, tree[op.file]) = old \ {op.entry}
    BY <1>4 DEF Patch
  <2>2. old \ {op.entry} \in Abs!Docs
    BY <1>2 DEF Abs!Docs
  <2>3. Abs!Effect(op, tree) = IF op.entry \in old THEN [tree EXCEPT ![op.file] = old \ {op.entry}] ELSE tree
    BY <1>4 DEF Abs!Effect
  <2>4. old \ {op.entry} = old <=> op.entry \notin old
    OBVIOUS
  <2>5. old \ {op.entry} # tree[op.file] \/ op.entry \notin old
    BY <1>2, <2>4
  <2> QED BY <2>1, <2>2, <2>3, <2>4, <2>5
<1> QED BY <1>1, <1>3, <1>4

LEMMA LocalTreeTyped ==
  ASSUME LocalInv, LocalCallsAreOps
  PROVE  LocalTree \in Abs!Trees /\ \A f \in Abs!Files : LocalTree[f] = Local!Found(f)
  BY FoundTyped DEF LocalTree, Abs!Trees

(* A call that fails and has done nothing. *)
LEMMA ErrorStands ==
  ASSUME LocalInv, LocalCallsAreOps, NEW c \in Clients, local[c].pc \in {"called", "read"},
         NEW op, op = local[c].op, op \in LocalCallsOf[c], UNCHANGED files,
         local' = [local EXCEPT ![c] = Done(op, "error")]
  PROVE  LocalInv' /\ Local!LocalAbs!AbsFail(c)
<1>1. LocalCall(c)'
  <2>1. local'[c] = Done(op, "error") /\ Done(op, "error").op = op
    BY LocalShown DEF Done
  <2> QED BY <2>1 DEF LocalCall
<1>2. LocalInv'
  BY <1>1, LocalMoves
<1>3. LocalTree' = LocalTree
  BY DEF LocalTree, Local!Found
<1>4. LocalCalls[c].pc = "pending"
      /\ LocalCalls' = [LocalCalls EXCEPT ![c] = [pc |-> "done", op |-> @.op, answer |-> "error"]]
  BY LocalPending
<1> QED BY <1>2, <1>3, <1>4, LocalFails

(* What the files are to become, and what becomes of them when the writing  *)
(* of it stops.                                                             *)
IsGoal(goal, op) ==
  /\ goal \in Abs!Trees
  /\ \A f \in Abs!Files : ~Writes(op, f) => goal[f] = files[f]
  /\ \A f \in Abs!Files : Writes(op, f) =>
       Abs!Effect(op, LocalTree)[f] = IF goal[f] # NoDoc THEN goal[f] ELSE Fallback[f]

LEMMA GoalIs ==
  ASSUME LocalInv, LocalCallsAreOps, NothingFallsBack, NEW c \in Clients, Local!Writing(c), NEW op, op = local[c].op
  PROVE  IsGoal(Local!Goal(c), op)
<1>1. local[c].pc # "idle" /\ op \in LocalCallsOf[c] /\ op \in Abs!Ops
  BY LocalIsCall DEF Local!Writing
<1>2. files \in Abs!Trees /\ DOMAIN files = Abs!Files /\ LocalTree \in Abs!Trees
  BY FoundTyped, LocalTreeTyped DEF LocalInv
<1>3. CASE local[c].pc = "read"
  <2> PICK doc : doc = local[c].doc
    OBVIOUS
  <2>1. /\ op \in Adds /\ op.file \in Abs!Files /\ op.kind \in {"add", "remove"}
        /\ doc = Patch(op, LocalTree[op.file]) /\ doc # Abs!Body(LocalTree[op.file])
    BY <1>3, LocalReads, LocalTreeTyped DEF Adds
  <2>2. doc \in Abs!Docs /\ Abs!Effect(op, LocalTree) = [LocalTree EXCEPT ![op.file] = doc]
    BY <1>2, <2>1, PatchEffect
  <2>3. Local!Goal(c) = [files EXCEPT ![op.file] = doc]
    BY <1>3, <2>1 DEF Local!Goal, Local!Written
  <2>4. [files EXCEPT ![op.file] = doc] \in Abs!Trees
    BY <1>2, <2>2 DEF Abs!Trees
  <2>5. \A f \in Abs!Files : Writes(op, f) <=> f = op.file
    BY <2>1 DEF Writes
  <2>6. doc # NoDoc /\ Abs!Effect(op, LocalTree)[op.file] = doc /\ [files EXCEPT ![op.file] = doc][op.file] = doc
    BY <1>2, <2>1, <2>2, DocsAreDocs DEF Abs!Trees
  <2>7. \A f \in Abs!Files : f # op.file => [files EXCEPT ![op.file] = doc][f] = files[f]
    BY <1>2
  <2> QED BY <2>3, <2>4, <2>5, <2>6, <2>7 DEF IsGoal
<1>4. CASE local[c].pc # "read" /\ op.kind = "put"
  <2> PICK doc : doc = op.doc
    OBVIOUS
  <2>1. op.file \in Abs!Files /\ doc \in Abs!Docs
    BY <1>1, <1>4 DEF Abs!Ops
  <2>2. Abs!Effect(op, LocalTree) = [LocalTree EXCEPT ![op.file] = doc]
    BY <1>4 DEF Abs!Effect
  <2>3. Local!Goal(c) = [files EXCEPT ![op.file] = doc]
    BY <1>4 DEF Local!Goal, Local!Written
  <2>4. [files EXCEPT ![op.file] = doc] \in Abs!Trees
    BY <1>2, <2>1 DEF Abs!Trees
  <2>5. \A f \in Abs!Files : Writes(op, f) <=> f = op.file
    BY <1>4 DEF Writes
  <2>6. doc # NoDoc /\ Abs!Effect(op, LocalTree)[op.file] = doc /\ [files EXCEPT ![op.file] = doc][op.file] = doc
    BY <1>2, <2>1, <2>2, DocsAreDocs DEF Abs!Trees
  <2>7. \A f \in Abs!Files : f # op.file => [files EXCEPT ![op.file] = doc][f] = files[f]
    BY <1>2
  <2> QED BY <2>3, <2>4, <2>5, <2>6, <2>7 DEF IsGoal
<1>5. CASE local[c].pc # "read" /\ op.kind = "delete"
  <2>0. PICK dir : dir = op.dir
    OBVIOUS
  <2>1. Local!Goal(c) = [f \in Abs!Files |-> IF f[1] = dir THEN NoDoc ELSE files[f]]
    BY <1>2, <1>5, <2>0 DEF Local!Goal, Local!Without
  <2>2. Abs!Effect(op, LocalTree) = [f \in Abs!Files |-> IF f[1] = dir THEN NoDoc ELSE LocalTree[f]]
    BY <1>5, <2>0 DEF Abs!Effect
  <2>3. \A f \in Abs!Files : f[1] = dir => Fallback[f] = NoDoc
    BY <1>1, <1>5, <2>0 DEF NothingFallsBack
  <2>4. Local!Goal(c) \in Abs!Trees
    BY <1>2, <2>1 DEF Abs!Trees
  <2> QED BY <1>5, <2>0, <2>1, <2>2, <2>3, <2>4 DEF IsGoal, Writes
<1>6. CASE local[c].pc # "read" /\ op.kind = "tree"
  <2>0. PICK dir : dir = op.dir
    OBVIOUS
  <2> PICK docs : docs = [f \in Abs!Files |-> op.docs[f[2]]]
    OBVIOUS
  <2>1. Local!Goal(c) = [f \in Abs!Files |-> IF f[1] = dir THEN docs[f] ELSE files[f]]
    BY <1>2, <1>6, <2>0 DEF Local!Goal, Local!Replaced
  <2>2. Abs!Effect(op, LocalTree) = [f \in Abs!Files |-> IF f[1] = dir THEN docs[f] ELSE LocalTree[f]]
    BY <1>6, <2>0 DEF Abs!Effect
  <2>3. \A f \in Abs!Files : f[1] = dir => Fallback[f] = NoDoc
    BY <1>1, <1>6, <2>0 DEF NothingFallsBack
  <2>4. docs \in [Abs!Files -> Abs!Docs \cup {NoDoc}]
    <3>1. op.docs \in [Names -> Abs!Docs \cup {NoDoc}]
      BY <1>1, <1>6 DEF Abs!Ops
    <3> QED BY <3>1 DEF Abs!Files
  <2>5. Local!Goal(c) \in Abs!Trees
    BY <1>2, <2>1, <2>4 DEF Abs!Trees
  <2> QED BY <1>6, <2>0, <2>1, <2>2, <2>3, <2>5 DEF IsGoal, Writes
<1> QED BY <1>3, <1>4, <1>5, <1>6 DEF Local!Writing

LEMMA StopsHalfway ==
  ASSUME LocalInv, LocalCallsAreOps, NEW op, NEW goal, IsGoal(goal, op), NEW done, Local!Stops(goal, done)
  PROVE  /\ files' \in Abs!Trees /\ LocalTree' \in Abs!Halves(op, LocalTree)
         /\ \A f \in Abs!Files : ~Writes(op, f) => Local!Found(f)' = Local!Found(f)
<1>1. /\ files \in Abs!Trees /\ goal \in Abs!Trees /\ DOMAIN files = Abs!Files /\ LocalTree \in Abs!Trees
      /\ \A f \in Abs!Files : LocalTree[f] = Local!Found(f)
  BY FoundTyped, LocalTreeTyped DEF LocalInv, IsGoal
<1>2. /\ DOMAIN files' = Abs!Files /\ files' = [f \in Abs!Files |-> files'[f]]
      /\ \A f \in Abs!Files : \/ files'[f] = files[f]
                              \/ files'[f] = goal[f]
                              \/ goal[f] # NoDoc /\ goal[f] # files[f] /\ files'[f] \in SUBSET goal[f]
  <2> PICK half : half = [f \in Abs!Files |-> IF f \in done THEN goal[f] ELSE files[f]]
    OBVIOUS
  <2>1. Local!HalfDone(goal, done) = half
    BY <1>1 DEF Local!HalfDone
  <2>2. CASE files' = half
    BY <2>2
  <2>3. ASSUME NEW g \in Local!Rewritten(goal) \ done, NEW part \in SUBSET goal[g], files' = [half EXCEPT ![g] = part]
        PROVE  <1>2
    <3>1. g \in Abs!Files /\ goal[g] # NoDoc /\ goal[g] # files[g]
      BY <1>1, <2>3 DEF Local!Rewritten
    <3> QED BY <2>3, <3>1
  <2> QED BY <2>1, <2>2, <2>3 DEF Local!Stops
<1>3. ASSUME NEW f \in Abs!Files PROVE files'[f] \in Abs!Docs \cup {NoDoc}
  <2>1. goal[f] \in Abs!Docs \cup {NoDoc} /\ files[f] \in Abs!Docs \cup {NoDoc}
    BY <1>1 DEF Abs!Trees
  <2> QED BY <1>2, <2>1 DEF Abs!Docs
<1>4. files' \in Abs!Trees
  BY <1>2, <1>3 DEF Abs!Trees
<1>5. ASSUME NEW f \in Abs!Files, ~Writes(op, f) PROVE Local!Found(f)' = Local!Found(f)
  <2>1. goal[f] = files[f]
    BY <1>5 DEF IsGoal
  <2>2. files'[f] = files[f]
    BY <1>2, <2>1
  <2> QED BY <2>2 DEF Local!Found
<1> PICK new : new = [f \in Abs!Files |-> IF files'[f] # NoDoc THEN files'[f] ELSE Fallback[f]]
  OBVIOUS
<1>6. LocalTree' = new /\ new \in Abs!Trees /\ \A f \in Abs!Files : Local!Found(f)' = new[f]
  <2>1. \A f \in Abs!Files : new[f] \in Abs!Docs \cup {NoDoc}
    BY <1>3 DEF LocalCallsAreOps, Abs!Trees
  <2> QED BY <2>1 DEF LocalTree, Local!Found, Abs!Trees
<1>7. ASSUME NEW f \in Abs!Files
      PROVE  \/ new[f] = LocalTree[f]
             \/ /\ Abs!About(op, f)
                /\ \/ new[f] = Abs!Effect(op, LocalTree)[f]
                   \/ /\ NoDoc \notin {new[f], Abs!Effect(op, LocalTree)[f]}
                      /\ new[f] \subseteq Abs!Effect(op, LocalTree)[f]
  <2>1. CASE ~Writes(op, f)
    BY <1>1, <1>5, <1>6, <2>1
  <2>2. CASE Writes(op, f)
    <3>1. Abs!About(op, f)
      BY <2>2 DEF Writes, Abs!About
    <3>2. Abs!Effect(op, LocalTree)[f] = IF goal[f] # NoDoc THEN goal[f] ELSE Fallback[f]
      BY <2>2 DEF IsGoal
    <3>3. CASE files'[f] = files[f]
      BY <1>1, <3>3 DEF Local!Found
    <3>4. CASE files'[f] = goal[f]
      BY <3>1, <3>2, <3>4
    <3>5. CASE goal[f] # NoDoc /\ files'[f] \in SUBSET goal[f]
      <4>1. goal[f] \in Abs!Docs
        BY <1>1, <3>5 DEF Abs!Trees
      <4>2. files'[f] \in Abs!Docs
        BY <3>5, <4>1 DEF Abs!Docs
      <4>3. files'[f] # NoDoc
        BY <4>2, DocsAreDocs
      <4> QED BY <3>1, <3>2, <3>5, <4>3
    <3> QED BY <1>2, <3>3, <3>4, <3>5
  <2> QED BY <2>1, <2>2
<1>8. new \in Abs!Halves(op, LocalTree)
  BY <1>6, <1>7 DEF Abs!Halves
<1> QED BY <1>4, <1>5, <1>6, <1>8

(* A call that stops halfway in its write. *)
LEMMA StopSim ==
  ASSUME LocalInv, LocalCallsAreOps, PatchesAreAlone, NothingFallsBack, NEW c \in Clients, Local!Writing(c),
         NEW op, op = local[c].op, NEW done, Local!Stops(Local!Goal(c), done),
         local' = [local EXCEPT ![c] = Done(op, "error")]
  PROVE  LocalInv' /\ Local!LocalAbs!AbsTear(c)
<1> PICK goal : goal = Local!Goal(c)
  OBVIOUS
<1>1. local[c].pc \in {"called", "read"} /\ op \in LocalCallsOf[c] /\ op.kind \in Kinds
  <2>1. local[c].pc \in {"called", "read"}
    BY DEF Local!Writing
  <2>2. op \in LocalCallsOf[c] /\ op \in Abs!Ops
    BY <2>1, LocalIsCall
  <2> QED BY <2>1, <2>2 DEF Abs!Ops, Kinds
<1>2. IsGoal(goal, op) /\ Local!Stops(goal, done)
  BY GoalIs
<1>3. /\ files' \in Abs!Trees /\ LocalTree' \in Abs!Halves(op, LocalTree)
      /\ \A f \in Abs!Files : ~Writes(op, f) => Local!Found(f)' = Local!Found(f)
  BY <1>2, StopsHalfway
<1>4. LocalInv'
  BY <1>1, <1>3, LocalWrites
<1>5. /\ LocalCalls[c].pc = "pending" /\ LocalCalls[c].op = op
      /\ LocalCalls' = [LocalCalls EXCEPT ![c] = [pc |-> "done", op |-> @.op, answer |-> "error"]]
  BY <1>1, LocalPending
<1> QED BY <1>1, <1>3, <1>4, <1>5, LocalTears

LEMMA PatchGetSim ==
  ASSUME LocalInv, LocalCallsAreOps, NEW c \in Clients, Local!PatchGet(c)
  PROVE  LocalInv' /\ (Local!LocalAbs!AbsApply(c) \/ Local!LocalAbs!AbsFail(c) \/ UNCHANGED Local!LocalAbs!absVars)
<1> PICK op : op = local[c].op
  OBVIOUS
<1> PICK doc : doc = Patch(op, Local!Found(op.file))
  OBVIOUS
<1>1. local[c].pc = "called" /\ op.kind \in {"add", "remove"} /\ UNCHANGED files
  BY DEF Local!PatchGet
<1>2. op \in LocalCallsOf[c] /\ op \in Adds /\ op.file \in Abs!Files
  <2>1. op \in LocalCallsOf[c] /\ op \in Abs!Ops
    BY <1>1, LocalIsCall
  <2> QED BY <1>1, <2>1 DEF Abs!Ops, Adds
<1>3. \/ local' = [local EXCEPT ![c] = Done(op, "error")]
      \/ local' = [local EXCEPT ![c] = IF doc = Abs!Body(Local!Found(op.file)) THEN Done(op, "unchanged")
                                       ELSE [pc |-> "read", op |-> op, doc |-> doc]]
  BY DEF Local!PatchGet, Patch, Local!Body, Abs!Body, Local!Ended, Local!LocalDone, Done
<1>4. LocalTree' = LocalTree /\ \A f : Local!Found(f)' = Local!Found(f)
  BY <1>1 DEF LocalTree, Local!Found
<1>7. CASE local' = [local EXCEPT ![c] = Done(op, "error")]
  BY <1>1, <1>2, <1>7, ErrorStands
<1>5. CASE local' # [local EXCEPT ![c] = Done(op, "error")] /\ doc = Abs!Body(Local!Found(op.file))
  <2>1. local' = [local EXCEPT ![c] = Done(op, "unchanged")]
    BY <1>3, <1>5
  <2>2. LocalCall(c)'
    <3>1. local'[c] = Done(op, "unchanged") /\ Done(op, "unchanged").op = op
      BY <2>1, LocalShown DEF Done
    <3> QED BY <1>2, <3>1 DEF LocalCall
  <2>3. LocalInv'
    BY <1>1, <2>1, <2>2, LocalMoves
  <2>4. Abs!Effect(op, LocalTree) = LocalTree
    <3>1. LocalTree \in Abs!Trees /\ LocalTree[op.file] = Local!Found(op.file)
      BY <1>2, LocalTreeTyped
    <3>2. Patch(op, LocalTree[op.file]) = Abs!Body(LocalTree[op.file])
      BY <1>5, <3>1
    <3> QED BY <1>2, <3>1, <3>2, PatchEffect
  <2>5. "unchanged" = Abs!Answer(LocalTree' # LocalTree)
    BY <1>4 DEF Abs!Answer
  <2> QED BY <1>1, <1>4, <2>1, <2>3, <2>4, <2>5, LocalEffect
<1>6. CASE local' # [local EXCEPT ![c] = Done(op, "error")] /\ doc # Abs!Body(Local!Found(op.file))
  <2> PICK g : g = [pc |-> "read", op |-> op, doc |-> doc]
    OBVIOUS
  <2>1. local' = [local EXCEPT ![c] = g]
    BY <1>3, <1>6
  <2>2. LocalCall(c)'
    <3>1. local'[c] = g /\ g.op = op /\ g.doc = doc /\ g = [pc |-> "read", op |-> op, doc |-> doc]
      BY <2>1, LocalShown
    <3>2. doc = Patch(op, Local!Found(op.file)') /\ doc # Abs!Body(Local!Found(op.file)')
      BY <1>4, <1>6
    <3>3. Local!Found(op.file)' = IF files'[op.file] # NoDoc THEN files'[op.file] ELSE Fallback[op.file]
      BY DEF Local!Found
    <3> QED BY <1>2, <3>1, <3>2, <3>3 DEF LocalCall, Local!Found
  <2>3. LocalInv'
    BY <1>1, <2>1, <2>2, LocalMoves
  <2>4. Shown(g) = LocalCalls[c]
    BY <1>1, LocalPending DEF Shown, LocalCalls
  <2>5. LocalCalls' = LocalCalls
    BY <2>1, <2>4, LocalShown DEF LocalCalls
  <2> QED BY <1>4, <2>3, <2>5, LocalStands
<1> QED BY <1>5, <1>6, <1>7

LEMMA PatchPutSim ==
  ASSUME LocalInv, LocalCallsAreOps, PatchesAreAlone, NothingFallsBack, NEW c \in Clients, Local!PatchPut(c)
  PROVE  LocalInv' /\ (Local!LocalAbs!AbsApply(c) \/ Local!LocalAbs!AbsTear(c))
<1> PICK op : op = local[c].op
  OBVIOUS
<1> PICK doc : doc = Patch(op, Local!Found(op.file))
  OBVIOUS
<1>1. local[c].pc = "read"
  BY DEF Local!PatchPut
<1>2. /\ op \in LocalCallsOf[c] /\ op \in Adds /\ op.file \in Abs!Files /\ local[c].doc = doc
      /\ doc # Abs!Body(Local!Found(op.file)) /\ op.kind \in {"add", "remove"}
  BY <1>1, LocalReads, LocalIsCall DEF Adds
<1>3. doc \in Abs!Docs /\ LocalTree[op.file] = Local!Found(op.file) /\ LocalTree \in Abs!Trees
  BY <1>2, LocalTreeTyped, PatchEffect
<1>4. CASE files' = [files EXCEPT ![op.file] = doc] /\ local' = [local EXCEPT ![c] = Done(op, "changed")]
  <2>1. files' \in Abs!Trees /\ \A g \in Abs!Files : Local!Found(g)' = IF g = op.file THEN doc ELSE Local!Found(g)
    BY <1>2, <1>3, <1>4, FoundWritten
  <2>2. \A f \in Abs!Files : ~Writes(op, f) => Local!Found(f)' = Local!Found(f)
    BY <1>2, <2>1 DEF Writes
  <2>3. LocalInv'
    BY <1>2, <1>4, <2>1, <2>2, LocalWrites
  <2>4. LocalTree' = [LocalTree EXCEPT ![op.file] = doc]
    BY <1>2, <2>1 DEF LocalTree
  <2>5. LocalTree' = Abs!Effect(op, LocalTree) /\ LocalTree' # LocalTree
    <3>1. Abs!Effect(op, LocalTree) = [LocalTree EXCEPT ![op.file] = doc] /\ doc # LocalTree[op.file]
      BY <1>2, <1>3, PatchEffect
    <3>2. LocalTree'[op.file] = doc
      BY <1>2, <1>3, <2>4 DEF Abs!Trees
    <3> QED BY <2>4, <3>1, <3>2
  <2>6. "changed" = Abs!Answer(LocalTree' # LocalTree)
    BY <2>5 DEF Abs!Answer
  <2> QED BY <1>1, <1>4, <2>3, <2>5, <2>6, LocalEffect
<1>5. CASE Local!StopsAnywhere(Local!Goal(c)) /\ local' = [local EXCEPT ![c] = Done(op, "error")]
  BY <1>1, <1>5, StopSim DEF Local!StopsAnywhere, Local!Writing
<1>6. \A a : Local!Ended(c, a) => local' = [local EXCEPT ![c] = Done(op, a)]
  BY DEF Local!Ended, Local!LocalDone, Done
<1>7. Local!Goal(c) = Local!Written(op.file, local[c].doc)
  BY <1>1, <1>2 DEF Local!Goal
<1> QED BY <1>2, <1>4, <1>5, <1>6, <1>7 DEF Local!PatchPut, Local!Written

LEMMA PutMade ==
  ASSUME LocalInv, LocalCallsAreOps, PatchesAreAlone, NEW c \in Clients, NEW op, op = local[c].op,
         local[c].pc = "called", op.kind = "put", files' = [files EXCEPT ![op.file] = op.doc],
         NEW a, a = IF Local!Found(op.file) = op.doc THEN "unchanged" ELSE "changed",
         local' = [local EXCEPT ![c] = Done(op, a)]
  PROVE  LocalInv' /\ Local!LocalAbs!AbsApply(c)
<1>1. /\ local[c].pc = "called" /\ op.kind = "put" /\ files' = [files EXCEPT ![op.file] = op.doc]
      /\ local' = [local EXCEPT ![c] = Done(op, a)]
  OBVIOUS
<1>2. op \in LocalCallsOf[c] /\ op.file \in Abs!Files /\ op.doc \in Abs!Docs
  <2>1. op \in LocalCallsOf[c] /\ op \in Abs!Ops
    BY <1>1, LocalIsCall
  <2> QED BY <1>1, <2>1 DEF Abs!Ops
<1> PICK doc \in Abs!Docs : doc = op.doc
  BY <1>2
<1>0. PICK file \in Abs!Files : file = op.file
  BY <1>2
<1>3. files' \in Abs!Trees /\ \A g \in Abs!Files : Local!Found(g)' = IF g = op.file THEN doc ELSE Local!Found(g)
  <2>1. files' = [files EXCEPT ![file] = doc]
    BY <1>0, <1>1
  <2>2. files' \in Abs!Trees /\ \A g \in Abs!Files : Local!Found(g)' = IF g = file THEN doc ELSE Local!Found(g)
    BY <2>1, FoundWritten
  <2> QED BY <1>0, <2>2
<1>4. \A f \in Abs!Files : ~Writes(op, f) => Local!Found(f)' = Local!Found(f)
  BY <1>1, <1>3 DEF Writes
<1>5. LocalInv'
  <2>1. a \in {"changed", "unchanged", "error"} /\ files' \in Abs!Trees
    BY <1>3
  <2> QED BY <1>2, <1>4, <2>1, LocalWrites
<1>6. LocalTree' = [LocalTree EXCEPT ![op.file] = doc]
  BY <1>3 DEF LocalTree
<1>7. LocalTree' = Abs!Effect(op, LocalTree)
  BY <1>1, <1>6 DEF Abs!Effect
<1>8. LocalTree' # LocalTree <=> Local!Found(op.file) # doc
  <2>1. LocalTree \in Abs!Trees /\ LocalTree[op.file] = Local!Found(op.file)
    BY <1>2, LocalTreeTyped
  <2> QED BY <1>2, <1>6, <2>1 DEF Abs!Trees
<1>9. a = Abs!Answer(LocalTree' # LocalTree)
  BY <1>8 DEF Abs!Answer
<1> QED BY <1>1, <1>5, <1>7, <1>9, LocalEffect

LEMMA PutSim ==
  ASSUME LocalInv, LocalCallsAreOps, PatchesAreAlone, NothingFallsBack, NEW c \in Clients, Local!Put(c)
  PROVE  LocalInv' /\ (Local!LocalAbs!AbsApply(c) \/ Local!LocalAbs!AbsTear(c))
<1> PICK op : op = local[c].op
  OBVIOUS
<1>1. local[c].pc = "called" /\ op.kind = "put" /\ Local!Writing(c)
  BY DEF Local!Put, Local!Writing
<1>2. \A a : Local!Ended(c, a) => local' = [local EXCEPT ![c] = Done(op, a)]
  BY DEF Local!Ended, Local!LocalDone, Done
<1>3. Local!Goal(c) = Local!Written(op.file, op.doc)
  BY <1>1 DEF Local!Goal
<1>4. \/ /\ files' = [files EXCEPT ![op.file] = op.doc]
         /\ local' = [local EXCEPT ![c] = Done(op, IF Local!Found(op.file) = op.doc THEN "unchanged" ELSE "changed")]
      \/ Local!StopsAnywhere(Local!Goal(c)) /\ local' = [local EXCEPT ![c] = Done(op, "error")]
  BY <1>2, <1>3 DEF Local!Put, Local!Written
<1>5. CASE Local!StopsAnywhere(Local!Goal(c)) /\ local' = [local EXCEPT ![c] = Done(op, "error")]
  BY <1>1, <1>5, StopSim DEF Local!StopsAnywhere
<1> QED BY <1>1, <1>4, <1>5, PutMade

(* Delete and PutTree say what becomes of a whole directory. *)
LEMMA DirectoryMade ==
  ASSUME LocalInv, LocalCallsAreOps, PatchesAreAlone, NothingFallsBack, NEW c \in Clients,
         local[c].pc = "called", local[c].op.kind \in {"delete", "tree"}, files' = Local!Goal(c),
         local' = [local EXCEPT ![c] = Done(local[c].op, IF files' = files THEN "unchanged" ELSE "changed")]
  PROVE  LocalInv' /\ Local!LocalAbs!AbsApply(c)
<1> PICK op : op = local[c].op
  OBVIOUS
<1> PICK docs : docs = [f \in Abs!Files |-> IF op.kind = "tree" THEN op.docs[f[2]] ELSE NoDoc]
  OBVIOUS
<1> PICK a : a = IF files' = files THEN "unchanged" ELSE "changed"
  OBVIOUS
<1>0. PICK dir : dir = op.dir
  OBVIOUS
<1>1. local[c].pc = "called" /\ op.kind \in {"delete", "tree"}
  OBVIOUS
<1>2. op \in LocalCallsOf[c] /\ op \in Abs!Ops
  BY <1>1, LocalIsCall
<1>3. docs \in [Abs!Files -> Abs!Docs \cup {NoDoc}]
  <2>1. op.kind = "tree" => op.docs \in [Names -> Abs!Docs \cup {NoDoc}]
    BY <1>2 DEF Abs!Ops
  <2> QED BY <2>1 DEF Abs!Files
<1>4. files' = [f \in DOMAIN files |-> IF f[1] = dir THEN docs[f] ELSE files[f]]
  <2>1. DOMAIN files = Abs!Files
    BY FoundTyped
  <2>2. CASE op.kind = "delete"
    <3>1. files' = [f \in DOMAIN files |-> IF f[1] = op.dir THEN NoDoc ELSE files[f]]
      BY <1>1, <2>2 DEF Local!Goal, Local!Without
    <3> QED BY <1>0, <2>1, <2>2, <3>1
  <2>3. CASE op.kind = "tree"
    <3>1. files' = [f \in DOMAIN files |-> IF f[1] = op.dir THEN op.docs[f[2]] ELSE files[f]]
      BY <1>1, <2>3 DEF Local!Goal, Local!Replaced
    <3> QED BY <1>0, <2>1, <2>3, <3>1
  <2> QED BY <1>1, <2>2, <2>3
<1>5. local' = [local EXCEPT ![c] = Done(op, a)]
  OBVIOUS
<1>6. \A f \in Abs!Files : f[1] = dir => Fallback[f] = NoDoc
  BY <1>0, <1>1, <1>2 DEF NothingFallsBack
<1>7. /\ files' \in Abs!Trees
      /\ \A g \in Abs!Files : Local!Found(g)' = IF g[1] = dir THEN docs[g] ELSE Local!Found(g)
      /\ files' = files <=> \A g \in Abs!Files : Local!Found(g)' = Local!Found(g)
  BY <1>3, <1>4, <1>6, FoundRewritten
<1>8. \A f \in Abs!Files : ~Writes(op, f) => Local!Found(f)' = Local!Found(f)
  BY <1>0, <1>1, <1>7 DEF Writes
<1>9. LocalInv'
  BY <1>2, <1>5, <1>7, <1>8, LocalWrites
<1>10. LocalTree' = [g \in Abs!Files |-> IF g[1] = dir THEN docs[g] ELSE LocalTree[g]]
  BY <1>7 DEF LocalTree
<1>11. LocalTree' = Abs!Effect(op, LocalTree)
  BY <1>0, <1>1, <1>10 DEF Abs!Effect
<1>12. LocalTree' = LocalTree <=> files' = files
  BY <1>7 DEF LocalTree
<1>13. a = Abs!Answer(LocalTree' # LocalTree)
  BY <1>12 DEF Abs!Answer
<1> QED BY <1>1, <1>5, <1>9, <1>11, <1>13, LocalEffect

LEMMA DirectorySim ==
  ASSUME LocalInv, LocalCallsAreOps, PatchesAreAlone, NothingFallsBack, ~RemovalsFail, NEW c \in Clients,
         Local!Delete(c) \/ Local!PutTree(c)
  PROVE  LocalInv' /\ (Local!LocalAbs!AbsApply(c) \/ Local!LocalAbs!AbsTear(c))
<1> PICK op : op = local[c].op
  OBVIOUS
<1> PICK goal : goal = Local!Goal(c)
  OBVIOUS
<1>1. local[c].pc = "called" /\ op.kind \in {"delete", "tree"} /\ Local!Writing(c)
  BY DEF Local!Delete, Local!PutTree, Local!Writing
<1>2. \A a : Local!Ended(c, a) => local' = [local EXCEPT ![c] = Done(op, a)]
  BY DEF Local!Ended, Local!LocalDone, Done
<1>3. ASSUME files' = goal, local' = [local EXCEPT ![c] = Done(op, IF goal = files THEN "unchanged" ELSE "changed")]
      PROVE  LocalInv' /\ Local!LocalAbs!AbsApply(c)
  BY <1>1, <1>3, DirectoryMade
<1>4. ASSUME NEW done, Local!Stops(goal, done), local' = [local EXCEPT ![c] = Done(op, "error")]
      PROVE  LocalInv' /\ Local!LocalAbs!AbsTear(c)
  BY <1>1, <1>4, StopSim
<1>5. CASE Local!Delete(c)
  <2>1. goal = Local!Without(op.dir)
    BY <1>1, <1>5 DEF Local!Goal, Local!Delete
  <2> QED BY <1>2, <1>3, <1>4, <1>5, <2>1 DEF Local!Delete, Local!StopsAnywhere
<1>6. CASE Local!PutTree(c)
  <2>1. goal = Local!Replaced(op.dir, op.docs)
    BY <1>1, <1>6 DEF Local!Goal, Local!PutTree
  <2>2. Local!HalfDone(goal, DOMAIN files \ {}) = goal
    <3>1. DOMAIN goal = DOMAIN files /\ goal = [f \in DOMAIN files |-> goal[f]]
      BY <2>1 DEF Local!Replaced
    <3> QED BY <3>1 DEF Local!HalfDone
  <2> QED BY <1>2, <1>3, <1>4, <1>6, <2>1, <2>2 DEF Local!PutTree
<1> QED BY <1>5, <1>6

(* The process dies. *)
LEMMA LocalCrashSim ==
  ASSUME LocalInv, LocalCallsAreOps, NothingFallsBack, Local!LocalCrash
  PROVE  LocalInv' /\ Local!LocalAbs!AbsNext
<1>1. local' = [c \in Clients |-> Idle]
  BY DEF Local!LocalCrash, Idle
<1>2. LocalCalls' = [c \in Clients |-> Abs!Idle]
  BY <1>1, ShownFacts DEF LocalCalls
<1>3. ASSUME files' \in Abs!Trees PROVE LocalInv'
  BY <1>1, <1>3 DEF LocalInv, LocalCall
<1>4. CASE UNCHANGED files
  <2>1. LocalInv'
    BY <1>3, <1>4 DEF LocalInv
  <2>2. LocalTree' = LocalTree
    BY <1>4 DEF LocalTree, Local!Found
  <2> QED BY <1>2, <2>1, <2>2, LocalDies
<1>5. ASSUME NEW c \in Clients, Local!Writing(c), Local!StopsAnywhere(Local!Goal(c))
      PROVE  LocalInv' /\ Local!LocalAbs!AbsNext
  <2> PICK op : op = local[c].op
    OBVIOUS
  <2> PICK goal : goal = Local!Goal(c)
    OBVIOUS
  <2>1. PICK done : Local!Stops(goal, done)
    BY <1>5 DEF Local!StopsAnywhere
  <2>2. IsGoal(goal, op)
    BY <1>5, GoalIs
  <2>3. files' \in Abs!Trees /\ LocalTree' \in Abs!Halves(op, LocalTree)
    BY <2>1, <2>2, StopsHalfway
  <2>4. local[c].pc \in {"called", "read"}
    BY <1>5 DEF Local!Writing
  <2>5. op \in Abs!Ops /\ LocalCalls[c].pc = "pending" /\ LocalCalls[c].op = op
    BY <2>4, LocalIsCall, LocalPending
  <2>6. op.kind \in Kinds
    BY <2>5 DEF Abs!Ops, Kinds
  <2>7. LocalInv'
    BY <1>3, <2>3
  <2> QED BY <1>2, <2>3, <2>5, <2>6, <2>7, LocalDies
<1> QED BY <1>4, <1>5 DEF Local!LocalCrash

LEMMA LocalStepSim ==
  ASSUME LocalCallsAreOps, PatchesAreAlone, NothingFallsBack, ~RemovalsFail, LocalInv, [Local!LocalNext]_<<files, local>>
  PROVE  LocalInv' /\ [Local!LocalAbs!AbsNext]_(Local!LocalAbs!absVars)
<1>1. CASE UNCHANGED <<files, local>>
  <2>1. LocalInv'
    BY <1>1 DEF LocalInv, LocalCall, Local!Found
  <2>2. LocalTree' = LocalTree /\ LocalCalls' = LocalCalls
    BY <1>1 DEF LocalTree, LocalCalls, Local!Found
  <2> QED BY <2>1, <2>2, LocalStands
<1>2. ASSUME NEW c \in Clients, Local!LocalInvoke(c) PROVE LocalInv' /\ Local!LocalAbs!AbsNext
  BY <1>2, LocalInvokeSim DEF Local!LocalAbs!AbsNext
<1>3. ASSUME NEW c \in Clients, Local!PatchGet(c)
      PROVE  LocalInv' /\ (Local!LocalAbs!AbsNext \/ UNCHANGED Local!LocalAbs!absVars)
  BY <1>3, PatchGetSim DEF Local!LocalAbs!AbsNext
<1>4. ASSUME NEW c \in Clients, Local!PatchPut(c) PROVE LocalInv' /\ Local!LocalAbs!AbsNext
  BY <1>4, PatchPutSim DEF Local!LocalAbs!AbsNext
<1>5. ASSUME NEW c \in Clients, Local!Put(c) PROVE LocalInv' /\ Local!LocalAbs!AbsNext
  BY <1>5, PutSim DEF Local!LocalAbs!AbsNext
<1>6. ASSUME NEW c \in Clients, Local!Delete(c) \/ Local!PutTree(c) PROVE LocalInv' /\ Local!LocalAbs!AbsNext
  BY <1>6, DirectorySim DEF Local!LocalAbs!AbsNext
<1>7. ASSUME NEW c \in Clients, Local!LocalReturn(c) PROVE LocalInv' /\ Local!LocalAbs!AbsNext
  BY <1>7, LocalReturnSim DEF Local!LocalAbs!AbsNext
<1>8. CASE Local!LocalCrash
  BY <1>8, LocalCrashSim
<1> QED BY <1>1, <1>2, <1>3, <1>4, <1>5, <1>6, <1>7, <1>8 DEF Local!LocalNext

LEMMA LocalInitSim ==
  ASSUME LocalCallsAreOps, Local!LocalInit
  PROVE  LocalInv /\ Local!LocalAbs!AbsInit
<1>1. files = InitTree /\ local = [c \in Clients |-> Idle]
  BY DEF Local!LocalInit, Idle
<1>2. LocalInv
  BY <1>1 DEF LocalInv, LocalCall, LocalCallsAreOps
<1>3. LocalTree \in Abs!Trees
  BY <1>2, LocalTreeTyped
<1>4. LocalCalls = [c \in Clients |-> Abs!Idle]
  BY <1>1, ShownFacts DEF LocalCalls
<1> QED BY <1>2, <1>3, <1>4, LocalMapped, SameStore DEF Local!LocalAbs!AbsInit

(* The local adapter is a ports.StateStore too, for any number of           *)
(* goroutines and documents: whatever a call fails to read or write and     *)
(* wherever the process dies, a call takes effect in one step or leaves     *)
(* part of it, in nothing but the files it is about, and never answers as   *)
(* if all of it were done.  What it takes: nobody writes a document between *)
(* the Get and the Put of another goroutine's Patch (SharedEdits is the     *)
(* scenario without), what is deleted or written as a directory has no      *)
(* older copy that a Get would find, and a file that PutTree removes goes   *)
(* (the code ignores it when it does not).                                  *)
THEOREM LocalIsAStateStore ==
  LocalCallsAreOps /\ PatchesAreAlone /\ NothingFallsBack /\ ~RemovalsFail => (Local!LocalSpec => Local!LocalImplementsStateStore)
<1> SUFFICES ASSUME LocalCallsAreOps, PatchesAreAlone, NothingFallsBack, ~RemovalsFail
             PROVE  Local!LocalSpec => Local!LocalImplementsStateStore
  OBVIOUS
<1>1. Local!LocalInit => LocalInv /\ Local!LocalAbs!AbsInit
  BY LocalInitSim
<1>2. LocalInv /\ [Local!LocalNext]_(Local!localVars) => LocalInv' /\ [Local!LocalAbs!AbsNext]_(Local!LocalAbs!absVars)
  BY LocalStepSim DEF Local!localVars
<1> QED BY <1>1, <1>2, PTL DEF Local!LocalSpec, Local!LocalImplementsStateStore, Local!LocalAbs!AbsSpec

=============================================================================
