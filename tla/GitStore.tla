------------------------------ MODULE GitStore ------------------------------
(***************************************************************************)
(* gitops.Committer behind the git adapter of ports.StateStore: several    *)
(* agrelha processes (a rolling update, a second deployment) that share    *)
(* one branch.                                                             *)
(*                                                                         *)
(* A process has one working clone and one mutex.  A write synchronises    *)
(* the clone with the branch (fetch, hard reset, clean), edits the files,  *)
(* commits and pushes, all under the mutex; what the mutex does not cover  *)
(* is the branch itself, which another process may move between the fetch  *)
(* and the push.  The server then refuses the push, because it is not a    *)
(* fast-forward, and the clone is reset to where it was.  A read uses the  *)
(* clone as it is while it is younger than ReadTTL.                        *)
(***************************************************************************)
EXTENDS Naturals, Sequences

CONSTANTS Procs,      \* agrelha processes
          Clients,    \* goroutines that call the store
          ProcOf,     \* ProcOf[c], the process of goroutine c
          Dirs, Names, Entries, NoDoc,
          CallsOf,    \* CallsOf[c], the operations goroutine c calls
          InitTree,   \* what the branch holds at first
          MaxCommits, \* bound on the commits of the branch
          MaxCrashes  \* bound on the process deaths of a behaviour

ASSUME GitStoreAssumption ==
  /\ ProcOf \in [Clients -> Procs]
  /\ NoDoc \notin Clients /\ \A doc \in SUBSET Entries : doc # NoDoc
  /\ MaxCommits \in Nat \ {0} /\ MaxCrashes \in Nat

VARIABLES branch,  \* the trees of the remote branch's commits, newest last
          clone,   \* clone[p], the working clone of process p
          owner,   \* owner[p], the goroutine that holds p's mutex, or NoDoc
          git,     \* git[c], the store call that goroutine c is in
          got,     \* what the Get that has just happened read, or NoDoc
          due,     \* due[p], the oldest commit a read of p may still show
          crashes

gitVars == <<branch, clone, owner, git, got, due, crashes>>

Newest == Len(branch)

\* What the caller of a store call can tell of it.
Shown(g) == CASE g.pc = "idle" -> [pc |-> "idle"]
              [] g.pc = "done" -> g
              [] OTHER         -> [pc |-> "pending", op |-> g.op]

\* The abstract store: the tree of the branch's newest commit.
Abs == INSTANCE StateStore WITH
         Calls <- UNION {CallsOf[c] : c \in Clients},
         Cuttable <- {},
         store <- branch[Newest],
         call  <- [c \in Clients |-> Shown(git[c])]

\* What the goroutines call are operations of the store, on such a tree.
ASSUME CallsAssumption ==
  /\ InitTree \in Abs!Trees
  /\ \A c \in Clients : CallsOf[c] \subseteq Abs!Ops

Idle == [pc |-> "idle"]
Done(op, answer) == [pc |-> "done", op |-> op, answer |-> answer]

(***************************************************************************)
(* What the three writing functions of the Committer make of a tree.  A    *)
(* document has to exist to be edited in place.                            *)
(***************************************************************************)
InPlace(op) == op.kind \in {"add", "remove"} \/ (op.kind = "put" /\ ~op.raw)

Missing(op, tree) == InPlace(op) /\ tree[op.file] = NoDoc

PatchDocument(op, tree) ==
  [tree EXCEPT ![op.file] = IF op.kind = "add" THEN @ \cup {op.entry} ELSE @ \ {op.entry}]

ReplaceData(op, tree) == [tree EXCEPT ![op.file] = op.doc]

\* Every file of the directory that is not in files is removed.
WriteDirectory(dir, files, tree) ==
  [f \in DOMAIN tree |->
     IF f[1] # dir THEN tree[f]
     ELSE IF f[2] \in DOMAIN files THEN files[f[2]] ELSE NoDoc]

DeleteDirectory(dir, tree) ==
  [f \in DOMAIN tree |-> IF f[1] = dir THEN NoDoc ELSE tree[f]]

\* The adapter: which function serves which operation.
Edited(op, tree) ==
  CASE op.kind \in {"add", "remove"}    -> PatchDocument(op, tree)
    [] op.kind = "put" /\ ~op.raw       -> ReplaceData(op, tree)
    [] op.kind = "put" /\ op.raw        -> WriteDirectory(op.file[1], [n \in {op.file[2]} |-> op.doc], tree)
    [] op.kind = "delete"               -> DeleteDirectory(op.dir, tree)
    [] op.kind = "tree"                 -> WriteDirectory(op.dir,
                                             [n \in {m \in Names : op.docs[m] # NoDoc} |-> op.docs[n]], tree)

(***************************************************************************)
(* The working clone: open when the process has it open, at the commit it  *)
(* was last synchronised with, tree its files, fresh while it is younger   *)
(* than ReadTTL.                                                           *)
(***************************************************************************)
NoClone == [open |-> FALSE, at |-> 0, tree |-> NoDoc, fresh |-> FALSE]

\* syncRemoteLocked, when the remote answers: clone, or fetch and hard reset.
Synced == [open |-> TRUE, at |-> Newest, tree |-> branch[Newest], fresh |-> TRUE]

(* Mutant: a clone found on disk is trusted like one just synchronised. *)
OpenedFresh(cl) == IF cl.at = 0 THEN cl ELSE [cl EXCEPT !.open = TRUE, !.fresh = TRUE]

\* syncRemoteLocked, when it does not: a clone left on disk is opened.
Opened(cl) == IF cl.at = 0 THEN cl ELSE [cl EXCEPT !.open = TRUE]

\* The hard reset to the commit before a push that failed.
ResetTo(cl) == [cl EXCEPT !.tree = branch[cl.at]]

(***************************************************************************)
(* The operations.                                                         *)
(***************************************************************************)
NoRead == got' = NoDoc

GitInit ==
  /\ branch = <<InitTree>>
  /\ clone = [p \in Procs |-> NoClone]
  /\ owner = [p \in Procs |-> NoDoc]
  /\ git = [c \in Clients |-> Idle]
  /\ got = NoDoc
  /\ due = [p \in Procs |-> 1]
  /\ crashes = 0

GitInvoke(c) == \E op \in CallsOf[c] :
  /\ git[c] = Idle
  /\ git' = [git EXCEPT ![c] = [pc |-> "called", op |-> op]]
  /\ NoRead /\ UNCHANGED <<branch, clone, owner, due, crashes>>

(* Mutant: a write that changes nothing returns without unlocking. *)
LeakyStage(c) ==
  LET p == ProcOf[c]
  IN /\ git[c].pc = "called" /\ owner[p] = NoDoc
     /\ clone' = [clone EXCEPT ![p] = Synced]
     /\ git' = [git EXCEPT ![c] = Done(@.op, "unchanged")]
     /\ owner' = [owner EXCEPT ![p] = c]
     /\ NoRead /\ UNCHANGED <<branch, due, crashes>>

\* From Lock to the commit.  The remote may not answer; the edit may be
\* impossible, or change nothing; a file may not be writable.
Stage(c) ==
  LET p == ProcOf[c]  op == git[c].op
      new == Edited(op, branch[Newest])
  IN /\ git[c].pc = "called" /\ owner[p] = NoDoc
     /\ NoRead /\ UNCHANGED <<branch, due, crashes>>
     /\ \/ /\ git' = [git EXCEPT ![c] = Done(op, "error")]
           /\ clone' = [clone EXCEPT ![p] = Opened(@)]
           /\ UNCHANGED owner
        \/ /\ clone' = [clone EXCEPT ![p] = Synced]
           /\ git' = [git EXCEPT ![c] =
                Done(op, IF ~Missing(op, branch[Newest]) /\ new = branch[Newest]
                           THEN "unchanged" ELSE "error")]
           /\ UNCHANGED owner
        \/ /\ ~Missing(op, branch[Newest]) /\ new # branch[Newest]
           /\ Newest < MaxCommits
           /\ clone' = [clone EXCEPT ![p] = [Synced EXCEPT !.tree = new]]
           /\ git' = [git EXCEPT ![c].pc = "committed"]
           /\ owner' = [owner EXCEPT ![p] = c]

(* Mutant: the push is forced onto whatever the branch holds. *)
ForcedPush(c) ==
  LET p == ProcOf[c]
  IN /\ git[c].pc = "committed"
     /\ branch' = Append(branch, clone[p].tree)
     /\ clone' = [clone EXCEPT ![p].at = Newest + 1]
     /\ git' = [git EXCEPT ![c] = Done(@.op, "changed")]
     /\ due' = [due EXCEPT ![p] = Newest + 1]
     /\ owner' = [owner EXCEPT ![p] = NoDoc]
     /\ NoRead /\ UNCHANGED crashes

\* The push, from the commit to Unlock.  The branch takes it only on top of
\* the commit it was made on; the answer to a push that was taken can get
\* lost, and then the clone is reset as if it had not been.
Push(c) ==
  LET p == ProcOf[c]
      ahead == clone[p].at = Newest
  IN /\ git[c].pc = "committed"
     /\ owner' = [owner EXCEPT ![p] = NoDoc]
     /\ NoRead /\ UNCHANGED crashes
     /\ \/ /\ ahead
           /\ branch' = Append(branch, clone[p].tree)
           /\ clone' = [clone EXCEPT ![p].at = Newest + 1, ![p].fresh = TRUE]
           /\ git' = [git EXCEPT ![c] = Done(@.op, "changed")]
           /\ due' = [due EXCEPT ![p] = Newest + 1]
        \/ /\ branch' \in {branch} \cup (IF ahead THEN {Append(branch, clone[p].tree)} ELSE {})
           /\ clone' = [clone EXCEPT ![p] = ResetTo(@)]
           /\ git' = [git EXCEPT ![c] = Done(@.op, "error")]
           /\ UNCHANGED due

GitReturn(c) ==
  /\ git[c].pc = "done"
  /\ git' = [git EXCEPT ![c] = Idle]
  /\ NoRead /\ UNCHANGED <<branch, clone, owner, due, crashes>>

\* Get: the clone as it is, or synchronised first when it is not open or not
\* fresh.  (A Get whose synchronisation fails answers with an error.)
ReadFile(c) ==
  LET p == ProcOf[c]
      cl == IF clone[p].open /\ clone[p].fresh THEN clone[p] ELSE Synced
  IN /\ git[c] = Idle /\ owner[p] = NoDoc
     /\ clone' = [clone EXCEPT ![p] = cl]
     /\ got' = [at |-> cl.at, tree |-> cl.tree, due |-> due[p]]
     /\ due' = [due EXCEPT ![p] = cl.at]
     /\ UNCHANGED <<branch, owner, git, crashes>>

\* A Get while the remote does not answer: it reads nothing, but a clone
\* found on disk is now open.
ReadFails(c) ==
  /\ git[c] = Idle /\ owner[ProcOf[c]] = NoDoc
  /\ ~(clone[ProcOf[c]].open /\ clone[ProcOf[c]].fresh)
  /\ clone' = [clone EXCEPT ![ProcOf[c]] = Opened(@)]
  /\ NoRead /\ UNCHANGED <<branch, owner, git, due, crashes>>

\* ReadTTL after the last synchronisation: from here on a read has to show
\* at least what the branch holds now.
Expire(p) ==
  /\ clone[p].fresh
  /\ clone' = [clone EXCEPT ![p].fresh = FALSE]
  /\ due' = [due EXCEPT ![p] = Newest]
  /\ NoRead /\ UNCHANGED <<branch, owner, git, crashes>>

\* The process dies and is started again.  GIT_WORKING_DIR keeps the clone on
\* disk, with whatever was committed in it and not pushed; a clone in a
\* temporary directory is lost.
GitCrash(p) == \E kept \in BOOLEAN :
  /\ crashes < MaxCrashes
  /\ crashes' = crashes + 1
  /\ clone' = [clone EXCEPT ![p] = IF kept THEN [@ EXCEPT !.open = FALSE, !.fresh = FALSE] ELSE NoClone]
  /\ owner' = [owner EXCEPT ![p] = NoDoc]
  /\ git' = [c \in Clients |-> IF ProcOf[c] = p THEN Idle ELSE git[c]]
  /\ NoRead /\ UNCHANGED <<branch, due>>

GitNext == \/ \E c \in Clients : GitInvoke(c) \/ Stage(c) \/ Push(c) \/ GitReturn(c)
                                  \/ ReadFile(c) \/ ReadFails(c)
           \/ \E p \in Procs : Expire(p) \/ GitCrash(p)

GitSpec == GitInit /\ [][GitNext]_gitVars

(***************************************************************************)
(* Properties                                                              *)
(***************************************************************************)

GitCalls == {Idle} \cup [pc : {"called", "committed"}, op : Abs!Ops]
              \cup [pc : {"done"}, op : Abs!Ops, answer : {"changed", "unchanged", "error"}]

Clones == [open : BOOLEAN, at : Nat, tree : Abs!Trees \cup {NoDoc}, fresh : BOOLEAN]

\* Every variable holds what its declaration says; a clone is of a commit that
\* the branch has.
GitTypeOK ==
  /\ branch \in Seq(Abs!Trees) /\ Newest \in 1..MaxCommits
  /\ clone \in [Procs -> Clones]
  /\ \A p \in Procs : clone[p].at \in 0..Newest /\ (clone[p].at # 0 => clone[p].tree \in Abs!Trees)
  /\ owner \in [Procs -> Clients \cup {NoDoc}]
  /\ git \in [Clients -> GitCalls]
  /\ due \in [Procs -> 1..Newest]
  /\ crashes \in 0..MaxCrashes

\* A goroutine is in an operation that it calls.
CallsAreInvoked == \A c \in Clients : git[c] # Idle => git[c].op \in CallsOf[c]

\* The mutex of a process is held from a commit to its push, and by whoever
\* made the commit.
MutexHeldByCommitter ==
  /\ \A c \in Clients : git[c].pc = "committed" => owner[ProcOf[c]] = c
  /\ \A p \in Procs : owner[p] # NoDoc => git[owner[p]].pc = "committed" /\ ProcOf[owner[p]] = p

\* A commit that is not pushed yet is the called operation on top of the commit
\* that the clone was synchronised with, and changes something.
CommitIsOnTop ==
  \A c \in Clients : git[c].pc = "committed" =>
    LET cl == clone[ProcOf[c]]
    IN /\ cl.at \in 1..Newest /\ cl.at < MaxCommits
       /\ ~Missing(git[c].op, branch[cl.at])
       /\ cl.tree = Edited(git[c].op, branch[cl.at])
       /\ cl.tree # branch[cl.at]

\* A clone that a read may use holds exactly the commit it was last synchronised
\* with, unless somebody is about to push, and one that is recent enough.
FreshCloneIsCurrent ==
  \A p \in Procs : clone[p].fresh =>
    /\ clone[p].at \in due[p]..Newest
    /\ owner[p] = NoDoc => clone[p].tree = branch[clone[p].at]

\* Whatever the interleaving of fetches, pushes, refused pushes, lost answers
\* and process deaths: every write of the Committer happens to the branch in
\* one indivisible step on top of what the branch held (no writer undoes
\* another's change), "changed" is answered only to a write that is on the
\* branch, and "unchanged" only when there was nothing to write.
GitImplementsStateStore == Abs!AbsSpec

\* A Get shows a tree that really was a commit of the branch (never a commit
\* that was not pushed, left in the clone by a refused push or by a process
\* that died), at least as new as what this process was told it wrote, as
\* what it has shown before, and as what the branch held ReadTTL ago.
ReadsAreCurrent ==
  got # NoDoc => got.tree = branch[got.at] /\ got.at >= got.due

\* The clones are what the next write and the next read take them for
\* (withRepo, Get), between the calls and in what a Get has returned.
GitInv == /\ GitTypeOK /\ MutexHeldByCommitter /\ CommitIsOnTop
          /\ FreshCloneIsCurrent /\ ReadsAreCurrent

\* A raw document has its directory to itself.
RawAlone == \A c \in Clients : \A op \in CallsOf[c] :
              op.kind = "put" /\ op.raw => Names = {op.file[2]}

=============================================================================
