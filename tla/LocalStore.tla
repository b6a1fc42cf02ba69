----------------------------- MODULE LocalStore -----------------------------
(***************************************************************************)
(* The local adapter of ports.StateStore, which a Docker deployment uses:  *)
(* files under one root, behind one mutex, and directories to fall back on *)
(* (the compose projects) for a file that the root does not have.          *)
(*                                                                         *)
(* Get, Put, Delete and PutTree each hold the mutex from start to end, so  *)
(* that nobody sees one of them halfway, unless it ends there: they write  *)
(* file by file, and an error or the end of the process leaves what was    *)
(* done so far.  Patch holds nothing from start to end: it is a Get, the   *)
(* caller's mutate, and a Put, and another call can come in between.  So   *)
(* the store is indivisible only for documents that one goroutine at a     *)
(* time edits: CallsOf says which operations each goroutine calls.  The    *)
(* revisions that a write records in SQLite are left out, nothing reads    *)
(* them.                                                                   *)
(***************************************************************************)
CONSTANTS Clients, Dirs, Names, Entries, NoDoc,
          CallsOf,     \* CallsOf[c], the operations goroutine c calls
          InitTree,    \* the files at first
          Fallback,    \* Fallback[f], the document a fallback directory has, or NoDoc
          RemovalsFail \* TRUE: PutTree may fail to remove a file, which it ignores

VARIABLES files,    \* files[<<d, n>>], the document in a file of the root, or NoDoc
          local     \* local[c], the store call that goroutine c is in

localVars == <<files, local>>

\* The document at f, as Get finds it.
Found(f) == IF files[f] # NoDoc THEN files[f] ELSE Fallback[f]

\* The abstract store is what Get finds.
LocalAbs == INSTANCE StateStore WITH
  Calls <- UNION {CallsOf[c] : c \in Clients},
  Cuttable <- {"add", "remove", "put", "delete", "tree"},
  store <- [f \in DOMAIN files |-> Found(f)],
  call  <- [c \in Clients |->
              CASE local[c].pc = "idle" -> [pc |-> "idle"]
                [] local[c].pc = "done" -> local[c]
                [] OTHER                -> [pc |-> "pending", op |-> local[c].op]]

LocalDone(op, answer) == [pc |-> "done", op |-> op, answer |-> answer]

\* A document that does not exist starts empty.
Body(doc) == IF doc = NoDoc THEN {} ELSE doc

LocalInit == files = InitTree /\ local = [c \in Clients |-> [pc |-> "idle"]]

LocalInvoke(c) == \E op \in CallsOf[c] :
  /\ local[c].pc = "idle"
  /\ local' = [local EXCEPT ![c] = [pc |-> "called", op |-> op]]
  /\ UNCHANGED files

(***************************************************************************)
(* What a write comes to: the files as they should be, or what is there    *)
(* when it stops halfway.  A file that was being written then holds a part *)
(* of its new document, os.WriteFile empties it first.                     *)
(***************************************************************************)
Ended(c, answer) == local' = [local EXCEPT ![c] = LocalDone(@.op, answer)]

Removed(goal) == {f \in DOMAIN files : goal[f] = NoDoc /\ files[f] # NoDoc}
Rewritten(goal) == {f \in DOMAIN files : goal[f] # NoDoc /\ goal[f] # files[f]}

HalfDone(goal, done) == [f \in DOMAIN files |-> IF f \in done THEN goal[f] ELSE files[f]]
Stops(goal, done) ==
  \/ files' = HalfDone(goal, done)
  \/ \E f \in Rewritten(goal) \ done : \E part \in SUBSET goal[f] :
       files' = [HalfDone(goal, done) EXCEPT ![f] = part]

\* The files are written first, then those removed that should not be there.
StopsAnywhere(goal) == \E done \in SUBSET (Removed(goal) \cup Rewritten(goal)) :
  /\ done \cap Removed(goal) # {} => Rewritten(goal) \subseteq done
  /\ Stops(goal, done)

(* Mutant: the document is written as if it were the whole directory. *)
PutAsDirectory(f, doc) == [g \in DOMAIN files |-> IF g = f THEN doc ELSE IF g[1] = f[1] THEN NoDoc ELSE files[g]]

\* What the operations are to make of the files.  The directory of a file
\* that is Put is created.
Written(f, doc) == [files EXCEPT ![f] = doc]
Without(dir) == [f \in DOMAIN files |-> IF f[1] = dir THEN NoDoc ELSE files[f]]
Replaced(dir, docs) == [f \in DOMAIN files |-> IF f[1] = dir THEN docs[f[2]] ELSE files[f]]

\* Patch, its first half: Get and mutate.  The file may not be readable.
PatchGet(c) ==
  LET op == local[c].op
      old == Body(Found(op.file))
      new == IF op.kind = "add" THEN old \cup {op.entry} ELSE old \ {op.entry}
  IN /\ local[c].pc = "called" /\ op.kind \in {"add", "remove"}
     /\ \/ Ended(c, "error")
        \/ new = old /\ Ended(c, "unchanged")
        \/ new # old /\ local' = [local EXCEPT ![c] = [pc |-> "read", op |-> op, doc |-> new]]
     /\ UNCHANGED files

\* Patch, its second half: the Put of what mutate made.
PatchPut(c) ==
  LET goal == Written(local[c].op.file, local[c].doc)
  IN /\ local[c].pc = "read"
     /\ \/ files' = goal /\ Ended(c, "changed")
        \/ StopsAnywhere(goal) /\ Ended(c, "error")

Put(c) ==
  LET op == local[c].op
      goal == Written(op.file, op.doc)
  IN /\ local[c].pc = "called" /\ op.kind = "put"
     /\ \/ files' = goal /\ Ended(c, IF Found(op.file) = op.doc THEN "unchanged" ELSE "changed")
        \/ StopsAnywhere(goal) /\ Ended(c, "error")

\* Delete: the file or the whole directory goes.
Delete(c) ==
  LET goal == Without(local[c].op.dir)
  IN /\ local[c].pc = "called" /\ local[c].op.kind = "delete"
     /\ \/ files' = goal /\ Ended(c, IF goal = files THEN "unchanged" ELSE "changed")
        \/ StopsAnywhere(goal) /\ Ended(c, "error")

\* PutTree: the documents are written, and an error ends it; then the files it
\* was not given are removed, and an error is ignored.
PutTree(c) ==
  LET goal == Replaced(local[c].op.dir, local[c].op.docs)
  IN /\ local[c].pc = "called" /\ local[c].op.kind = "tree"
     /\ \/ \E stay \in SUBSET Removed(goal) :
             /\ stay # {} => RemovalsFail
             /\ files' = HalfDone(goal, DOMAIN files \ stay)
             /\ Ended(c, IF goal = files THEN "unchanged" ELSE "changed")
        \/ /\ \E done \in SUBSET Rewritten(goal) : Stops(goal, done)
           /\ Ended(c, "error")

\* The files that the write of goroutine c is about to make.
Goal(c) ==
  LET op == local[c].op
  IN CASE local[c].pc = "read" -> Written(op.file, local[c].doc)
       [] op.kind = "put"      -> Written(op.file, op.doc)
       [] op.kind = "delete"   -> Without(op.dir)
       [] op.kind = "tree"     -> Replaced(op.dir, op.docs)

\* A goroutine that writes, now or when it gets the mutex.
Writing(c) == \/ local[c].pc = "read"
              \/ local[c].pc = "called" /\ local[c].op.kind \in {"put", "delete", "tree"}

\* The process dies, in the middle of a write or between two.
LocalCrash ==
  /\ local' = [c \in Clients |-> [pc |-> "idle"]]
  /\ \/ UNCHANGED files
     \/ \E c \in Clients : Writing(c) /\ StopsAnywhere(Goal(c))

LocalReturn(c) ==
  /\ local[c].pc = "done"
  /\ local' = [local EXCEPT ![c] = [pc |-> "idle"]]
  /\ UNCHANGED files

LocalNext ==
  \/ LocalCrash
  \/ \E c \in Clients : \/ LocalInvoke(c) \/ PatchGet(c) \/ PatchPut(c) \/ Put(c)
                        \/ Delete(c) \/ PutTree(c) \/ LocalReturn(c)

LocalSpec == LocalInit /\ [][LocalNext]_localVars

\* As long as no document is edited by two goroutines at once, nothing a
\* fallback directory holds is deleted and no removal fails unnoticed, the
\* local adapter keeps the contract too: every Patch, Put, Delete and PutTree
\* takes effect in one step on what the store holds at that moment; one that
\* fails or dies halfway, and PutTree and Delete can leave a directory half
\* written or half gone, touches nothing but what it was about, and a failure
\* is never answered as a success.
LocalImplementsStateStore == LocalAbs!AbsSpec
=============================================================================
