----------------------------- MODULE StateStore -----------------------------
(***************************************************************************)
(* What ports.StateStore promises its callers: a tree of documents, and    *)
(* operations that each read and write it in one indivisible step.         *)
(*                                                                         *)
(* A call may fail, and a call whose process dies never answers.  Either   *)
(* has done nothing or everything (the answer of a write that took effect  *)
(* can be lost), or, if it is of a kind that can be cut short, a part of   *)
(* what it writes and nothing else.  GitStore, which cuts nothing short,   *)
(* and LocalStore, which does, are shown to implement this specification.  *)
(*                                                                         *)
(* A document is the set of its entries (mod list lines, admin ids, config *)
(* keys), which is what a Patch adds to or removes from.                   *)
(***************************************************************************)

CONSTANTS Clients,  \* the goroutines that call the store
          Dirs,     \* directories: one per Instance, and one of shared lists
          Names,    \* file names in a directory
          Entries,  \* the entries a document is made of
          NoDoc,    \* stands for a file that does not exist
          Calls,    \* the operations that callers may invoke
          Cuttable  \* the kinds of operation that can stop halfway

VARIABLES store,    \* store[<<d, n>>], a document or NoDoc
          call      \* call[c], the call that goroutine c is in

absVars == <<store, call>>

Files == Dirs \X Names
Docs  == SUBSET Entries
Trees == [Files -> Docs \cup {NoDoc}]

(***************************************************************************)
(* The operations.  Patch is "add" or "remove" (the two shapes that every  *)
(* mutate function of the callers has), PutTree is "tree", Delete is       *)
(* "delete" and Put is "put", of a document with a data map or of raw      *)
(* bytes.                                                                  *)
(***************************************************************************)
Ops == [kind : {"add", "remove"}, file : Files, entry : Entries]
         \cup [kind : {"put"}, file : Files, doc : Docs, raw : BOOLEAN]
         \cup [kind : {"delete"}, dir : Dirs]
         \cup [kind : {"tree"}, dir : Dirs, docs : [Names -> Docs \cup {NoDoc}]]

Body(doc) == IF doc = NoDoc THEN {} ELSE doc

\* The tree after op.
Effect(op, tree) ==
  CASE op.kind = "add"    -> [tree EXCEPT ![op.file] = Body(@) \cup {op.entry}]
    [] op.kind = "remove" -> IF op.entry \in Body(tree[op.file])
                               THEN [tree EXCEPT ![op.file] = Body(@) \ {op.entry}]
                               ELSE tree
    [] op.kind = "put"    -> [tree EXCEPT ![op.file] = op.doc]
    [] op.kind = "delete" -> [f \in Files |-> IF f[1] = op.dir THEN NoDoc ELSE tree[f]]
    [] op.kind = "tree"   -> [f \in Files |-> IF f[1] = op.dir THEN op.docs[f[2]] ELSE tree[f]]

\* The files that op is about, and the trees it can leave behind when it
\* stops halfway: each of those files is as it was, as it should be, or holds
\* a part of what it should.
About(op, f) == IF op.kind \in {"delete", "tree"} THEN f[1] = op.dir ELSE f = op.file
Halves(op, tree) ==
  {half \in Trees : \A f \in Files :
     \/ half[f] = tree[f]
     \/ /\ About(op, f)
        /\ \/ half[f] = Effect(op, tree)[f]
           \/ NoDoc \notin {half[f], Effect(op, tree)[f]} /\ half[f] \subseteq Effect(op, tree)[f]}

Answer(changed) == IF changed THEN "changed" ELSE "unchanged"

Idle == [pc |-> "idle"]

CallStates == {Idle} \cup [pc : {"pending"}, op : Ops]
                \cup [pc : {"done"}, op : Ops, answer : {"changed", "unchanged", "error"}]

StateStoreTypeOK == store \in Trees /\ call \in [Clients -> CallStates]

AbsInit == store \in Trees /\ call = [c \in Clients |-> Idle]

AbsInvoke(c) == \E op \in Calls :
  /\ call[c] = Idle
  /\ call' = [call EXCEPT ![c] = [pc |-> "pending", op |-> op]]
  /\ UNCHANGED store

\* The one step in which a call takes effect; the answer may get lost.
AbsApply(c) == \E lost \in BOOLEAN :
  /\ call[c].pc = "pending"
  /\ store' = Effect(call[c].op, store)
  /\ call' = [call EXCEPT ![c] =
       [pc |-> "done", op |-> @.op,
        answer |-> IF lost THEN "error" ELSE Answer(store' # store)]]

AbsFail(c) ==
  /\ call[c].pc = "pending"
  /\ call' = [call EXCEPT ![c] = [pc |-> "done", op |-> @.op, answer |-> "error"]]
  /\ UNCHANGED store

\* A call stops halfway, and says so.
AbsTear(c) ==
  /\ call[c].pc = "pending" /\ call[c].op.kind \in Cuttable
  /\ store' \in Halves(call[c].op, store)
  /\ call' = [call EXCEPT ![c] = [pc |-> "done", op |-> @.op, answer |-> "error"]]

AbsReturn(c) ==
  /\ call[c].pc = "done"
  /\ call' = [call EXCEPT ![c] = Idle]
  /\ UNCHANGED store

\* The process of the goroutines cs dies; a write that was under way may
\* have taken effect before or not at all.
AbsCrash == \E cs \in SUBSET Clients :
  /\ call' = [c \in Clients |-> IF c \in cs THEN Idle ELSE call[c]]
  /\ UNCHANGED store

\* It dies in the middle of a write that can be cut short.
AbsTornCrash == \E cs \in SUBSET Clients : \E c \in cs :
  /\ call[c].pc = "pending" /\ call[c].op.kind \in Cuttable
  /\ store' \in Halves(call[c].op, store)
  /\ call' = [b \in Clients |-> IF b \in cs THEN Idle ELSE call[b]]

AbsNext == \/ AbsCrash \/ AbsTornCrash
           \/ \E c \in Clients : AbsInvoke(c) \/ AbsApply(c) \/ AbsFail(c) \/ AbsTear(c) \/ AbsReturn(c)

AbsSpec == AbsInit /\ [][AbsNext]_absVars
=============================================================================
