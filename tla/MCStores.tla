------------------------------ MODULE MCStores ------------------------------
(***************************************************************************)
(* The two state stores on small instances.  A deployment has one of them, *)
(* which backend says; the other one's state does not change.              *)
(***************************************************************************)
EXTENDS GitStore, TLC

CONSTANTS c1, c2, c3, p1, p2, d1, d2, n1, n2, e1, e2,
          Backends,     \* the adapters to explore
          SharedEdits,  \* TRUE: two goroutines of the local store edit one document
          RawPuts,      \* TRUE: a raw document is Put next to another
          RemovalsFail  \* TRUE: the local PutTree may leave a file it should remove

VARIABLES files, local, backend

MCProcOf == c1 :> p1 @@ c2 :> p1 @@ c3 :> p2

\* One list that everybody edits, one that an Instance's directory has next
\* to its manifest, and the rewriting of that directory (the local store also
\* deletes it).
Shared == <<d1, n1>>
Tree(a, b) == [kind |-> "tree", dir |-> d2, docs |-> (n1 :> a @@ n2 :> b)]
Add(f, e) == [kind |-> "add", file |-> f, entry |-> e]
Remove(f, e) == [kind |-> "remove", file |-> f, entry |-> e]
DeleteDir == [kind |-> "delete", dir |-> d2]
RawPut == [kind |-> "put", file |-> <<d2, n2>>, doc |-> {e2}, raw |-> TRUE]
MCCallsOf ==
  c1 :> {Add(Shared, e1)}
    @@ c2 :> {Tree({e1}, NoDoc)}
    @@ c3 :> {IF RawPuts THEN RawPut ELSE Remove(Shared, e2)}

MCInitTree == Shared :> {e2} @@ <<d1, n2>> :> NoDoc @@ <<d2, n1>> :> {} @@ <<d2, n2>> :> {}

LocalCallsOf ==
  c1 :> {Add(Shared, e1), Remove(Shared, e1)}
    @@ c2 :> ({Add(<<d1, n2>>, e1)}
               \cup IF SharedEdits THEN {Add(Shared, e1)} ELSE {})
    @@ c3 :> {Tree({e1}, NoDoc), Add(<<d2, n1>>, e2), DeleteDir, RawPut}

\* A list that only the compose project has so far.
MCFallback == [f \in Dirs \X Names |-> IF f = <<d1, n2>> THEN {e2} ELSE NoDoc]

Local == INSTANCE LocalStore WITH CallsOf <- LocalCallsOf, Fallback <- MCFallback

MCInit == GitInit /\ Local!LocalInit /\ backend \in Backends
MCNext == \/ backend = "git" /\ GitNext /\ UNCHANGED <<files, local, backend>>
          \/ backend = "local" /\ Local!LocalNext /\ UNCHANGED <<gitVars, backend>>
MCSpec == MCInit /\ [][MCNext]_<<gitVars, files, local, backend>>

\* The local adapter implements ports.StateStore (LocalStore).
LocalImplementsStateStore == Local!LocalImplementsStateStore
=============================================================================
