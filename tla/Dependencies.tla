---------------------------- MODULE Dependencies ----------------------------
(***************************************************************************)
(* Resolving a mod into the mods it needs, as the three content clients do *)
(* it: thunderstore.ResolveTree, curseforge.Resolve and modrinth's         *)
(* ResolveRequiredDependencies with ResolveTreeForInstance.                *)
(*                                                                         *)
(* A resolution is a sequence of HTTP requests.  Between two of them the   *)
(* provider may publish a build, and every one of them may fail: the       *)
(* Thunderstore and CurseForge clients then give up, the Modrinth client   *)
(* retries a transient fault and passes over a request that failed.  The   *)
(* request's context may end at any point: the first two clients then give *)
(* an error, the Modrinth client does only while it traverses.             *)
(*                                                                         *)
(* A build is a number, the newest of a mod's builds being the largest.    *)
(* Which Minecraft version it is for is abstracted to how it relates to    *)
(* the Instance's: the exact one ("1.20.1"), its base ("1.20") or another; *)
(* the Instance's version is a point release, and the loader is the same.  *)
(***************************************************************************)
EXTENDS Integers, Sequences, FiniteSetsExt, SequencesExt

CONSTANTS
  Projects,        \* the projects of a provider
  Root,        \* the one that is being installed
  LoaderPack,  \* a package called bepinexpack*, which every Valheim server has
  MaxBuild,    \* how many builds a project may have
  MaxTransient,\* transient faults (429, 502, 503, 504, transport) in one resolution
  Breaking,    \* providers of which a request may fail for good (404, 410, 500)
  Moving       \* providers that may publish a build while a tree is resolved

ASSUME DependenciesAssumption ==
  /\ IsFiniteSet(Projects) /\ Root \in Projects /\ LoaderPack \in Projects \ {Root}
  /\ MaxBuild \in Nat \ {0} /\ MaxTransient \in Nat

Builds == 1..MaxBuild
maxRetries == 4

VARIABLES
  shelf,  \* what the provider publishes: for each project its newest build (0: none),
          \* and for each build what it requires and the version it is for; for
          \* Thunderstore also the version that a project's dependency strings name;
          \* for CurseForge the projects whose authors forbid distribution
  job     \* the resolution

depVars == <<shelf, job>>

(***************************************************************************)
(* What the providers answer.                                              *)
(***************************************************************************)
\* Whether a query is answered with a build that is for version f; the last
\* one, for no version that there is, never is.
AnswersFor(q, f) ==
  \/ q \in {"exact", "base"} /\ f = q
  \/ q = "all" /\ f # "other"
  \/ q = "any"

\* The builds that a query for the versions of project m is answered with.
queryVersions(q, m) == {b \in 1..shelf.top[m] : AnswersFor(q, shelf.fits[m][b])}

Needs(m, b) == IF b = 0 THEN {} ELSE shelf.requires[m][b]

(***************************************************************************)
(* Thunderstore.  The root's newest version, then the page of each version *)
(* in the order of the queue.  A dependency string pins a version, and the *)
(* first version that a package is met at is the one that is listed.       *)
(***************************************************************************)
Fail == job' = [job EXCEPT !.at = "failed"]

\* A request of the Thunderstore client fails: what it asks for does not exist,
\* or anything else went wrong.  It is not repeated.
TSFails(exists) == ~exists \/ "thunderstore" \in Breaking

(* Mutant: a package that was visited is visited again. *)
TSVisitAgain ==
  /\ job.at = "loop" /\ job.queue # <<>> /\ job.provider = "thunderstore"
  /\ LET r == Head(job.queue)
     IN /\ r.mod # LoaderPack /\ r.build <= shelf.top[r.mod] /\ Len(job.out) < 6
        /\ job' = [job EXCEPT !.queue = Tail(@) \o [i \in 1..Cardinality(Needs(r.mod, r.build)) |->
                                          [mod |-> SetToSeq(Needs(r.mod, r.build))[i],
                                           build |-> shelf.pins[r.mod]]],
                              !.out = Append(@, r)]
  /\ UNCHANGED shelf

TSRoot ==
  /\ job.at = "root" /\ job.provider = "thunderstore"
  /\ \/ shelf.top[Root] # 0 /\ job' = [job EXCEPT !.queue = <<[mod |-> Root, build |-> shelf.top[Root]]>>,
                                                  !.at = "loop"]
     \/ TSFails(shelf.top[Root] # 0) /\ Fail
  /\ UNCHANGED shelf

TSVisit ==
  /\ job.at = "loop" /\ job.queue # <<>> /\ job.provider = "thunderstore"
  /\ LET r == Head(job.queue)
         page == SetToSeq(Needs(r.mod, r.build) \ (job.visited \cup {r.mod}))
     IN IF r.mod \in job.visited \cup {LoaderPack}
        THEN job' = [job EXCEPT !.queue = Tail(@), !.visited = @ \cup {r.mod}]
        ELSE \/ /\ r.build <= shelf.top[r.mod]
                /\ job' = [job EXCEPT !.queue = Tail(@) \o [i \in 1..Len(page) |->
                                                  [mod |-> page[i], build |-> shelf.pins[r.mod]]],
                                      !.visited = @ \cup {r.mod},
                                      !.out = Append(@, r)]
             \/ TSFails(r.build <= shelf.top[r.mod]) /\ Fail
  /\ UNCHANGED shelf

(***************************************************************************)
(* CurseForge.  A dependency names a project and no file, so every file is *)
(* the newest one for the world.  No such file, or an author who forbids   *)
(* distribution, fails the resolution, for a dependency as for the root.   *)
(***************************************************************************)
CFFails(exists) == ~exists \/ "curseforge" \in Breaking

\* What GetMod answers for a project, unless its author forbids distribution.
GetMod(m) == m \notin shelf.restricted

(* Mutant: one past the newest file. *)
latestFilePast(m) == IF queryVersions("exact", m) = {} THEN 0 ELSE Max(queryVersions("exact", m)) + 1

\* latestFile: the newest of the files for exactly this version and loader.
latestFile(m) == LET files == queryVersions("exact", m) IN IF files = {} THEN 0 ELSE Max(files)

CFRoot ==
  /\ job.at = "root" /\ job.provider = "curseforge"
  /\ \/ GetMod(Root)
        /\ job' = [job EXCEPT !.queue = <<[mod |-> Root, build |-> 0]>>, !.at = "loop"]
     \/ CFFails(GetMod(Root)) /\ Fail
  /\ UNCHANGED shelf

\* The file of the head of the queue.
CFFile ==
  /\ job.at = "loop" /\ job.queue # <<>> /\ job.provider = "curseforge"
  /\ LET m == Head(job.queue).mod
     IN IF m \in job.visited
        THEN job' = [job EXCEPT !.queue = Tail(@)]
        ELSE \/ /\ latestFile(m) # 0
                /\ job' = [job EXCEPT !.queue[1].build = latestFile(m),
                                      !.visited = @ \cup {m},
                                      !.at = "slug"]
             \/ CFFails(latestFile(m) # 0) /\ Fail
  /\ UNCHANGED shelf

(* Mutant: the dependency's own restriction is not looked at. *)
CFSlugAnyway ==
  /\ job.at = "slug"
  /\ LET r == Head(job.queue)
         deps == SetToSeq(Needs(r.mod, r.build) \ job.visited)
     IN job' = [job EXCEPT !.queue = Tail(@) \o [i \in 1..Len(deps) |-> [mod |-> deps[i], build |-> 0]],
                           !.out = Append(@, r),
                           !.at = "loop"]
  /\ UNCHANGED shelf

\* GetMod for a dependency's slug (the root's is known), then its entry and
\* the dependencies of the file that was read.
CFSlug ==
  /\ job.at = "slug"
  /\ LET r == Head(job.queue)
         deps == SetToSeq(Needs(r.mod, r.build) \ job.visited)
     IN \/ /\ GetMod(r.mod)
           /\ job' = [job EXCEPT !.queue = Tail(@) \o [i \in 1..Len(deps) |-> [mod |-> deps[i], build |-> 0]],
                                 !.out = Append(@, r),
                                 !.at = "loop"]
        \/ r.mod # Root /\ CFFails(GetMod(r.mod)) /\ Fail
  /\ UNCHANGED shelf

(***************************************************************************)
(* Modrinth.  The traversal is depth first; a frame of the stack holds the *)
(* dependencies of one project's newest build that are still to be looked  *)
(* at.  GetProjectVersions asks up to three queries until one has builds,  *)
(* and the traversal, when it has none, asks it again without a version    *)
(* (its last query then matches nothing).  When the traversal has ended,   *)
(* ResolveTreeForInstance looks each listed project up once more.          *)
(***************************************************************************)
Queries(phase) ==
  IF phase = "list" THEN <<"exact", "base", "all">> ELSE <<"exact", "base", "all", "any", "again">>

\* The request that follows: the next dependency of the innermost frame that
\* has one, the listing of what was found, or the end.
Continue(j) ==
  LET open == {i \in DOMAIN j.stack : j.stack[i] # <<>>}
  IN CASE open # {} -> [j EXCEPT !.stack = SubSeq(@, 1, Max(open)), !.at = "project", !.attempt = 0]
       [] open = {} /\ Len(j.out) < Len(j.found) ->
            [j EXCEPT !.stack = <<>>, !.at = "list", !.query = 1, !.attempt = 0,
                      !.mod = j.found[Len(j.out) + 1]]
       [] OTHER -> [j EXCEPT !.stack = <<>>, !.at = "done"]

\* A query was answered with builds S, or it failed (S empty as well: the
\* code falls back in both cases).
Versions(S) ==
  LET newest == Max(S)
      phase == job.at
      deps == SetToSeq(Needs(job.mod, newest))
  IN CASE S # {} /\ phase = "traverse" ->
            Continue([job EXCEPT !.stack = Append(@, deps), !.read[job.mod] = newest])
       [] S # {} /\ phase = "list" ->
            Continue([job EXCEPT !.out = Append(@, [mod |-> job.mod, build |-> newest])])
       [] S = {} /\ job.query < Len(Queries(phase)) ->
            [job EXCEPT !.query = @ + 1, !.attempt = 0]
       [] S = {} /\ job.query = Len(Queries(phase)) /\ phase = "traverse" ->
            Continue(job)
       [] OTHER ->
            Continue([job EXCEPT !.out = Append(@, [mod |-> job.mod, build |-> 0])])

MRRoot ==
  /\ job.at = "root" /\ job.provider = "modrinth"
  /\ job' = [job EXCEPT !.at = "traverse", !.mod = Root, !.visited = {Root}, !.query = 1]
  /\ UNCHANGED shelf

MRVersions ==
  /\ job.at \in {"traverse", "list"} /\ ~job.ended
  /\ \/ job' = Versions(queryVersions(Queries(job.at)[job.query], job.mod))
     \/ "modrinth" \in Breaking /\ job' = Versions({})
  /\ UNCHANGED shelf

\* GetProject of a required dependency, which the listing appends when the
\* traversal has not met it; a failed request passes over the dependency.
MRProject ==
  /\ job.at = "project" /\ ~job.ended
  /\ LET i == Len(job.stack)
         m == Head(job.stack[i])
         passed == [job EXCEPT !.stack[i] = Tail(@)]
     IN \/ job' = IF m \in job.visited THEN Continue(passed)
                  ELSE [passed EXCEPT !.found = Append(@, m), !.visited = @ \cup {m},
                                      !.at = "traverse", !.mod = m, !.query = 1, !.attempt = 0]
        \/ "modrinth" \in Breaking /\ job' = Continue(passed)
  /\ UNCHANGED shelf

(* Mutant: one attempt fewer than getJSON makes. *)
MRTransientGivesUp ==
  /\ job.at \in {"traverse", "list", "project"} /\ job.faults < MaxTransient /\ ~job.ended
  /\ LET j == [job EXCEPT !.faults = @ + 1]
         i == Len(job.stack)
     IN job' = CASE job.attempt < maxRetries - 2 -> [j EXCEPT !.attempt = @ + 1]
                 [] job.attempt >= maxRetries - 2 /\ job.at = "project" ->
                      Continue([j EXCEPT !.stack[i] = Tail(@)])
                 [] OTHER -> [Versions({}) EXCEPT !.faults = @ + 1]
  /\ UNCHANGED shelf

\* getJSON meets a transient fault: it asks again, up to maxRetries times in
\* all, and then reports the request as failed.
MRTransient ==
  /\ job.at \in {"traverse", "list", "project"} /\ job.faults < MaxTransient /\ ~job.ended
  /\ LET j == [job EXCEPT !.faults = @ + 1]
         i == Len(job.stack)
     IN job' = CASE job.attempt < maxRetries - 1 -> [j EXCEPT !.attempt = @ + 1]
                 [] job.attempt = maxRetries - 1 /\ job.at = "project" ->
                      Continue([j EXCEPT !.stack[i] = Tail(@)])
                 [] OTHER -> [Versions({}) EXCEPT !.faults = @ + 1]
  /\ UNCHANGED shelf

(***************************************************************************)
(* The end of a queue, and what happens around a resolution.               *)
(***************************************************************************)
QueueDone ==
  /\ job.at = "loop" /\ job.queue = <<>>
  /\ job' = [job EXCEPT !.at = "done"]
  /\ UNCHANGED shelf

\* The request's context ends.  The client returns its error, except that the
\* Modrinth client looks at the context only where it asks for versions in the
\* traversal: a lookup of a dependency that fails is passed over, and so is one
\* of the listing.
Cancel ==
  /\ job.at \notin {"done", "failed"} /\ ~job.ended
  /\ IF job.at \in {"project", "list"} THEN job' = [job EXCEPT !.ended = TRUE] ELSE Fail
  /\ UNCHANGED shelf

\* With an ended context every request of the Modrinth client fails at once: the
\* dependencies left are dropped and the listing names no builds.  The traversal
\* notices only when the context ended between an answer and its next project.
MREnded ==
  /\ job.ended
  /\ \/ /\ job.at = "project"
        /\ LET i == Len(job.stack)
           IN job' = Continue([job EXCEPT !.stack[i] = Tail(@)])
     \/ job.at = "project" /\ Fail
     \/ /\ job.at = "list"
        /\ job' = Continue([job EXCEPT !.out = Append(@, [mod |-> job.mod, build |-> 0])])
  /\ UNCHANGED shelf

PublishBuild ==
  /\ job.provider \in Moving /\ job.at \notin {"done", "failed"}
  /\ \E m \in Projects : /\ shelf.top[m] < MaxBuild
                     /\ shelf' = [shelf EXCEPT !.top[m] = @ + 1]
  /\ UNCHANGED job

NewJob(p) ==
  [provider |-> p, at |-> "root", queue |-> <<>>, visited |-> {}, out |-> <<>>,
   stack |-> <<>>, found |-> <<>>, mod |-> Root, query |-> 1, attempt |-> 0, faults |-> 0,
   read |-> [m \in Projects |-> 0], ended |-> FALSE]

\* The shelves and the providers are the instance's.
DependenciesInit(Shelves) ==
  /\ \E p \in {"thunderstore", "curseforge", "modrinth"} :
        job = NewJob(p) /\ shelf \in Shelves[p]

DependenciesNext ==
  \/ TSRoot \/ TSVisit \/ CFRoot \/ CFFile \/ CFSlug \/ QueueDone
  \/ MRRoot \/ MRVersions \/ MRProject \/ MRTransient
  \/ Cancel \/ MREnded \/ PublishBuild

DependenciesSpec(Shelves) == DependenciesInit(Shelves) /\ [][DependenciesNext]_depVars

(***************************************************************************)
(* Properties.                                                             *)
(***************************************************************************)
\* The type of the resolution and of the shelf.
DependenciesTypeOK ==
  /\ shelf.top \in [Projects -> 0..MaxBuild] /\ shelf.restricted \subseteq Projects
  /\ shelf.requires \in [Projects -> [Builds -> SUBSET Projects]]
  /\ job.at \in {"root", "loop", "slug", "traverse", "project", "list", "done", "failed"}
  /\ job.visited \subseteq Projects /\ job.attempt \in 0..(maxRetries - 1)
  /\ job.out \in Seq([mod : Projects, build : 0..MaxBuild])
  /\ \A r \in Range(job.queue) : r.mod \in Projects /\ r.build \in 0..MaxBuild
  /\ job.query \in 1..5 /\ job.read \in [Projects -> 0..MaxBuild]

Listed == {e.mod : e \in Range(job.out)} \cup IF job.provider = "modrinth" THEN {Root} ELSE {}

\* What an entry of the result needs: what its build requires, and for an
\* entry without a build what the traversal read.
EntryNeeds(e) == Needs(e.mod, IF e.build # 0 THEN e.build ELSE job.read[e.mod])

\* A list that is returned without an error is closed: whatever the root and
\* the listed builds require is listed too (the loader pack aside).  On
\* Modrinth this rests on the retries of getJSON: fewer than maxRetries faults
\* in a row never lose a dependency.  It says nothing of a resolution whose
\* context ended: Modrinth's then is cut short and returned without an error.
ResolvedIsClosed ==
  job.at = "done" /\ ~job.ended =>
    /\ \A e \in Range(job.out) : EntryNeeds(e) \subseteq Listed \cup {LoaderPack}
    /\ job.provider = "modrinth" => Needs(Root, job.read[Root]) \subseteq Listed

\* Nothing is listed twice, whatever the cycles and diamonds of the graph, and
\* nothing that no earlier entry requires: installing a mod adds no other.
ListedOnceAndNeeded ==
  \A i \in DOMAIN job.out :
    LET earlier == {job.out[k] : k \in 1..(i - 1)}
    IN /\ \A e \in earlier : e.mod # job.out[i].mod
       /\ \/ job.out[i].mod = Root /\ job.provider # "modrinth"
          \/ \E e \in earlier : job.out[i].mod \in Needs(e.mod, e.build) \cup Needs(e.mod, job.read[e.mod])
          \/ job.provider = "modrinth" /\ job.out[i].mod \in Needs(Root, job.read[Root])

\* Every file in a CurseForge result is one for the Instance's version whose
\* author lets it be distributed: the server can download and load it.
CurseForgeFilesCanRun ==
  job.provider = "curseforge" =>
    \A e \in Range(job.out) : /\ shelf.fits[e.mod][e.build] = "exact"
                              /\ e.mod \notin shelf.restricted

\* What a resolution returns is complete (unless its context ended), minimal and
\* can be installed (ResolveTree, Resolve, ResolveRequiredDependencies).
ResolutionIsRight == ResolvedIsClosed /\ ListedOnceAndNeeded /\ CurseForgeFilesCanRun

\* Not so: a list returned without an error is closed also when the request's
\* context ended before it was complete (scenario EndedRequest).
EndedIsClosed ==
  job.at = "done" => \A e \in Range(job.out) : EntryNeeds(e) \subseteq Listed \cup {LoaderPack}

\* Not so: the first version a Thunderstore package is met at is at least the
\* one that every listed dependent names (scenario EarlierPin).
PinsAreMet ==
  job.at = "done" /\ job.provider = "thunderstore" =>
    \A e, f \in Range(job.out) : f.mod \in Needs(e.mod, e.build) /\ f.mod # Root => f.build >= shelf.pins[e.mod]
=============================================================================
