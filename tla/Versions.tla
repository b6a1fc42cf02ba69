------------------------------ MODULE Versions ------------------------------
(***************************************************************************)
(* The two orders on versions: domain/mod.go VersionNewer, by which the    *)
(* update check decides what to offer and a batch of updates which pin of  *)
(* two wins, and domain/pack.go CompareMCVersions, by which a pack's       *)
(* Minecraft version is chosen.                                            *)
(*                                                                         *)
(* A segment is its leading number and what follows it (0: nothing; a      *)
(* letter is its rank).  A pre-release is the sequence of its characters.  *)
(* Spaces and the prefix v are stripped by the code and left out here.     *)
(***************************************************************************)
EXTENDS Integers, Sequences, FiniteSetsExt, SequencesExt

CONSTANTS
  Published,    \* versions a provider may call the latest
  GameVersions, \* names a provider lists for a pack
  MaxUpdates,   \* bound: checks that offer an update
  Unpinned,
  Base          \* the reference: more than any number of a plain version

Segments == Seq(Nat \X Nat)

ASSUME VersionsAssumption ==
  /\ \A v \in Published : v.core \in Segments /\ v.pre \in Seq(Nat) /\ v.build \in Segments
  /\ \A v \in GameVersions : v.parts \in Seq(Nat)
  /\ Unpinned \notin Published \cup GameVersions
  /\ Base \in Nat \ {0} /\ MaxUpdates \in Nat

VARIABLES
  pinned,    \* the version in the mod list
  past,      \* the versions it had before, oldest first
  listed     \* the names a provider gave for a pack

versionVars == <<pinned, past, listed>>

(* Mutant: a segment that is missing counts as older than any number. *)
parseMissingAsOlder(segments, i) == IF i \in DOMAIN segments THEN segments[i] ELSE <<-1, 0>>

\* Segment i as a number and its remainder; one that is missing is zero.
parseLeadingInt(segments, i) == IF i \in DOMAIN segments THEN segments[i] ELSE <<0, 0>>

\* The first segment that decides: numbers differ, or both have remainders and
\* those differ.
Deciding(a, b) ==
  {i \in DOMAIN a \cup DOMAIN b :
     LET x == parseLeadingInt(a, i)
         y == parseLeadingInt(b, i)
     IN x[1] # y[1] \/ (x[2] # y[2] /\ x[2] # 0 /\ y[2] # 0)}

(* Mutant: a later letter decides whatever the numbers are. *)
AheadByLetter(a, b) ==
  LET i == Min(Deciding(a, b))
      x == parseLeadingInt(a, i)
      y == parseLeadingInt(b, i)
  IN x[1] > y[1] \/ x[2] > y[2]

\* Which of the two it is for.
Ahead(a, b) ==
  LET i == Min(Deciding(a, b))
      x == parseLeadingInt(a, i)
      y == parseLeadingInt(b, i)
  IN x[1] > y[1] \/ (x[1] = y[1] /\ x[2] > y[2])

\* Go's order on strings, of characters or of segments with a letter.
TextAfter(a, b) ==
  LET D == {i \in DOMAIN a \cap DOMAIN b : a[i] # b[i]}
      x == a[Min(D)]
      y == b[Min(D)]
  IN IF D = {} THEN Len(a) > Len(b) ELSE x[1] > y[1] \/ (x[1] = y[1] /\ x[2] > y[2])
Characters(s) == [i \in DOMAIN s |-> <<s[i], 0>>]

\* Build metadata decides only when both have some.
NewerBuild(a, b) ==
  /\ a # b /\ a # <<>> /\ b # <<>>
  /\ IF Deciding(a, b) # {} THEN Ahead(a, b) ELSE TextAfter(a, b)

\* VersionNewer: cores, then pre-releases as text, then build metadata.
VersionNewer(a, b) ==
  /\ a # b /\ a # Unpinned
  /\ b # Unpinned =>
       IF Deciding(a.core, b.core) # {} THEN Ahead(a.core, b.core)
       ELSE IF ~(a.pre = <<>> <=> b.pre = <<>>) THEN a.pre = <<>>
       ELSE IF a.pre # b.pre THEN TextAfter(Characters(a.pre), Characters(b.pre))
       ELSE NewerBuild(a.build, b.build)

\* The check offers latest when it is newer, and the offer is taken.
Offer(latest) ==
  /\ Len(past) < MaxUpdates /\ VersionNewer(latest, pinned)
  /\ pinned' = latest /\ past' = Append(past, pinned)
  /\ UNCHANGED listed

(* Mutant: the last pin wins. *)
LastPin(pins) == Last(pins)

\* Of the pins that the updates of a batch bring for a mod, the first one is
\* kept until a newer one comes.
NewerPin(cur, v) == IF cur = Unpinned \/ VersionNewer(v, cur) THEN v ELSE cur
Pinning(pins) ==
  LET cur[i \in 0 .. Len(pins)] == IF i = 0 THEN Unpinned ELSE NewerPin(cur[i - 1], pins[i]) IN cur
NewestPin(pins) == Pinning(pins)[Len(pins)]

-----------------------------------------------------------------------------
(* Minecraft's versions: parts is what mcVersionParts reads of the name,   *)
(* which is nothing for a loader's name.                                   *)

Part(parts, i) == IF i \in DOMAIN parts THEN parts[i] ELSE 0

\* CompareMCVersions, as the sign of the difference.
CompareMCVersions(a, b) ==
  LET D == {i \in DOMAIN a.parts \cup DOMAIN b.parts : Part(a.parts, i) # Part(b.parts, i)}
  IN IF D = {} THEN 0 ELSE IF Part(a.parts, Min(D)) < Part(b.parts, Min(D)) THEN -1 ELSE 1

IsMCVersion(v) == v.parts # <<>>

Exceeds(v, best) == best = Unpinned \/ CompareMCVersions(v, best) > 0

(* Mutant: the names of loaders are not left out. *)
HigherOfAll(best, v) == IF Exceeds(v, best) THEN v ELSE best

Higher(best, v) == IF IsMCVersion(v) /\ Exceeds(v, best) THEN v ELSE best

Choosing(names) ==
  LET best[i \in 0 .. Len(names)] == IF i = 0 THEN Unpinned ELSE Higher(best[i - 1], names[i]) IN best
HighestMCVersion(names) == Choosing(names)[Len(names)]

\* A provider describes a pack.
PackFacts(names) == listed = <<>> /\ past = <<>> /\ listed' = names /\ UNCHANGED <<pinned, past>>

VersionsInit == pinned \in Published \cup {Unpinned} /\ past = <<>> /\ listed = <<>>
VersionsNext ==
  \/ listed = <<>> /\ \E v \in Published : Offer(v)
  \/ pinned = Unpinned /\ \E a, b, c \in GameVersions : PackFacts(<<a, b, c>>)

VersionsSpec == VersionsInit /\ [][VersionsNext]_versionVars

-----------------------------------------------------------------------------
(* Properties.                                                             *)

\* The reference: plain versions are numbers in a large base, a release comes
\* after its pre-releases.
Plain(v) == v.build = <<>> /\ Len(v.pre) <= 1 /\ \A i \in DOMAIN v.core : v.core[i][2] = 0
Digit(v, i) == IF i \in DOMAIN v.core THEN v.core[i][1] ELSE 0
Rank(v) == ((Digit(v, 1) * Base + Digit(v, 2)) * Base + Digit(v, 3)) * Base
           + (IF v.pre = <<>> THEN Base - 1 ELSE v.pre[1])

\* VersionNewer is the order of releases: among versions of numbers, with or
\* without a one-character pre-release, of whatever length, it agrees with the
\* reference.
NewerIsTheOrder ==
  past = <<>> /\ pinned # Unpinned /\ Plain(pinned) =>
    \A v \in Published : Plain(v) => (VersionNewer(v, pinned) <=> Rank(v) > Rank(pinned))

\* Of two versions at most one is newer, letters and metadata included: no two
\* checks in a row can offer a world an update and then the way back.
NoWayStraightBack ==
  past # <<>> => ~VersionNewer(past[Len(past)], pinned)

\* A batch of plain pins ends at the same version in whatever order the updates
\* are resolved.
BatchOrderIsIrrelevant ==
  past = <<>> /\ pinned # Unpinned /\ Plain(pinned) =>
    \A v, w \in {x \in Published : Plain(x)} :
      Rank(NewestPin(<<v, pinned, w>>)) = Rank(NewestPin(<<w, v, pinned>>))

\* HighestMCVersion: of any list of names the result is a version of the list
\* that no other exceeds, and nothing only when the list has no version.
HighestIsHighest ==
  LET best == HighestMCVersion(listed)
      versions == {listed[i] : i \in {j \in DOMAIN listed : IsMCVersion(listed[j])}}
  IN IF versions = {} THEN best = Unpinned
     ELSE best \in versions /\ \A v \in versions : CompareMCVersions(v, best) <= 0

\* The two comparisons order the versions that the catalogues publish, so that
\* no update, batch of updates or default version is decided the wrong way
\* round (VersionNewer, CompareMCVersions).
VersionsAreOrdered ==
  NewerIsTheOrder /\ NoWayStraightBack /\ BatchOrderIsIrrelevant /\ HighestIsHighest

\* Not so: a world that takes every offer never comes back to a version it
\* left (scenario LetteredVersions).
NeverComesBack == \A i \in DOMAIN past : past[i] # pinned

\* Not so: numbers in a pre-release count as numbers, as in SemVer
\* (scenario TenthCandidate).
PrereleasesAreNumbers ==
  pinned # Unpinned => \A v \in Published :
    v.core = pinned.core /\ Len(v.pre) > Len(pinned.pre) /\ pinned.pre # <<>> /\ v.pre[1] = pinned.pre[1]
      => ~VersionNewer(pinned, v)
=============================================================================
