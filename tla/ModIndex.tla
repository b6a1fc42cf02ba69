------------------------------ MODULE ModIndex ------------------------------
(***************************************************************************)
(* The Thunderstore package index: one list of every package with its      *)
(* newest version, held in memory by the client and kept in the database   *)
(* so that a restart has one at once.  Two goroutines build it: WarmLoop,  *)
(* every indexTTL, and an update check, through RefreshIndexIfStale, when  *)
(* the list is older than indexFreshFor.  Nothing keeps the two apart.     *)
(*                                                                         *)
(* The list's content is abstracted to the time at which Thunderstore      *)
(* answered, and to whether the whole of the answer arrived: the decoder's *)
(* loop ends without an error when the body breaks off between two         *)
(* packages.                                                               *)
(***************************************************************************)
EXTENDS Integers

CONSTANTS
  IndexTTL,      \* how old the loop lets the list grow
  FreshFor,      \* how old an update check takes it
  FetchTimeout,  \* the client's limit on a request with its body
  RetryPause,    \* the loop's shortest pause
  MaxClock,      \* bound: how long the system is watched
  MaxRestarts,   \* bound: restarts of the process
  NoIndex

ASSUME ModIndexAssumption ==
  /\ {IndexTTL, FreshFor, FetchTimeout, RetryPause, MaxClock} \subseteq Nat \ {0}
  /\ MaxRestarts \in Nat

Warmers == {"loop", "check"}

VARIABLES
  time, restarts,
  index,  \* the client's list, [of, at, whole]: answered at, indexedAt
  stored, \* the mod_index table with mod_index_fetched_at, written by one transaction
  warm,   \* what each of the two goroutines is doing
  answer  \* the last answer of an update check: the list it read, when the check
          \* began, and whether the refresh it asked for failed

indexVars == <<time, restarts, index, stored, warm, answer>>

Asleep(w) == [pc |-> "idle", since |-> 0, list |-> NoIndex, failed |-> FALSE, wake |-> w]
NoAnswer == [list |-> NoIndex, asked |-> 0, failed |-> FALSE]

Age(l) == time - l.at
Stale(limit) == index = NoIndex \/ Age(index) >= limit

(***************************************************************************)
(* Who starts a build.                                                     *)
(***************************************************************************)
\* WarmLoop wakes: it builds a list when there is none or it is too old.
LoopWakes ==
  /\ warm["loop"].pc = "idle" /\ time >= warm["loop"].wake
  /\ IF Stale(IndexTTL) THEN warm' = [warm EXCEPT !["loop"].pc = "request"]
     ELSE warm' = [warm EXCEPT !["loop"].wake = index.at + IndexTTL]
  /\ UNCHANGED <<time, restarts, index, stored, answer>>

\* A check of the mods of a Valheim world begins.
AskIndex ==
  /\ warm["check"].pc = "idle" /\ answer = NoAnswer
  /\ warm' = [warm EXCEPT !["check"].pc = IF Stale(FreshFor) THEN "request" ELSE "answer",
                          !["check"].wake = time, !["check"].failed = FALSE]
  /\ UNCHANGED <<time, restarts, index, stored, answer>>

(***************************************************************************)
(* warm: the request, the list, OnRefresh.                                 *)
(***************************************************************************)
\* Where the goroutine goes when warm returns.
AfterWarm(w, failed) ==
  IF w = "check" THEN [warm[w] EXCEPT !.pc = "answer", !.failed = failed]
  ELSE Asleep(LET due == index'.at + IndexTTL
            IN IF index' # NoIndex /\ due > time + RetryPause THEN due ELSE time + RetryPause)

Request(w) ==
  /\ warm[w].pc = "request"
  /\ warm' = [warm EXCEPT ![w].pc = "body", ![w].since = time,
                          ![w].list = [of |-> time, at |-> 0, whole |-> TRUE]]
  /\ UNCHANGED <<time, restarts, index, stored, answer>>

(* Mutant: the list is dated by the deadline of its request. *)
SetIndexUnstamped(w) ==
  /\ warm[w].pc = "body" /\ time <= warm[w].since + FetchTimeout
  /\ \E whole \in BOOLEAN :
       index' = [warm[w].list EXCEPT !.at = time + FetchTimeout, !.whole = whole]
  /\ warm' = [warm EXCEPT ![w].pc = "save", ![w].list = index']
  /\ UNCHANGED <<time, restarts, stored, answer>>

\* The body has arrived, or has broken off where the decoder does not see it.
\* indexedAt and the time handed to SaveModIndex are read together.
SetIndex(w) ==
  /\ warm[w].pc = "body" /\ time <= warm[w].since + FetchTimeout
  /\ \E whole \in BOOLEAN :
       index' = [warm[w].list EXCEPT !.at = time, !.whole = whole]
  /\ warm' = [warm EXCEPT ![w].pc = "save", ![w].list = index']
  /\ UNCHANGED <<time, restarts, stored, answer>>

\* No connection, a status that is not 200, an element that does not decode,
\* or the timeout.
WarmFails(w) ==
  /\ warm[w].pc \in {"request", "body"}
  /\ UNCHANGED index
  /\ warm' = [warm EXCEPT ![w] = AfterWarm(w, TRUE)]
  /\ UNCHANGED <<time, restarts, stored, answer>>

(* Mutant: the table keeps the time the transaction commits. *)
SaveModIndexNow(w) ==
  /\ warm[w].pc = "save"
  /\ UNCHANGED index
  /\ stored' \in {[warm[w].list EXCEPT !.at = time], stored}
  /\ warm' = [warm EXCEPT ![w] = AfterWarm(w, FALSE)]
  /\ UNCHANGED <<time, restarts, answer>>

\* SaveModIndex replaces the rows and the time in one transaction, or fails
\* with a warning.
SaveModIndex(w) ==
  /\ warm[w].pc = "save"
  /\ UNCHANGED index
  /\ stored' \in {warm[w].list, stored}
  /\ warm' = [warm EXCEPT ![w] = AfterWarm(w, FALSE)]
  /\ UNCHANGED <<time, restarts, answer>>

(* Mutant: a check does not wait for the list it asked for. *)
LatestVersionAtOnce ==
  /\ warm["check"].pc \in {"request", "body", "answer"} /\ index # NoIndex
  /\ answer' = [list |-> index, asked |-> warm["check"].wake, failed |-> warm["check"].failed]
  /\ warm' = [warm EXCEPT !["check"] = Asleep(0)]
  /\ UNCHANGED <<time, restarts, index, stored>>

\* The check answers from the list, if there is one,
\* whether or not its refresh succeeded.
LatestVersionFromIndex ==
  /\ warm["check"].pc = "answer"
  /\ answer' = [list |-> index, asked |-> warm["check"].wake, failed |-> warm["check"].failed]
  /\ warm' = [warm EXCEPT !["check"] = Asleep(0)]
  /\ UNCHANGED <<time, restarts, index, stored>>

(***************************************************************************)
(* The process and time.                                                   *)
(***************************************************************************)
\* The rows and their time, as one transaction left them.
LoadModIndex == stored

\* buildThunderstore: the client starts from the stored list, or from none when
\* it cannot be read.
Restart ==
  /\ restarts < MaxRestarts
  /\ restarts' = restarts + 1
  /\ index' \in {LoadModIndex, NoIndex}
  /\ warm' = [w \in Warmers |-> Asleep(0)]
  /\ answer' = NoAnswer
  /\ UNCHANGED <<time, stored>>

NextCheck ==
  /\ answer # NoAnswer /\ answer' = NoAnswer
  /\ UNCHANGED <<time, restarts, index, stored, warm>>

Tick ==
  /\ time < MaxClock /\ time' = time + 1
  /\ UNCHANGED <<restarts, index, stored, warm, answer>>

IndexInit ==
  /\ time = 0 /\ restarts = 0 /\ index = NoIndex /\ stored = NoIndex
  /\ warm = [w \in Warmers |-> Asleep(0)] /\ answer = NoAnswer

IndexNext ==
  \/ LoopWakes \/ AskIndex \/ LatestVersionFromIndex \/ NextCheck \/ Restart \/ Tick
  \/ \E w \in Warmers : Request(w) \/ SetIndex(w) \/ WarmFails(w) \/ SaveModIndex(w)

IndexSpec == IndexInit /\ [][IndexNext]_indexVars

(***************************************************************************)
(* Properties.                                                             *)
(***************************************************************************)
IndexLists == {NoIndex} \cup [of : Nat, at : Nat, whole : BOOLEAN]

\* The type of the state; a list is never dated before Thunderstore answered
\* nor after the present.
IndexTypeOK ==
  /\ index \in IndexLists /\ stored \in IndexLists /\ answer.list \in IndexLists
  /\ \A l \in {index, stored} \ {NoIndex} : l.of <= l.at /\ l.at <= time
  /\ \A w \in Warmers : warm[w].pc \in {"idle", "request", "body", "save", "answer"}

\* The age that a list claims is its age: indexedAt is at most the length of a
\* request later than the answer, in memory and in the table, whichever of the
\* two goroutines wrote last and however long the transaction took.
AgeIsHonest ==
  \A l \in {index, stored} \ {NoIndex} : l.at - l.of <= FetchTimeout

\* An update check whose refresh did not fail reads versions that were current
\* at most indexFreshFor and one request before it began, even if the loop's
\* build replaced the list in between, and after any restart.
CheckedAgainstFresh ==
  answer.list # NoIndex /\ ~answer.failed =>
    answer.list.of >= answer.asked - FreshFor - FetchTimeout

\* A list is as old as it says, and a check reads one that is fresh
\* (BuildIndex, LatestVersionFromIndex, SaveModIndex).
IndexIsHonest == AgeIsHonest /\ CheckedAgainstFresh

\* Not so: a check whose refresh failed falls back to looking every package
\* up, as its warning says (scenario StaleIndex).
FallsBackToLookups ==
  answer.failed /\ answer.list # NoIndex => answer.list.of >= answer.asked - FreshFor - FetchTimeout

\* Not so: a list that is installed is a complete one (scenario BrokenOffIndex).
InstalledIsWhole == index # NoIndex => index.whole

\* Not so: the list never goes back to an earlier state of the catalogue
\* (scenario CrossedBuilds).
NeverOlder == [][index # NoIndex /\ index' # NoIndex => index'.of >= index.of]_indexVars
=============================================================================
