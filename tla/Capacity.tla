------------------------------ MODULE Capacity ------------------------------
(***************************************************************************)
(* How large a world is and what a game may use: the environment's limits, *)
(* the settings and tiers the database keeps, the sizes on the worlds'     *)
(* rows and in their manifests, and the boot that brings an older database *)
(* up to date and seeds what is missing.                                   *)
(*                                                                         *)
(* The three limits of a game (memory, worlds, running worlds) are treated *)
(* alike and are one number here; a size is its memory request and limit.  *)
(* Each game has one world.  The process may stop at any step.             *)
(***************************************************************************)
EXTENDS Integers, Sequences

CONSTANTS
  Profiles,       \* the registered games, in order
  Legacy,         \* Minecraft and Valheim: the games with a historical size table
  TierKeys,       \* the tiers, in order
  Builtin,        \* what a tier means when the row has no size
  Sizes,          \* what a form may submit as a size
  Limits,         \* what the environment or a form may say of a limit
  DefaultLimit,   \* what a limit that is not positive means
  Ceilings,       \* what a form may submit as a ceiling; 0 is none
  Editors,        \* requests that may be changing a world at the same time
  MaxBoots,       \* bound: starts of the process
  MaxEdits,       \* bound: requests served
  NoRow

Games == {Profiles[i] : i \in DOMAIN Profiles}
Tiers == {TierKeys[i] : i \in DOMAIN TierKeys}
Zero == [request |-> 0, limit |-> 0]

Validate(r) == r.request > 0 /\ r.limit >= r.request

ASSUME CapacityAssumption ==
  /\ Profiles \in Seq(Games) /\ TierKeys \in Seq(Tiers) /\ TierKeys # <<>>
  /\ Sizes \cup {Builtin[t] : t \in Tiers} \subseteq [request : Int, limit : Int]
  /\ Legacy \subseteq Games /\ NoRow \notin Games /\ Limits \cup Ceilings \subseteq Int /\ DefaultLimit \in Nat \ {0}
  /\ Tiers = DOMAIN Builtin /\ \A t \in Tiers : Validate(Builtin[t])
  /\ MaxBoots \in Nat /\ MaxEdits \in Nat

VARIABLES
  env,       \* the environment's limits in this process
  settings,  \* game_settings: limit and ceiling, or no row
  tiers,     \* the tier catalogue
  gate,      \* the limit each game's manager was built with
  rows,      \* the worlds' rows: tier, size, whether they have a world id
  rendered,  \* the size in the world's manifests
  orphaned,  \* the incidents that carry no world's id
  boot,      \* how far the process has come
  edit,      \* what each request in flight has read and rendered, to be saved
  torn,      \* worlds whose last edit reported an error after rendering
  within,    \* whether the world fitted the ceiling when it was created
  boots, edited

capVars == <<env, settings, tiers, gate, rows, rendered, orphaned, boot, edit, torn, within,
             boots, edited>>

Up == boot.pc = "up"
Down == [pc |-> "down", at |-> 1, put |-> 0]
NoEdit == [game |-> NoRow, row |-> NoRow]
AtLeast(n) == IF n <= 0 THEN DefaultLimit ELSE n
Fits(r, ceiling) == ceiling > 0 => r.limit <= ceiling

\* The historical table of a game, or the sizes it ships with.
BuiltinResources(t) == Builtin[t]

\* A row without a size has the one its tier was born with.
EffectiveResources(row) == IF row.size # Zero THEN row.size ELSE BuiltinResources(row.tier)

DriftsFromTier(row) == row.size # Zero /\ row.size # BuiltinResources(row.tier)

\* The tiers a new catalogue starts with, in order.
DefaultTiersFor == [i \in DOMAIN TierKeys |-> [key |-> TierKeys[i], size |-> BuiltinResources(TierKeys[i])]]

(***************************************************************************)
(* The store's two tables: each put is one statement that inserts or       *)
(* overwrites the row of its key.                                          *)
(***************************************************************************)
ListTiers(g) == {t \in Tiers : tiers[g][t] # NoRow}
PutTier(g, t, r) == tiers' = [tiers EXCEPT ![g][t] = r]
GetGameSettings(g) == settings[g]
PutGameSettings(g, s) == settings' = [settings EXCEPT ![g] = s]

\* What is not stored is zero: no limit and no ceiling.
Settings(g) == IF GetGameSettings(g) = NoRow THEN [limit |-> 0, ceiling |-> 0] ELSE GetGameSettings(g)

Allows(g, r) == Fits(r, Settings(g).ceiling)

\* CheckResources: administrators are not bound by the ceiling.
CheckResources(g, r, isAdmin) == Validate(r) /\ (isAdmin \/ Allows(g, r))

\* The limit that /overview shows for a game.
Shown(g) == AtLeast(Settings(g).limit)

(***************************************************************************)
(* Boot: store.Open fills in what older rows lack, capacity.Seed writes    *)
(* the first settings and tiers of each game, the managers are built.      *)
(***************************************************************************)
AtGame(pc) == boot.pc = pc /\ boot.at <= Len(Profiles)
ThisGame == Profiles[boot.at]
NextGame == [boot EXCEPT !.at = @ + 1, !.put = 0]
Stage(from, to) ==
  /\ boot.pc = from /\ boot.at > Len(Profiles)
  /\ boot' = [pc |-> to, at |-> 1, put |-> 0]

Open ==
  /\ boot.pc = "down" /\ boots < MaxBoots
  /\ boots' = boots + 1
  /\ boot' = [Down EXCEPT !.pc = "backfill"]
  /\ UNCHANGED <<env, settings, tiers, gate, rows, rendered, orphaned, edit, torn, within, edited>>

(* Mutant: the backfill takes the catalogue's sizes. *)
BackfillResourcesFromTiers ==
  /\ AtGame("backfill")
  /\ rows' = [rows EXCEPT ![ThisGame] =
       IF @ # NoRow /\ @.size.request = 0 /\ ThisGame \in Legacy /\ tiers[ThisGame][@.tier] # NoRow
       THEN [@ EXCEPT !.size = tiers[ThisGame][rows[ThisGame].tier]] ELSE @]
  /\ boot' = NextGame
  /\ UNCHANGED <<env, settings, tiers, gate, rendered, orphaned, edit, torn, within, boots, edited>>

\* A world of a game with a historical table gets its tier's size on its row.
BackfillResources ==
  /\ AtGame("backfill")
  /\ rows' = [rows EXCEPT ![ThisGame] =
       IF @ # NoRow /\ @.size.request = 0 /\ ThisGame \in Legacy
       THEN [@ EXCEPT !.size = BuiltinResources(rows[ThisGame].tier)] ELSE @]
  /\ boot' = NextGame
  /\ UNCHANGED <<env, settings, tiers, gate, rendered, orphaned, edit, torn, within, boots, edited>>

\* A world without an id gets one ...
AssignWorldID ==
  /\ AtGame("identify") /\ boot.put = 0
  /\ IF rows[ThisGame] # NoRow /\ ~rows[ThisGame].id
     THEN rows' = [rows EXCEPT ![ThisGame].id = TRUE] /\ boot' = [boot EXCEPT !.put = 1]
     ELSE rows' = rows /\ boot' = NextGame
  /\ UNCHANGED <<env, settings, tiers, gate, rendered, orphaned, edit, torn, within, boots, edited>>

\* ... and then the incidents of its slot that are not older than the world.
CreditIncidents ==
  /\ AtGame("identify") /\ boot.put = 1
  /\ orphaned' = orphaned \ {<<ThisGame, "since">>}
  /\ boot' = NextGame
  /\ UNCHANGED <<env, settings, tiers, gate, rows, rendered, edit, torn, within, boots, edited>>

\* defaultGameSettings: the environment's limits, which Garry's Mod does not
\* get, and the largest tier as the ceiling.
DefaultSettings(g) ==
  [limit |-> IF g \in Legacy THEN env[g] ELSE 0,
   ceiling |-> CHOOSE c \in {Builtin[t].limit : t \in Tiers} : \A t \in Tiers : Builtin[t].limit <= c]

(* Mutant: the settings are seeded from the environment on every boot. *)
SeedSettingsAlways ==
  /\ AtGame("seed") /\ boot.put = 0
  /\ PutGameSettings(ThisGame, DefaultSettings(ThisGame))
  /\ boot' = IF ListTiers(ThisGame) # {} THEN NextGame ELSE [boot EXCEPT !.put = 1]
  /\ UNCHANGED <<env, tiers, gate, rows, rendered, orphaned, edit, torn, within, boots, edited>>

\* Seed: settings that exist are left alone; so is a catalogue with any tier.
SeedSettings ==
  /\ AtGame("seed") /\ boot.put = 0
  /\ IF GetGameSettings(ThisGame) = NoRow THEN PutGameSettings(ThisGame, DefaultSettings(ThisGame))
                                          ELSE UNCHANGED settings
  /\ boot' = IF ListTiers(ThisGame) # {} THEN NextGame ELSE [boot EXCEPT !.put = 1]
  /\ UNCHANGED <<env, tiers, gate, rows, rendered, orphaned, edit, torn, within, boots, edited>>

\* The default tiers are put one by one.
SeedTier ==
  /\ AtGame("seed") /\ boot.put > 0
  /\ LET t == DefaultTiersFor[boot.put] IN PutTier(ThisGame, t.key, t.size)
  /\ boot' = IF boot.put = Len(DefaultTiersFor) THEN NextGame ELSE [boot EXCEPT !.put = @ + 1]
  /\ UNCHANGED <<env, settings, gate, rows, rendered, orphaned, edit, torn, within, boots, edited>>

\* The next stage; the last one builds the managers, with the environment's
\* limits.
Advance ==
  /\ \/ Stage("backfill", "identify") /\ UNCHANGED gate
     \/ Stage("identify", "seed") /\ UNCHANGED gate
     \/ Stage("seed", "up") /\ gate' = [g \in Games |-> AtLeast(env[g])]
  /\ UNCHANGED <<env, settings, tiers, rows, rendered, orphaned, edit, torn, within, boots, edited>>

\* The process stops, during the boot or later; its next environment may say
\* something else.
Stop ==
  /\ boot.pc # "down"
  /\ boot' = Down
  /\ env' \in [Games -> Limits]
  /\ torn' = torn \cup {edit[e].game : e \in {x \in Editors : edit[x] # NoEdit}}
  /\ edit' = [e \in Editors |-> NoEdit]
  /\ UNCHANGED <<settings, tiers, gate, rows, rendered, orphaned, within, boots, edited>>

(***************************************************************************)
(* Requests.                                                               *)
(***************************************************************************)
Serve == Up /\ edited < MaxEdits /\ edited' = edited + 1

SaveSettings(g) ==
  /\ Serve
  /\ \E n \in Limits, c \in Ceilings : PutGameSettings(g, [limit |-> n, ceiling |-> c])
  /\ UNCHANGED <<env, tiers, gate, rows, rendered, orphaned, boot, edit, torn, within, boots>>

(* Mutant: a tier is saved as it was submitted. *)
SaveTierUnchecked(g) ==
  /\ Serve
  /\ \E t \in Tiers, r \in Sizes : PutTier(g, t, r)
  /\ UNCHANGED <<env, settings, gate, rows, rendered, orphaned, boot, edit, torn, within, boots>>

SaveTier(g) ==
  /\ Serve
  /\ \E t \in Tiers, r \in Sizes : Validate(r) /\ PutTier(g, t, r)
  /\ UNCHANGED <<env, settings, gate, rows, rendered, orphaned, boot, edit, torn, within, boots>>

\* An edit of a world renders the row it means to save, then saves it.
Render(e, g, row) ==
  /\ Serve /\ edit[e] = NoEdit
  /\ rendered' = [rendered EXCEPT ![g] = EffectiveResources(row)]
  /\ edit' = [edit EXCEPT ![e] = [game |-> g, row |-> row]]
  /\ UNCHANGED <<env, settings, tiers, gate, rows, orphaned, boot, torn, within, boots>>

\* SaveResources: the route admits administrators only, whom the ceiling does
\* not bind.
SaveResources(e, g) ==
  rows[g] # NoRow /\ \E r \in Sizes : CheckResources(g, r, TRUE) /\ Render(e, g, [rows[g] EXCEPT !.size = r])

ApplyTier(e, g) ==
  /\ rows[g] # NoRow
  /\ rows[g].tier \in ListTiers(g)
  /\ Render(e, g, [rows[g] EXCEPT !.size = tiers[g][rows[g].tier]])

(* Mutant: the settings page saves to the database only. *)
UpdateSettingsRowOnly(e, g) ==
  /\ rows[g] # NoRow /\ Serve /\ edit[e] = NoEdit
  /\ \E t \in Tiers : rows' = [rows EXCEPT ![g].tier = t]
  /\ UNCHANGED <<env, settings, tiers, gate, rendered, orphaned, boot, edit, torn, within, boots>>

\* The settings page may give a world another tier; its size, once it has one,
\* stays.
UpdateSettings(e, g) ==
  rows[g] # NoRow /\ \E t \in Tiers : Render(e, g, [rows[g] EXCEPT !.tier = t])

\* Upsert writes the whole row that was read, or fails.
Upsert(e) ==
  /\ Up /\ edit[e] # NoEdit
  /\ LET g == edit[e].game
     IN \/ /\ rows' = [rows EXCEPT ![g] = edit[e].row] /\ torn' = torn \ {g}
        \/ /\ UNCHANGED rows /\ torn' = torn \cup {g}
  /\ edit' = [edit EXCEPT ![e] = NoEdit]
  /\ UNCHANGED <<env, settings, tiers, gate, rendered, orphaned, boot, within, boots, edited>>

\* Any account may create a world on a tier; the row is saved without a size.
Create(g) ==
  /\ Serve /\ rows[g] = NoRow
  /\ \E t \in Tiers :
       /\ rows' = [rows EXCEPT ![g] = [tier |-> t, size |-> Zero, id |-> TRUE]]
       /\ rendered' = [rendered EXCEPT ![g] = BuiltinResources(t)]
       /\ within' = [within EXCEPT ![g] = Allows(g, BuiltinResources(t))]
  /\ UNCHANGED <<env, settings, tiers, gate, orphaned, boot, edit, torn, boots>>

\* A database of an older version: worlds without size or id, incidents of
\* before and since the world in the slot.
CapacityInit ==
  /\ env \in [Games -> Limits]
  /\ settings = [g \in Games |-> NoRow]
  /\ tiers = [g \in Games |-> [t \in Tiers |-> NoRow]]
  /\ gate = [g \in Games |-> 0]
  /\ \E t \in Tiers, old \in SUBSET Legacy :
       /\ rows = [g \in Games |-> IF g \in old THEN [tier |-> t, size |-> Zero, id |-> FALSE] ELSE NoRow]
       /\ rendered = [g \in Games |-> IF g \in old THEN Builtin[t] ELSE Zero]
       /\ orphaned = old \X {"before", "since"}
  /\ torn = {} /\ within = [g \in Games |-> TRUE]
  /\ boot = Down /\ edit = [e \in Editors |-> NoEdit] /\ boots = 0 /\ edited = 0

CapacityNext ==
  \/ Open \/ BackfillResources \/ AssignWorldID \/ CreditIncidents \/ SeedSettings \/ SeedTier
  \/ Advance \/ Stop
  \/ \E g \in Games : SaveSettings(g) \/ SaveTier(g) \/ Create(g)
  \/ \E e \in Editors, g \in Games : SaveResources(e, g) \/ ApplyTier(e, g) \/ UpdateSettings(e, g)
  \/ \E e \in Editors : Upsert(e)

CapacitySpec == CapacityInit /\ [][CapacityNext]_capVars

(***************************************************************************)
(* Properties.                                                             *)
(***************************************************************************)
MemorySize == [request : Nat, limit : Nat]

Row == [tier : Tiers, size : MemorySize, id : BOOLEAN]

\* The type of the state.
CapacityTypeOK ==
  /\ \A g \in Games : rows[g] \in Row \cup {NoRow} /\ \A t \in Tiers : tiers[g][t] \in MemorySize \cup {NoRow}
  /\ \A e \in Editors : edit[e] = NoEdit \/ edit[e].row \in Row

\* A boot writes only what is missing: limits and tiers an operator has saved
\* are the same after it, wherever earlier boots were cut off.
SeedKeepsEdits ==
  [][~Up => \A g \in Games :
       /\ settings[g] # NoRow => settings'[g] = settings[g]
       /\ \A t \in Tiers : tiers[g][t] # NoRow => tiers'[g][t] = tiers[g][t]]_capVars

\* The size a world has, on its row and in its manifests, changes only in an
\* edit of that very world: no boot, no seeding, no change of a tier or of the
\* limits resizes a world that exists.
OnlyAskedResizes ==
  [][\A g \in Games : rows[g] # NoRow =>
       \/ EffectiveResources(rows'[g]) = EffectiveResources(rows[g]) /\ rendered'[g] = rendered[g]
       \/ \E e \in Editors : edit[e].game = g \/ edit'[e].game = g]_capVars

\* What the budget counts for a world is what its manifests ask for, unless an
\* edit is under way or has reported an error.
CountedIsRendered ==
  \A g \in Games : rows[g] # NoRow /\ g \notin torn /\ (\A e \in Editors : edit[e].game # g)
    => EffectiveResources(rows[g]) = rendered[g]

\* No size that is not valid ever gets to a row or a tier (Resources.Validate).
SizesAreValid ==
  \A g \in Games :
    /\ rows[g] # NoRow => rows[g].size = Zero \/ Validate(rows[g].size)
    /\ \A t \in Tiers : tiers[g][t] # NoRow => Validate(tiers[g][t])

\* What an operator chose stays: valid sizes, in the manifests as on the row,
\* and the settings and tiers across any number of boots, finished or not.
ChoicesStay == [](SizesAreValid /\ CountedIsRendered) /\ SeedKeepsEdits /\ OnlyAskedResizes

\* Not so: the stored limits win and the environment is not consulted again
\* (StoredLimits.cfg).
StoredLimitsWin == Up => \A g \in Games : gate[g] = Shown(g)

\* Not so: the boot after an interrupted one finishes the seeding
\* (scenario HalfSeeded).
SeedFinishes == Up => \A g \in Games, t \in Tiers : tiers[g][t] # NoRow

\* Not so: the boot after an interrupted one finishes the incidents
\* (scenario HalfCredited).
CreditFinishes == Up => \A g \in Games : <<g, "since">> \notin orphaned

\* Not so: a world that is created fits the ceiling of its game
\* (scenario CeilingUnbound).
CeilingBinds == \A g \in Games : within[g]

\* Not so: a world is shown as drifted when it has not its tier's size
\* (scenario DriftOfBuiltin).
DriftIsFromTier ==
  \A g \in Games : rows[g] # NoRow /\ tiers[g][rows[g].tier] # NoRow =>
    (DriftsFromTier(rows[g]) <=> EffectiveResources(rows[g]) # tiers[g][rows[g].tier])
=============================================================================
