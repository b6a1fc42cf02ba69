------------------------------- MODULE Packs --------------------------------
(***************************************************************************)
(* A world's client pack, and reading one back.  A Minecraft world is      *)
(* exported as a .mrpack: its mods are looked up on Modrinth, several at a *)
(* time, sorted into those the pack contains and three kinds of others,    *)
(* and named in a report.  A Valheim world is exported as an r2modman      *)
(* profile, whose entries are parsed from the list's notations; the pack   *)
(* that r2modman needs to launch the game is added when the list lacks it. *)
(*                                                                         *)
(* A mod is a model value.  A version is a number, the first version of a  *)
(* provider's answer being the largest; 0 is no version.                   *)
(***************************************************************************)
EXTENDS Integers, Sequences, FiniteSetsExt, SequencesExt

CONSTANTS
  ModrinthMods,      \* the Modrinth half of a world's mod list
  CurseForgeMods,      \* the CurseForge half
  MaxPackVersion,  \* versions are 1..MaxPackVersion
  ExportedWorlds,      \* the worlds to export: [pin, side, fits, builds, jar, url]
  ListFails,   \* TRUE: the world's mod list cannot be read
  Packages,    \* the Thunderstore packages of a profile
  BepInExPack, \* the one called bepinexpack
  ProfileLists \* the mod lists to export: sequences of entries

ASSUME PacksAssumption == MaxPackVersion \in Nat \ {0} /\ BepInExPack \in Packages

NoVersion == 0

(***************************************************************************)
(* The .mrpack.  A world w has, for a Modrinth mod, the version it pins,   *)
(* the side it runs on, the versions listed for the world's Minecraft      *)
(* version (fits) and those listed at all (builds), and whether a version  *)
(* comes with a jar; for a CurseForge mod, whether the file has a URL.     *)
(***************************************************************************)
VARIABLES
  world,   \* the world
  export   \* the export

Start ==
  [at |-> "lists", todo |-> {}, known |-> {}, serverOnly |-> {}, missing |-> {},
   running |-> {}, fallback |-> {}, files |-> {}, noVersion |-> {}, cf |-> {}, embed |-> {},
   archive |-> {}, included |-> 0, restricted |-> {}, total |-> 0]

\* The lists are read from the cluster or, when that gives nothing, from the
\* state store; a list that cannot be read is exported as an empty one.
ReadLists ==
  /\ export.at = "lists"
  /\ export' = [export EXCEPT !.at = "curseforge",
                              !.todo = IF ListFails THEN {} ELSE ModrinthMods,
                              !.total = IF ListFails THEN 0 ELSE Cardinality(ModrinthMods),
                              !.cf = IF ListFails THEN {} ELSE CurseForgeMods]
  /\ UNCHANGED world

\* The CurseForge files: one whose project or file cannot be had counts as
\* one without a URL.
ExportFiles ==
  /\ export.at = "curseforge"
  /\ \E S \in SUBSET {m \in export.cf : world.url[m]} :
       export' = [export EXCEPT !.at = "batch", !.embed = S]
  /\ UNCHANGED world

\* GetProjects: what one request knows of the mods, or nothing when it fails.
Batch ==
  /\ export.at = "batch"
  /\ \E S \in SUBSET export.todo : export' = [export EXCEPT !.at = "projects", !.known = S]
  /\ UNCHANGED world

(* Mutant: a server-only mod is left out without a word. *)
ClassifySilently(m) ==
  /\ export.at = "projects" /\ m \in export.todo
  /\ \/ /\ m \notin export.known
        /\ export' = [export EXCEPT !.todo = @ \ {m}, !.missing = @ \cup {m}]
     \/ /\ world.side[m] = "server"
        /\ export' = [export EXCEPT !.todo = @ \ {m}]
     \/ /\ world.side[m] # "server"
        /\ export' = [export EXCEPT !.todo = @ \ {m}, !.running = @ \cup {m}]
  /\ UNCHANGED world

\* One mod of the list: its project, asked for when the batch had it not, and
\* whether the client can have it at all.
Classify(m) ==
  /\ export.at = "projects" /\ m \in export.todo
  /\ \/ /\ m \notin export.known
        /\ export' = [export EXCEPT !.todo = @ \ {m}, !.missing = @ \cup {m}]
     \/ /\ world.side[m] = "server"
        /\ export' = [export EXCEPT !.todo = @ \ {m}, !.serverOnly = @ \cup {m}]
     \/ /\ world.side[m] # "server"
        /\ export' = [export EXCEPT !.todo = @ \ {m}, !.running = @ \cup {m}]
  /\ UNCHANGED world

ResolveFiles ==
  /\ export.at = "projects" /\ export.todo = {}
  /\ export' = [export EXCEPT !.at = "resolve"]
  /\ UNCHANGED world

(* Mutant: the first version is taken whatever the list pins. *)
ChooseNewest(m, S) == Max(S)

(* Mutant: the pinned version is taken without looking for it. *)
ChoosePinned(m, S) == world.pin[m]

\* The pinned version when the answer S has it, and its first version otherwise.
Choose(m, S) == IF world.pin[m] \in S THEN world.pin[m] ELSE Max(S)

\* A goroutine's first request: the versions for this Minecraft version.  An
\* error and an empty answer lead to a request without the version.
LookupFiltered(m) ==
  /\ export.at = "resolve" /\ m \in export.running
  /\ \/ /\ world.fits[m] # {}
        /\ export' = [export EXCEPT
             !.running = @ \ {m},
             !.files = IF world.jar[m] THEN @ \cup {<<m, Choose(m, world.fits[m])>>} ELSE @,
             !.noVersion = IF world.jar[m] THEN @ ELSE @ \cup {m}]
     \/ export' = [export EXCEPT !.running = @ \ {m}, !.fallback = @ \cup {m}]
  /\ UNCHANGED world

LookupAny(m) ==
  /\ export.at = "resolve" /\ m \in export.fallback
  /\ \/ /\ world.builds[m] # {} /\ world.jar[m]
        /\ export' = [export EXCEPT !.fallback = @ \ {m},
                                    !.files = @ \cup {<<m, Choose(m, world.builds[m])>>}]
     \/ export' = [export EXCEPT !.fallback = @ \ {m}, !.noVersion = @ \cup {m}]
  /\ UNCHANGED world

(* Mutant: the index is written before the last goroutine has ended. *)
WriteIndexEarly ==
  /\ export.at = "resolve" /\ export.running = {}
  /\ export' = [export EXCEPT !.at = "report", !.archive = export.files, !.fallback = {}]
  /\ UNCHANGED world

\* wg.Wait: modrinth.index.json is marshalled and written into the archive.
WriteIndex ==
  /\ export.at = "resolve" /\ export.running = {} /\ export.fallback = {}
  /\ export' = [export EXCEPT !.at = "report", !.archive = export.files]
  /\ UNCHANGED world

\* The CurseForge files are appended to the index that was written, and the
\* report counts them as included; those without a URL are named.
WriteReport ==
  /\ export.at = "report"
  /\ export' = [export EXCEPT !.at = "done",
                              !.included = Cardinality(export.files) + Cardinality(export.embed),
                              !.restricted = export.cf \ export.embed]
  /\ UNCHANGED world

ExportNext ==
  \/ ReadLists \/ ExportFiles \/ Batch \/ ResolveFiles \/ WriteIndex \/ WriteReport
  \/ \E m \in ModrinthMods : Classify(m) \/ LookupFiltered(m) \/ LookupAny(m)

(***************************************************************************)
(* The r2modman profile.  An entry of a Valheim list is written as         *)
(* "ns/name/version" (slash), "ns-name" (full) or "ns-name-version"        *)
(* (dashed); a package whose own name has a hyphen is of the kind odd.     *)
(***************************************************************************)
VARIABLES
  list,     \* the Instance's list
  profile   \* the entries, the manifest of the profile and what an import reads

\* ResolveVersions: a full name gets the newest version, if it can be had.
ResolveVersions(e, newest) ==
  IF e.form = "full" /\ newest # NoVersion
  THEN [e EXCEPT !.form = "slash", !.version = newest] ELSE e

(* Mutant: an entry without a version is left out. *)
parseEntryVersioned(e) ==
  CASE e.form = "slash"  -> [name |-> <<e.package>>, version |-> e.version, enabled |-> TRUE]
    [] e.form = "dashed" /\ ~e.odd -> [name |-> <<e.package>>, version |-> e.version, enabled |-> TRUE]
    [] OTHER -> [name |-> <<>>, version |-> NoVersion, enabled |-> FALSE]

\* parseEntry: the name and the version of a manifest's mod.  What follows the
\* first hyphen of the name is only taken for a version when it is one, so the
\* version of a hyphenated name stays a part of the name.
parseEntry(e) ==
  CASE e.form = "slash"  -> [name |-> <<e.package>>, version |-> e.version, enabled |-> TRUE]
    [] e.form = "dashed" /\ ~e.odd -> [name |-> <<e.package>>, version |-> e.version, enabled |-> TRUE]
    [] e.form = "dashed" /\ e.odd  -> [name |-> <<e.package, e.version>>, version |-> NoVersion, enabled |-> TRUE]
    [] e.form = "full"   -> [name |-> <<e.package>>, version |-> NoVersion, enabled |-> TRUE]

\* The list as the bundle source hands it over, or an empty one, with a line in
\* the log, when it cannot be read.
BundleSource(newest) ==
  IF ListFails THEN <<>> ELSE [i \in DOMAIN list |-> ResolveVersions(list[i], newest[i])]

(* Mutant: the pack is added whether the list has it or not. *)
WithBepInExAlways(entries, version) ==
  <<[form |-> "slash", package |-> BepInExPack, version |-> version, odd |-> FALSE]>> \o entries

\* The server's list omits the pack, for its image installs it; the profile
\* begins with it.
WithBepInEx(entries, version) ==
  IF \E i \in DOMAIN entries : entries[i].package = BepInExPack THEN entries
  ELSE <<[form |-> "slash", package |-> BepInExPack, version |-> version, odd |-> FALSE]>> \o entries

\* The loop over s that appends the entries in K, after each of its rounds.
Appending(s, K) ==
  LET out[i \in 0 .. Len(s)] ==
        IF i = 0 THEN <<>> ELSE IF s[i] \in K THEN Append(out[i - 1], s[i]) ELSE out[i - 1]
  IN out
Only(s, K) == Appending(s, K)[Len(s)]

\* The profile's manifest.
Build(entries) ==
  LET mods == [i \in DOMAIN entries |-> parseEntry(entries[i])]
  IN Only(mods, {m \in Range(mods) : m.name # <<>>})

ExportClientBundle ==
  /\ profile.at = "list"
  /\ \E newest \in [1..Len(list) -> 0..MaxPackVersion], version \in 1..MaxPackVersion :
       profile' = [profile EXCEPT !.at = "built", !.mods = Build(WithBepInEx(BundleSource(newest), version))]
  /\ UNCHANGED list

\* Somebody disables a mod of the profile in r2modman.
Disable ==
  /\ profile.at = "built"
  /\ \E i \in 1..Len(profile.mods) :
       /\ profile.mods[i].enabled
       /\ profile' = [profile EXCEPT !.mods[i].enabled = FALSE]
  /\ UNCHANGED list

(* Mutant: the import takes the disabled mods too. *)
ParseR2ZAll(mods) == [i \in DOMAIN mods |-> mods[i].name]

\* The names of the enabled mods, without their versions.
ParseR2Z(mods) ==
  LET on == Only(mods, {m \in Range(mods) : m.enabled}) IN [i \in DOMAIN on |-> on[i].name]

ValheimWizardImport ==
  /\ profile.at = "built"
  /\ profile' = [profile EXCEPT !.at = "read", !.slugs = ParseR2Z(profile.mods)]
  /\ UNCHANGED list

NewProfile == [at |-> "list", mods |-> <<>>, slugs |-> <<>>]

ProfileNext == ExportClientBundle \/ Disable \/ ValheimWizardImport

(***************************************************************************)
(* An upload to the Minecraft wizard: an extension and the bytes, of which *)
(* the parsers see whether they are a zip archive, whether it has a        *)
(* Modrinth index that decodes (and the files that it names), a Prism      *)
(* description that decodes, and jars under mods/; or else lines of text.  *)
(* A jar's name is a mod's slug with a version.                            *)
(***************************************************************************)
CONSTANTS Uploads, NoUpload, Refused

VARIABLE upload

Read(format, slugs) == [format |-> format, slugs |-> slugs]

cleanModSlug(jar) == jar[1]
cleanModSlugs(jars) == {cleanModSlug(j) : j \in jars}

ParseMrpack(f) == IF f.zip /\ f.index = "good" THEN Read("mrpack", cleanModSlugs(f.files)) ELSE Refused

\* A Prism archive without a description still passes when it has jars.
ParsePrismZip(f) ==
  IF f.zip /\ (f.mmc = "good" \/ f.jars # {}) THEN Read("prism", cleanModSlugs(f.jars)) ELSE Refused

ParseRawModList(f) == Read("text", f.lines)

OrElse(first, second) == IF first # Refused THEN first ELSE second

(* Mutant: a file with an unknown extension is tried as a Prism archive first. *)
MCWizardImportPrismFirst(f) ==
  CASE f.ext = "mrpack" -> ParseMrpack(f)
    [] f.ext = "zip"    -> OrElse(ParseMrpack(f), ParsePrismZip(f))
    [] f.ext = "txt"    -> ParseRawModList(f)
    [] f.ext = "other"  -> OrElse(ParsePrismZip(f), OrElse(ParseMrpack(f), ParseRawModList(f)))

MCWizardImport(f) ==
  CASE f.ext = "mrpack" -> ParseMrpack(f)
    [] f.ext = "zip"    -> OrElse(ParseMrpack(f), ParsePrismZip(f))
    [] f.ext = "txt"    -> ParseRawModList(f)
    [] f.ext = "other"  -> OrElse(ParseMrpack(f), OrElse(ParsePrismZip(f), ParseRawModList(f)))

Upload == upload = NoUpload /\ upload' \in Uploads

packVars == <<world, export, list, profile, upload>>

InitPacks ==
  /\ world \in ExportedWorlds /\ export = Start
  /\ list \in ProfileLists /\ profile = NewProfile /\ upload = NoUpload

PacksNext ==
  \/ ExportNext /\ UNCHANGED <<list, profile, upload>>
  \/ ProfileNext /\ UNCHANGED <<world, export, upload>>
  \/ Upload /\ UNCHANGED <<world, export, list, profile>>

PacksSpec == InitPacks /\ [][PacksNext]_packVars

(***************************************************************************)
(* Properties.                                                             *)
(***************************************************************************)
\* The type of an export and of a profile.
PacksTypeOK ==
  /\ export.at \in {"lists", "curseforge", "batch", "projects", "resolve", "report", "done"}
  /\ UNION {export.todo, export.serverOnly, export.missing, export.running, export.fallback,
            export.noVersion} \subseteq ModrinthMods
  /\ export.archive \subseteq ModrinthMods \X (1..MaxPackVersion)
  /\ profile.at \in {"list", "built", "read"} /\ Len(profile.mods) <= Len(list) + 1

\* No Modrinth mod of the list is dropped without a word: each one is in the
\* archive, once, or named in exactly one section of the report, whichever
\* requests failed and in whatever order the goroutines ended.
EveryModIsAccountedFor ==
  export.at = "done" =>
    \A m \in IF ListFails THEN {} ELSE ModrinthMods :
      Cardinality({x \in export.archive : x[1] = m})
        + Cardinality({S \in {<<1, export.serverOnly>>, <<2, export.missing>>,
                              <<3, export.noVersion>>} : m \in S[2]}) = 1

\* The pack has the version the world pins whenever Modrinth lists it for the
\* world's Minecraft version, even when the first request failed and the
\* unfiltered one was answered instead.
PinIsExported ==
  \A x \in export.archive :
    world.pin[x[1]] \in world.fits[x[1]] => x[2] = world.pin[x[1]]

\* The packages that a profile of the list is made of.
PackNames ==
  LET own == [i \in DOMAIN list |-> list[i].package]
  IN IF BepInExPack \in Range(own) THEN own ELSE <<BepInExPack>> \o own

\* An import of an exported profile offers, in order, the packages of the list,
\* and before them BepInEx when the list omits it, without those that were
\* disabled, whatever notation the list uses and whichever versions could be
\* looked up, if the list could be read and no hyphenated name has a version.
ImportReadsTheExport ==
  profile.at = "read" /\ ~ListFails /\ (\A j \in DOMAIN list : list[j].form = "dashed" => ~list[j].odd) =>
    /\ Len(profile.mods) = Len(PackNames)
    /\ LET on == {i \in DOMAIN PackNames : profile.mods[i].enabled}
       IN \E at \in [DOMAIN profile.slugs -> on] :
            /\ \A i, j \in DOMAIN profile.slugs : i < j => at[i] < at[j]
            /\ \A k \in on : \E i \in DOMAIN profile.slugs : at[i] = k
            /\ \A i \in DOMAIN profile.slugs : profile.slugs[i] = <<PackNames[at[i]]>>

\* What an uploaded file is read as does not depend on its extension, except
\* that .mrpack insists on a Modrinth index and .txt on a text: the other two
\* ways of asking give the same world for the same bytes.
ExtensionDoesNotMatter ==
  upload # NoUpload =>
    LET as(ext) == MCWizardImport([upload EXCEPT !.ext = ext])
    IN /\ as("zip") # Refused => as("other") = as("zip")
       /\ as("mrpack") # Refused => as("zip") = as("mrpack")

\* Packs say what the world says: exports lose no mod and no pin, and what is
\* imported is what was exported, under whatever extension it comes.
PacksAreFaithful ==
  /\ EveryModIsAccountedFor /\ PinIsExported
  /\ ImportReadsTheExport /\ ExtensionDoesNotMatter

\* Not so: the CurseForge mods that may be distributed are in the pack
\* (scenario MissingCurseForge).
CurseForgeIsEmbedded ==
  export.at = "done" => export.included = Cardinality(export.archive)

\* Not so: an exported mod has the version the world pins (scenario UnlistedPin).
PinIsKept ==
  \A x \in export.archive : world.pin[x[1]] # NoVersion => x[2] = world.pin[x[1]]

\* Not so: a world with mods is not exported as a pack, or as a profile, without
\* any (scenario EmptyExport).
ListIsExported ==
  /\ export.at = "done" => export.total = Cardinality(ModrinthMods)
  /\ profile.at # "list" => Len(profile.mods) >= Len(list)

\* Not so: no mod that an uploaded archive carries is left out of the world
\* that is offered (scenario OverridesDropped).
UploadIsReadWhole ==
  upload # NoUpload => LET w == MCWizardImport(upload)
                       IN w # Refused /\ w.format # "text" => cleanModSlugs(upload.jars) \subseteq w.slugs

\* Not so: every imported slug is the name of a package (scenario HyphenatedName).
ImportedSlugsAreNames ==
  \A i \in 1..Len(profile.slugs) : Len(profile.slugs[i]) = 1
=============================================================================
