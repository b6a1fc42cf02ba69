------------------------------ MODULE MCWorlds ------------------------------
(***************************************************************************)
(* What belongs to one world, on small instances: its files and updates,   *)
(* the config files of its mods, the resolution of what a mod needs, its   *)
(* exports and imports, the order of versions.  topic says which of them a *)
(* behaviour is about; the others stand still.                             *)
(***************************************************************************)
EXTENDS ModUpdates, BepInEx, Dependencies, Packs, Versions

CONSTANTS
  ma, mb, mc, ml,   \* projects of a provider; ml is the loader pack
  xa, xb, xc, xd,   \* mods of a world that is exported, or of an upload
  Topics            \* SUBSET {"files", "merge", "padded", "configs", "tree",
                    \*         "export", "profile", "upload",
                    \*         "versions"}
VARIABLE topic

MCDeps == 1 :> {2} @@ 2 :> {}

\* Config files: every one of up to four lines that begins with a section, and
\* shorter ones that begin with anything, or with nothing.
AnyLine == {Section(s) : s \in Sections} \cup {Entry(1, 1), Entry(1, 2), Entry(2, 1)} \cup {Blank, <<"comment", 1>>, <<"junk">>}
Shapes == {<<>>} \cup {<<a>> : a \in AnyLine} \cup {<<a, b>> : a, b \in AnyLine}
          \cup {<<Section(s), a, b>> : s \in Sections, a, b \in AnyLine}
          \cup {<<Section(s), a, b, c>> : s \in Sections, a, b, c \in AnyLine}
Padded == {<<<<"padded", 1>>, Entry(1, 1)>>}
SmallSets == UNION {[K -> {1, 2}] : K \in {S \in SUBSET SettingKeys : Cardinality(S) <= 2}}

\* Two versions of a mod's file, one with its settings in another order, and one
\* that agrelha cannot parse.
File1 == <<Section(1), <<"comment", 1>>, Entry(1, 1), <<"comment", 1>>, Entry(2, 1)>>
File2 == <<Section(1), <<"comment", 1>>, Entry(2, 1), <<"comment", 2>>, Entry(1, 1)>>
File3 == <<Section(1), <<"junk">>, Entry(1, 1)>>
MCGenerated == {File1, File2, File3}
MCPasted == {<<Section(1), Entry(1, 1), Entry(2, 2), Entry(2, 1)>>, <<Section(1), Entry(1, 3), Section(2), Entry(1, 2)>>}
MCRawTexts == {<<Entry(1, 2), Section(1), Entry(2, 2), <<"junk">>>>}

\* Dependency graphs: cycles, diamonds, a project whose two builds differ in
\* what they require, one with no build or two, versions that do not fit.
Others(m) == Projects \ {m, ml}
Graphs(last) ==
  {[m \in Projects |-> [b \in Builds |->
      CASE m = ml -> {} [] m = ma -> ra [] m = mb -> IF b = 1 THEN rb1 ELSE rb2 [] m = mc -> rc]] :
    ra \in {{mb}, {mb, mc}}, rb1, rb2 \in SUBSET Others(mb), rc \in SUBSET (Others(mc) \cup last)}
Tops(n) == {[m \in Projects |-> IF m = mb THEN t ELSE IF m = mc THEN n ELSE 1] : t \in 1..2}
Exact == [m \in Projects |-> [b \in Builds |-> "exact"]]
PinMaps == {p \in [Projects -> 1..2] : p[ml] = 1}
Ones == {[m \in Projects |-> 1]}
Shelf(graphs, tops, pins, fits, rest) ==
  [requires : graphs, top : tops, pins : pins, fits : fits, restricted : rest]
MCShelves ==
  [thunderstore |-> Shelf(Graphs({ml}), Tops(2), PinMaps, {Exact}, {{}}),
   curseforge |-> Shelf(Graphs({}), Tops(1), Ones,
                        {[Exact EXCEPT ![mb][2] = f] : f \in {"exact", "base"}}, {{}, {ma}, {mc}}),
   modrinth |-> Shelf(Graphs({}), Tops(1), Ones,
                      {[Exact EXCEPT ![mb] = (1 :> f @@ 2 :> g)] : f, g \in {"exact", "base", "other"}}, {{}})]

\* Worlds to export, lists to write as a profile, files to upload.
SomeVersions == SUBSET (1..MaxPackVersion)
MCExported ==
  {[pin |-> (xa :> p @@ xb :> 0), side |-> (xa :> "both" @@ xb :> s),
    fits |-> (xa :> f @@ xb :> {1}), builds |-> (xa :> f \cup b @@ xb :> {1}),
    jar |-> (xa :> j @@ xb :> TRUE), url |-> (xc :> TRUE @@ xd :> FALSE)] :
     p \in 0..MaxPackVersion, s \in {"both", "server"}, f, b \in SomeVersions, j \in BOOLEAN}
Listing(f, p, o) == [form |-> f, package |-> p, version |-> IF f = "full" THEN 0 ELSE 1, odd |-> o]
Listings == {Listing(f, p, FALSE) : f \in {"slash", "full", "dashed"}, p \in Packages \ {"odd", BepInExPack}}
            \cup {Listing(f, "odd", TRUE) : f \in {"slash", "full", "dashed"}}
            \cup {Listing("full", BepInExPack, FALSE)}
MCProfileLists == {<<a, b>> : a, b \in Listings}
Jars == SUBSET ({xa, xb} \X {1})
Exts == {"mrpack", "zip", "txt", "other"}
MCUploads ==
  [ext : Exts, zip : {TRUE}, index : {"good", "bad", "none"}, mmc : {"good", "bad", "none"},
   files : Jars, jars : Jars, lines : {{xc}}]
  \cup [ext : Exts, zip : {FALSE}, index : {"none"}, mmc : {"none"}, files : {{}}, jars : {{}},
        lines : SUBSET {xa, xb}]

\* Versions of one to three segments, candidates and builds of one of them, and
\* some whose segments have letters.
Ver(core, pre, build) == [core |-> core, pre |-> pre, build |-> build]
Num(n) == <<n, 0>>
Numbered == {Ver(<<Num(a)>>, <<>>, <<>>) : a \in 0..2} \cup
            {Ver(<<Num(a), Num(b)>>, p, <<>>) : a, b \in {0, 1, 10}, p \in {<<>>, <<3>>, <<5>>}} \cup
            {Ver(<<Num(1), Num(a), Num(b)>>, <<>>, <<>>) : a, b \in {0, 1, 2}}
Candidates == {Ver(<<Num(1), Num(1)>>, p, b) : p \in {<<>>, <<3, 9>>, <<3, 1, 0>>},
                                                b \in {<<>>, <<Num(1)>>, <<Num(1), Num(0)>>, <<Num(1), <<0, 1>>>>, <<Num(10)>>}}
Letters == {<<1, 1>>, <<1, 2>>, <<2, 1>>}
Lettered == {Ver(<<x, Num(n)>>, <<>>, <<>>) : x \in Letters, n \in 0..2}
MCPublished == Numbered \cup Candidates \cup Lettered
MCLettered == Lettered \cup Numbered
Name(parts, text) == [parts |-> parts, text |-> text]
MCGameVersions == {Name(<<>>, "Fabric"), Name(<<>>, ""), Name(<<1, 21, 1>>, "rc"), Name(<<26, 0>>, "")}
                  \cup {Name(p, "") : p \in {<<1, 9>>, <<1, 21>>, <<1, 21, 1>>, <<26>>, <<26, 3>>}}

\* What stands still.
AnyHost == CHOOSE h \in Hosts : TRUE
AnyRow == CHOOSE s \in Settings : TRUE
AnyShelf == CHOOSE s \in MCShelves["modrinth"] : TRUE
AnyExported == CHOOSE w \in ExportedWorlds : TRUE
AnyList == CHOOSE l \in ProfileLists : TRUE

MCInit ==
  /\ Init /\ topic \in Topics
  /\ topic # "files" => host = AnyHost /\ row = AnyRow
  /\ InitConfigs(CASE topic = "merge" -> Shapes [] topic = "padded" -> Padded [] OTHER -> {File1},
                 IF topic \in {"merge", "padded"} THEN SmallSets ELSE {NoOverrides})
  /\ IF topic = "tree" THEN DependenciesInit(MCShelves)
     ELSE job = NewJob("modrinth") /\ shelf = AnyShelf
  /\ export = Start /\ world \in IF topic = "export" THEN ExportedWorlds ELSE {AnyExported}
  /\ profile = NewProfile /\ list \in IF topic = "profile" THEN ProfileLists ELSE {AnyList}
  /\ upload = NoUpload
  /\ IF topic = "versions" THEN VersionsInit ELSE pinned = Unpinned /\ past = <<>> /\ listed = <<>>

MCNext ==
  /\ UNCHANGED topic
  /\ \/ topic = "files" /\ Next /\ UNCHANGED <<cfgVars, depVars, packVars, versionVars>>
     \/ topic \in {"merge", "padded"} /\ ServerStartsMerged /\ UNCHANGED <<vars, depVars, packVars, versionVars>>
     \/ topic = "configs" /\ ConfigsNext /\ UNCHANGED <<vars, depVars, packVars, versionVars>>
     \/ topic = "tree" /\ DependenciesNext /\ UNCHANGED <<vars, cfgVars, packVars, versionVars>>
     \/ topic = "export" /\ ExportNext /\ UNCHANGED <<vars, cfgVars, depVars, list, profile, upload, versionVars>>
     \/ topic = "profile" /\ ProfileNext /\ UNCHANGED <<vars, cfgVars, depVars, world, export, upload, versionVars>>
     \/ topic = "upload" /\ Upload /\ UNCHANGED <<vars, cfgVars, depVars, world, export, list, profile, versionVars>>
     \/ topic = "versions" /\ VersionsNext /\ UNCHANGED <<vars, cfgVars, depVars, packVars>>

MCSpec == MCInit /\ [][MCNext]_<<vars, cfgVars, depVars, packVars, versionVars, topic>>

\* Settings are only compared.
Symmetry == Permutations(Settings)

\* The type invariants of the modules (WorldFiles, BepInEx, Dependencies, Packs).
WorldsTypeOK == CASE topic = "files" -> WorldTypeOK
                  [] topic \in {"merge", "padded", "configs"} -> ConfigsTypeOK
                  [] topic = "tree" -> DependenciesTypeOK
                  [] topic \in {"export", "profile", "upload"} -> PacksTypeOK
                  [] OTHER -> pinned \in Published \cup {Unpinned}
=============================================================================
