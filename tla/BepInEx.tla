------------------------------ MODULE BepInEx ------------------------------
(***************************************************************************)
(* One BepInEx config file of one Valheim world (domain/bepinex*.go,       *)
(* app/bepinex, infra/bepinex, handlers/valheim/configs.go).  The mod      *)
(* generates the file on the server and a sidecar publishes a copy of it.  *)
(* agrelha never stores that file: it stores an Override set, the values   *)
(* that operators chose, and merges the set into the file before the       *)
(* server starts.                                                          *)
(*                                                                         *)
(* A text is a sequence of lines; sections and keys are numbers, in the    *)
(* order of their names.  A file's SHA-256 is the file.                    *)
(***************************************************************************)
EXTENDS Naturals, FiniteSets, FiniteSetsExt, SequencesExt

CONSTANTS
  Sections, Keys, CfgValues,
  Acceptable,      \* the values a described setting accepts
  Generated,       \* the files the mod may generate, in its versions
  Pasted,          \* the texts that operators import
  RawTexts,        \* the texts that operators type as Override sets
  Editors,         \* the browsers that edit the file
  EditsOverlap,    \* TRUE: several of them at a time
  OverridesLag,    \* TRUE: the Override set is read from a ConfigMap
  FileReturns,     \* TRUE: an earlier version of the file may come back
  MaxEdits, MaxRewrites, MaxStarts

\* The lines a text is made of.  Sections and keys are counted from 1.
CfgLines ==
  {<<"blank">>, <<"junk">>} \cup ({"comment"} \X CfgValues) \cup ({"section", "padded"} \X Sections)
  \cup ({"entry"} \X Keys \X CfgValues)
Texts == Seq(CfgLines)

ASSUME ConfigsAssumption ==
  /\ Sections \subseteq Nat \ {0} /\ Keys \subseteq Nat \ {0} /\ CfgValues \subseteq Nat \ {0}
  /\ IsFiniteSet(Sections) /\ IsFiniteSet(Keys)
  /\ MaxEdits \in Nat /\ MaxStarts \in Nat
  /\ Generated \subseteq Texts /\ Pasted \subseteq Texts /\ RawTexts \subseteq Texts

VARIABLES
  disk,       \* the file on the server's volume
  copy,       \* the published file
  digest,     \* its SHA-256 in the published index
  seen,       \* the versions the file has had
  kept,       \* the Override set in the state store, as text
  configMap,  \* what agrelha reads of it
  editor,     \* editor[e]: an operator's request
  managed,    \* history: what operators made of the Override set
  merge,      \* history: the last merge
  imported,   \* history: the values of an import nobody edited since
  edits

cfgVars == <<disk, copy, digest, seen, kept, configMap, editor, managed, merge, imported, edits>>

SettingKeys == Sections \X Keys
NoOverrides == [k \in {} |-> 0]
OverrideSets == UNION {[K -> CfgValues] : K \in SUBSET SettingKeys}

Blank == <<"blank">>
Section(s) == <<"section", s>>
Entry(k, v) == <<"entry", k, v>>
IsBlank(l) == l = Blank
IsHeader(l) == l[1] \in {"section", "padded"}

-----------------------------------------------------------------------------
(* Reading a file.                                                         *)

\* One line of ParseConfigFile.  0 is no section and no default.
ParseLine(f, l, i) ==
  CASE l[1] = "blank"   -> f
    [] l[1] = "comment" -> [f EXCEPT !.default = l[2]]
    [] IsHeader(l)      -> [f EXCEPT !.section = l[2], !.sections = @ \cup {l[2]}, !.default = 0]
    [] l[1] = "entry" /\ f.section # 0 ->
         [f EXCEPT !.settings = Append(@, [key |-> <<f.section, l[2]>>, value |-> l[3], default |-> f.default, line |-> i]),
                   !.default = 0]
    [] OTHER            -> [f EXCEPT !.default = 0, !.parsable = FALSE]

NothingRead == [section |-> 0, sections |-> {}, default |-> 0, settings |-> <<>>, parsable |-> TRUE]

\* What is known after each line.
Reading(lines) ==
  LET read[i \in 0 .. Len(lines)] == IF i = 0 THEN NothingRead ELSE ParseLine(read[i - 1], lines[i], i) IN read
ParseConfigFile(lines) == Reading(lines)[Len(lines)]

Declared(f) == {f.settings[i].key : i \in DOMAIN f.settings}
\* The first setting of a key, and the last.
Lookup(f, key) == SelectInSeq(f.settings, LAMBDA s : s.key = key)

(* Mutant: the first setting of a key. *)
IndexedFirst(f, key) == f.settings[Lookup(f, key)]

Indexed(f, key) == f.settings[SelectLastInSeq(f.settings, LAMBDA s : s.key = key)]

\* Validate.
Valid(setting, v) == setting.default = 0 \/ v = setting.default \/ v \in Acceptable

-----------------------------------------------------------------------------
(* Override sets and their text.                                           *)

\* Numbers in ascending order.
Ascending(N) ==
  CHOOSE f \in [1 .. Cardinality(N) -> N] : \A i, j \in 1 .. Cardinality(N) : i < j => f[i] < f[j]

SectionsOf(K) == Ascending({k[1] : k \in K})
NamesOf(K, s) == Ascending({k[2] : k \in {j \in K : j[1] = s}})
\* The lines for the settings K of one section.
Entries(o, K, s) ==
  LET names == NamesOf(K, s) IN [i \in DOMAIN names |-> Entry(names[i], o[<<s, names[i]>>])]

\* One section more.
EncodeSection(text, o, s) ==
  (IF text = <<>> THEN text ELSE Append(text, Blank)) \o <<Section(s)>> \o Entries(o, DOMAIN o, s)
Writing(o) ==
  LET order == SectionsOf(DOMAIN o)
      text[i \in 0 .. Len(order)] == IF i = 0 THEN <<>> ELSE EncodeSection(text[i - 1], o, order[i])
  IN text
EncodeOverrides(o) ==
  IF DOMAIN o = {} THEN <<>> ELSE Append(Writing(o)[Len(SectionsOf(DOMAIN o))], Blank)

ParseOverrideSet(text) ==
  LET f == ParseConfigFile(text) IN [k \in Declared(f) |-> Indexed(f, k).value]

-----------------------------------------------------------------------------
(* Merge.                                                                  *)

(* Mutant: one line too early. *)
InsertEarly(lines, s, entries) ==
  LET start == SelectInSeq(lines, LAMBDA l : l = Section(s))
      rest  == {i \in start + 1 .. Len(lines) : IsHeader(lines[i])}
      next  == IF rest = {} THEN Len(lines) + 1 ELSE CHOOSE i \in rest : \A j \in rest : i <= j
      end   == IF next = start + 1 THEN start ELSE next - 2
  IN IF start = 0 THEN lines
     ELSE SubSeq(lines, 1, end) \o entries \o SubSeq(lines, end + 1, Len(lines))

\* Entries go to the end of the section, before its blank lines.  A header
\* written "[ name ]" is not found.
InsertIntoSection(lines, s, entries) ==
  LET start == SelectInSeq(lines, LAMBDA l : l = Section(s))
      rest  == {i \in start + 1 .. Len(lines) : IsHeader(lines[i])}
      next  == IF rest = {} THEN Len(lines) + 1 ELSE CHOOSE i \in rest : \A j \in rest : i <= j
      body  == {i \in start .. next - 1 : i = start \/ ~IsBlank(lines[i])}
      end   == CHOOSE i \in body : \A j \in body : j <= i
  IN IF start = 0 THEN lines
     ELSE SubSeq(lines, 1, end) \o entries \o SubSeq(lines, end + 1, Len(lines))

AppendSection(lines, s, entries) ==
  lines \o (IF lines # <<>> /\ ~IsBlank(lines[Len(lines)]) THEN <<Blank>> ELSE <<>>)
        \o <<Section(s), Blank>> \o entries \o <<Blank>>

AddSection(lines, f, s, entries) ==
  IF s \in f.sections THEN InsertIntoSection(lines, s, entries) ELSE AppendSection(lines, s, entries)
Adding(lines, f, o, pending) ==
  LET order == SectionsOf(pending)
      text[i \in 0 .. Len(order)] ==
        IF i = 0 THEN lines ELSE AddSection(text[i - 1], f, order[i], Entries(o, pending, order[i]))
  IN text
AppendOverrides(lines, f, o, pending) == Adding(lines, f, o, pending)[Len(SectionsOf(pending))]

ReplaceLines(lines, f, o) ==
  [i \in DOMAIN lines |->
     LET hit == {k \in DOMAIN o \cap Declared(f) : Indexed(f, k).line = i}
     IN IF hit = {} THEN lines[i] ELSE Entry(lines[i][2], o[CHOOSE k \in hit : TRUE])]

MergeText(lines, o) ==
  LET f == ParseConfigFile(lines) IN
  IF lines = <<>> THEN EncodeOverrides(o)
  ELSE AppendOverrides(ReplaceLines(lines, f, o), f, o, DOMAIN o \ Declared(f))

-----------------------------------------------------------------------------
(* The server.                                                             *)

NoMerge == [set |-> NoOverrides, before |-> <<>>, after |-> <<>>, times |-> 0]

\* An operator's request: the form's position and value, the digest and the
\* setting it was made for, the setting it turned out to be about, the changes,
\* the text to store, whether it was typed, and the values of an import.
NoEdit == [pc |-> "idle", at |-> 0, value |-> 0, sha |-> <<>>, saw |-> <<>>, key |-> <<>>,
           change |-> NoOverrides, body |-> <<>>, typed |-> FALSE, text |-> NoOverrides]

\* MergeDir: an empty set leaves the file alone.
MergeFile(lines, o) == IF DOMAIN o = {} THEN lines ELSE MergeText(lines, o)

\* agrelha bepinex merge, in the init container or before a container is created.
ServerStartsMerged ==
  LET o == ParseOverrideSet(configMap)
      after == MergeFile(disk, o)
  IN
  /\ merge.times < MaxStarts
  /\ disk' = after
  /\ merge' = [set |-> o, before |-> disk, after |-> after, times |-> merge.times + 1]
  /\ seen' = seen \cup {after}
  /\ UNCHANGED <<copy, digest, kept, configMap, editor, managed, imported, edits>>

\* What a file says of a setting, as the mod reads it: the last line that sets it.
ValueIn(lines, key) ==
  LET at == {i \in DOMAIN lines :
               /\ lines[i][1] = "entry" /\ lines[i][2] = key[2]
               /\ \E h \in 1 .. i : /\ IsHeader(lines[h]) /\ lines[h][2] = key[1]
                                    /\ \A j \in h + 1 .. i : ~IsHeader(lines[j])}
  IN IF at = {} THEN 0 ELSE lines[CHOOSE i \in at : \A j \in at : j <= i][3]

\* The mod, perhaps another version of it, writes its file with the values it has read.
Rewritten(g) ==
  LET f == ParseConfigFile(g) IN
  [i \in DOMAIN g |->
     LET mine == {j \in DOMAIN f.settings : f.settings[j].line = i}
         was  == IF mine = {} THEN 0 ELSE ValueIn(disk, f.settings[CHOOSE j \in mine : TRUE].key)
     IN IF was = 0 THEN g[i] ELSE Entry(g[i][2], was)]

ModWrites(g) ==
  /\ Cardinality(seen) < MaxRewrites /\ disk' = Rewritten(g) /\ disk' # disk
  /\ FileReturns \/ disk' \notin seen
  /\ seen' = seen \cup {disk'}
  /\ imported' = NoOverrides
  /\ UNCHANGED <<copy, digest, kept, configMap, editor, managed, merge, edits>>

PublishFile == copy # disk /\ copy' = disk /\ UNCHANGED <<disk, digest, seen, kept, configMap, editor, managed, merge, imported, edits>>
PublishIndex == digest # copy /\ digest' = copy /\ UNCHANGED <<disk, copy, seen, kept, configMap, editor, managed, merge, imported, edits>>

SyncConfigMap == configMap # kept /\ configMap' = kept /\ UNCHANGED <<disk, copy, digest, seen, kept, editor, managed, merge, imported, edits>>

-----------------------------------------------------------------------------
(* Operators.                                                              *)

Turn(e) == /\ editor[e].pc = "idle" /\ edits < MaxEdits /\ edits' = edits + 1
           /\ EditsOverlap \/ \A d \in Editors : editor[d].pc = "idle"
           /\ OverridesLag \/ configMap = kept
           /\ UNCHANGED <<disk, copy, digest, seen, kept, configMap, managed, merge, imported>>
Step(e, next) == /\ editor' = [editor EXCEPT ![e] = next]
                 /\ UNCHANGED <<disk, copy, digest, seen, kept, configMap, managed, merge, imported, edits>>

\* ReadConfigSnapshot gives the digest, and ReadConfigFile a body that must have
\* it, unless that version has been parsed before.
Snapshot == digest
FileView == ParseConfigFile(Snapshot)
StoredOverrides == ParseOverrideSet(configMap)

\* ConfigGet: the panel shows the settings at their positions, 0-based in the
\* form; the operator changes one of them or marks it to be forgotten (v = 0).
OpenPanel(e) ==
  LET f == FileView IN
  \E i \in DOMAIN f.settings, v \in CfgValues \cup {0} :
    /\ Turn(e) /\ f.parsable
    /\ editor' = [editor EXCEPT ![e] = [NoEdit EXCEPT !.pc = "posted", !.at = i, !.value = v,
                                           !.sha = digest, !.saw = f.settings[i].key]]

\* The change that a form's position stands for, if any.
Resolve(f, o, at, v) ==
  IF at \notin DOMAIN f.settings THEN NoOverrides
  ELSE LET s == f.settings[at]
       IN IF s.value = v /\ s.key \notin DOMAIN o THEN NoOverrides ELSE [k \in {s.key} |-> v]

\* ConfigSave reads the file again and resolves the position in what it reads ...
SaveForm(e) ==
  LET x == editor[e]
      change == Resolve(FileView, StoredOverrides, x.at, x.value)
  IN
  /\ x.pc = "posted"
  /\ Step(e, IF change = NoOverrides THEN NoEdit
             ELSE [x EXCEPT !.pc = "apply", !.key = CHOOSE k \in DOMAIN change : TRUE, !.change = change])

\* ConfigReset: the default that the file now has, for a section and a name.
ResetToDefault(e) ==
  LET f == FileView IN
  \E i \in DOMAIN f.settings :
    LET s == f.settings[Lookup(f, f.settings[i].key)] IN
    /\ Turn(e) /\ s.default # 0
    /\ editor' = [editor EXCEPT ![e] = [NoEdit EXCEPT !.pc = "apply", !.sha = digest, !.saw = s.key, !.key = s.key,
                                           !.change = [k \in {s.key} |-> s.default]]]

\* PlanImport: the lines that differ from the default, or from the value where
\* there is none, and the ones that the mod does not declare.  Of two such
\* lines for one setting the last wins; a later line that repeats the default
\* takes nothing back.
PlanImport(f, in) ==
  LET known(k) == f.settings[Lookup(f, k)]
      baseline(k) == IF known(k).default # 0 THEN known(k).default ELSE known(k).value
      differs(s) == s.key \notin Declared(f) \/ (s.value # baseline(s.key) /\ Valid(known(s.key), s.value))
      entries == {i \in DOMAIN in.settings : differs(in.settings[i])}
      last(k) == Max({i \in entries : in.settings[i].key = k})
  IN [k \in {in.settings[i].key : i \in entries} |-> in.settings[last(k)].value]

\* ConfigImportApply.  The digest is sent only when the operator picked the file.
ApplyImport(e) ==
  \E text \in Pasted, picked \in BOOLEAN :
    LET f == FileView
        in == ParseOverrideSet(text)
        plan == PlanImport(f, ParseConfigFile(text))
        good == {k \in DOMAIN in : k \notin Declared(f) \/ Valid(f.settings[Lookup(f, k)], in[k])}
        said == [k \in DOMAIN in |-> IF k \in DOMAIN plan THEN plan[k] ELSE in[k]]
    IN
    /\ Turn(e)
    /\ editor' = [editor EXCEPT ![e] = IF DOMAIN plan = {} THEN NoEdit
                                       ELSE [NoEdit EXCEPT !.pc = "apply", !.sha = IF picked THEN digest ELSE <<>>,
                                                           !.change = plan, !.text = [k \in good |-> said[k]]]]

\* ConfigRaw, for a file that cannot be parsed, and ConfigDelete.
TypeOverrides(e) ==
  \E text \in RawTexts \cup {<<>>} :
    /\ Turn(e)
    /\ text = <<>> \/ ~FileView.parsable
    /\ editor' = [editor EXCEPT ![e] = [NoEdit EXCEPT !.pc = "write", !.body = text, !.typed = TRUE]]

(* Mutant: the set becomes the change. *)
OnlyChanges(o, change) ==
  [k \in {j \in DOMAIN change : change[j] # 0} |-> change[k]]

(* Mutant: what is forgotten is set to nothing. *)
ForgottenAsEmpty(o, change) ==
  [k \in DOMAIN o \cup DOMAIN change |-> IF k \in DOMAIN change THEN change[k] ELSE o[k]]

\* The set with the changes; 0 is Forget.
Changed(o, change) ==
  LET gone == {k \in DOMAIN change : change[k] = 0}
  IN [k \in (DOMAIN o \cup DOMAIN change) \ gone |-> IF k \in DOMAIN change THEN change[k] ELSE o[k]]

(* Mutant: the digest is not compared. *)
NotStale(x) == TRUE

Unstale(x) == x.sha = <<>> \/ x.sha = digest

\* ... and Apply reads it once more, compares the digest, validates and encodes.
ApplyChanges(e) ==
  LET x == editor[e]
      f == FileView
      new == Changed(StoredOverrides, x.change)
      refused == \E k \in DOMAIN x.change \cap Declared(f) : x.change[k] # 0 /\ ~Valid(f.settings[Lookup(f, k)], x.change[k])
  IN
  /\ x.pc = "apply"
  /\ IF ~Unstale(x) \/ refused THEN Step(e, NoEdit)
     ELSE Step(e, [x EXCEPT !.pc = "write", !.body = EncodeOverrides(new)])

\* SaveConfig, or DeleteConfig when nothing is left.
WriteOverrides(e) ==
  LET x == editor[e] IN
  /\ x.pc = "write"
  /\ kept' = x.body
  /\ managed' = IF x.typed THEN ParseOverrideSet(x.body)
                ELSE [k \in {j \in SettingKeys : IF j \in DOMAIN x.change THEN x.change[j] # 0 ELSE j \in DOMAIN managed}
                        |-> IF k \in DOMAIN x.change THEN x.change[k] ELSE managed[k]]
  /\ imported' = x.text
  /\ editor' = [editor EXCEPT ![e] = NoEdit]
  /\ UNCHANGED <<disk, copy, digest, seen, configMap, merge, edits>>

-----------------------------------------------------------------------------
InitConfigs(files, sets) ==
  /\ disk \in files /\ copy = disk /\ digest = disk /\ seen = {disk}
  /\ managed \in sets /\ kept = EncodeOverrides(managed) /\ configMap = kept
  /\ editor = [e \in Editors |-> NoEdit]
  /\ merge = NoMerge /\ imported = NoOverrides /\ edits = 0

ConfigsNext ==
  \/ ServerStartsMerged \/ PublishFile \/ PublishIndex \/ SyncConfigMap
  \/ \E g \in Generated : ModWrites(g)
  \/ \E e \in Editors : \/ OpenPanel(e) \/ SaveForm(e) \/ ResetToDefault(e) \/ ApplyImport(e)
                        \/ TypeOverrides(e) \/ ApplyChanges(e) \/ WriteOverrides(e)

ConfigsSpec(files, sets) == InitConfigs(files, sets) /\ [][ConfigsNext]_cfgVars

-----------------------------------------------------------------------------
ConfigsTypeOK ==
  /\ \A o \in {managed, ParseOverrideSet(kept)} : DOMAIN o \subseteq SettingKeys /\ Range(o) \subseteq CfgValues
  /\ \A e \in Editors : editor[e].pc \in {"idle", "posted", "apply", "write"}
  /\ edits \in 0 .. MaxEdits /\ merge.times \in 0 .. MaxStarts

(* After a merge the server reads every value that operators chose, and for
   every other setting what it would have read before, whatever the mod wrote:
   sections that come twice, keys set twice, keys and sections that are not
   there, an empty file (Merge, appendOverrides, insertIntoSection).  A
   header written "[ name ]" loses what belongs to it: scenario PaddedHeader. *)
MergeIsExact ==
  \A k \in SettingKeys : ValueIn(merge.after, k) = IF k \in DOMAIN merge.set THEN merge.set[k] ELSE ValueIn(merge.before, k)

\* The settings of one file are among those of another, in their order and with
\* their descriptions, and no other of theirs is.
Keeps(f, g) ==
  LET theirs == {j \in DOMAIN g.settings : g.settings[j].key \in Declared(f)} IN
  \E at \in [DOMAIN f.settings -> theirs] :
    /\ \A i, j \in DOMAIN f.settings : i < j => at[i] < at[j]
    /\ \A i \in DOMAIN f.settings : LET s == g.settings[at[i]] IN <<s.key, s.default>> = <<f.settings[i].key, f.settings[i].default>>
    /\ \A j \in theirs : \E i \in DOMAIN f.settings : at[i] = j

(* A merge keeps the mod's own descriptions with their settings, in their
   order, and merging the same set again changes nothing: MergeDir compares
   the texts to tell whether a file changed. *)
MergeSettles ==
  /\ DOMAIN merge.set = {} \/ MergeText(merge.after, merge.set) = merge.after
  /\ merge.before # <<>> => Keeps(ParseConfigFile(merge.before), ParseConfigFile(merge.after))

(* A merge changes what operators chose and nothing else, however often it
   runs (bepinex_merge.go). *)
MergeIsSound == MergeIsExact /\ MergeSettles

(* The stored Override set is what the saves, resets, imports and removals
   made of it, none of them undone (Apply reads the whole set and writes the
   whole set).  With two operators at a time, or a ConfigMap that lags, one
   undoes the other: scenario OverlappingSaves, scenario LaggingOverrides. *)
EditsAreStored ==
  ParseOverrideSet(kept) = managed

(* What is saved is saved for the setting that the operator saw: the form
   carries positions, which are resolved in a file that the server may have
   rewritten, and only Apply compares digests (decodeChanges, Apply).  If a
   rewritten file can come back as it was: scenario FileComesBack. *)
EditHitsItsSetting ==
  \A e \in Editors : editor[e].pc = "write" => editor[e].key = editor[e].saw

(* No save is lost, and none is saved for a setting that the operator did not
   see (Apply, decodeChanges). *)
ConfigEditsLand == EditsAreStored /\ EditHitsItsSetting

(* What an import announced is what the server reads after the next start
   (ApplyImport).  A value that equals the mod's default is taken for already
   so, even if another one is pinned: scenario ImportDefault. *)
ImportTakesEffect ==
  merge.times > 0 /\ disk = merge.after /\ merge.set = managed =>
    \A k \in DOMAIN imported : ValueIn(disk, k) = imported[k]
=============================================================================
