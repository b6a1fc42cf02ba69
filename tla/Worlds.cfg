SPECIFICATION MCSpec
CONSTANTS
  Mods = {1, 2}
  CFMods = {1}
  MaxVersion = 2
  Deps <- MCDeps
  Pins = {0, 1}
  Files = {f1}
  Settings = {s1, s2}
  Hosts = {"cluster", "docker"}
  Operators = {o1}
  Faults = {"store", "docker", "db"}
  SyncFirst = TRUE
  FreshReports = TRUE
  MaxRequests = 4
  NoPoint = NoPoint
  NotPending = NotPending
  Topics = {"files", "merge", "configs", "tree", "export", "profile", "upload", "versions"}
  Sections = {1, 2}
  Keys = {1, 2}
  CfgValues = {1, 2, 3}
  Acceptable = {1, 2}
  Generated <- MCGenerated
  Pasted <- MCPasted
  RawTexts <- MCRawTexts
  Editors = {e1, e2}
  EditsOverlap = FALSE
  OverridesLag = FALSE
  FileReturns = FALSE
  MaxEdits = 2
  MaxRewrites = 2
  MaxStarts = 1
  ma = ma
  mb = mb
  mc = mc
  ml = ml
  Projects = {ma, mb, mc, ml}
  Root = ma
  LoaderPack = ml
  MaxBuild = 2
  MaxTransient = 3
  Breaking = {"thunderstore", "curseforge"}
  Moving = {"thunderstore", "curseforge"}
  xa = xa
  xb = xb
  xc = xc
  xd = xd
  ModrinthMods = {xa, xb}
  CurseForgeMods = {xc, xd}
  MaxPackVersion = 2
  ExportedWorlds <- MCExported
  ListFails = FALSE
  Packages = {"one", "two", "odd", "bepinex"}
  BepInExPack = "bepinex"
  ProfileLists <- MCProfileLists
  Uploads <- MCUploads
  NoUpload = NoUpload
  Refused = Refused
  Published <- MCPublished
  GameVersions <- MCGameVersions
  MaxUpdates = 1
  Unpinned = Unpinned
  Base = 100
SYMMETRY Symmetry
CHECK_DEADLOCK FALSE
INVARIANTS
  WorldsTypeOK
  MergeIsSound
  ConfigEditsLand
  ResolutionIsRight
  PacksAreFaithful
  VersionsAreOrdered
  EditsAreKept
  ConvergedIsDesired
PROPERTIES
  UndoIsSafe
  UpdatesOnlyRaise
