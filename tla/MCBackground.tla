---------------------------- MODULE MCBackground ----------------------------
(***************************************************************************)
(* The parts that work beside the worlds' life cycle, on small instances:  *)
(* backups, health watcher, log followers, player lists, package index,    *)
(* capacity, rcon.  They share no state, so subject says which one a       *)
(* behaviour is about and the others stand still.                          *)
(***************************************************************************)
EXTENDS Backups, Health, Presence, PlayerLists, ModIndex, Capacity, Rcon, TLC

CONSTANTS w1, w2, w3,
          Subjects      \* SUBSET {"backups", "health", "presence", "minecraft", "valheim",
                        \*         "index", "capacity", "rcon"}

VARIABLE subject

\* Each world's pattern matches its own archives only ...
Own == {<<w, w>> : w \in Worlds}
\* ... or w1's those of w2 too: their slugs are "foo" and "foo-01".
Shared == Own \cup {<<w1, w2>>}

MCRoutes == <<"service", "lbip">>

MCProfiles == <<"minecraft", "gmod">>
MCTierKeys == <<"small", "large">>
Size(r, l) == [request |-> r, limit |-> l]
MCBuiltin == "small" :> Size(1, 1) @@ "large" :> Size(2, 3)
\* No request, a size of no tier, a limit below the request.
MCSizes == {Size(0, 1), Size(1, 3), Size(2, 1)}

allVars == <<backupVars, healthVars, presenceVars, listVars, indexVars, capVars, rconVars>>

MCInit == /\ InitBackups /\ InitHealth /\ InitPresence /\ InitLists /\ IndexInit /\ CapacityInit
          /\ RconInit
          /\ subject \in Subjects
          /\ subject = "health" \/ host = CHOOSE h \in Hosts : TRUE
          /\ subject = "capacity" \/ (env = [g \in Games |-> CHOOSE l \in Limits : TRUE] /\ orphaned = {}
                                      /\ rows = [g \in Games |-> NoRow])
MCNext ==
  /\ UNCHANGED subject
  /\ \/ subject = "backups" /\ BackupsNext
        /\ UNCHANGED <<healthVars, presenceVars, listVars, indexVars, capVars, rconVars>>
     \/ subject = "health" /\ HealthNext
        /\ UNCHANGED <<backupVars, presenceVars, listVars, indexVars, capVars, rconVars>>
     \/ subject = "presence" /\ PresenceNext
        /\ UNCHANGED <<backupVars, healthVars, listVars, indexVars, capVars, rconVars>>
     \/ subject = "minecraft" /\ MinecraftNext
        /\ UNCHANGED <<backupVars, healthVars, presenceVars, indexVars, capVars, rconVars>>
     \/ subject = "valheim" /\ ValheimNext
        /\ UNCHANGED <<backupVars, healthVars, presenceVars, indexVars, capVars, rconVars>>
     \/ subject \in {"minecraft", "valheim"} /\ AgrelhaDies
        /\ UNCHANGED <<backupVars, healthVars, presenceVars, indexVars, capVars, rconVars>>
     \/ subject = "index" /\ IndexNext
        /\ UNCHANGED <<backupVars, healthVars, presenceVars, listVars, capVars, rconVars>>
     \/ subject = "capacity" /\ CapacityNext
        /\ UNCHANGED <<backupVars, healthVars, presenceVars, listVars, indexVars, rconVars>>
     \/ subject = "rcon" /\ RconNext
        /\ UNCHANGED <<backupVars, healthVars, presenceVars, listVars, indexVars, capVars>>
MCSpec == MCInit /\ [][MCNext]_<<allVars, subject>>

\* The type invariants of the modules.
BackgroundTypeOK == CASE subject = "backups" -> BackupsTypeOK
                      [] subject = "health" -> HealthTypeOK
                      [] subject = "presence" -> PresenceTypeOK
                      [] subject \in {"minecraft", "valheim"} -> ListsTypeOK
                      [] subject = "index" -> IndexTypeOK
                      [] subject = "capacity" -> CapacityTypeOK
                      [] subject = "rcon" -> RconTypeOK
=============================================================================
