--------------------------------- MODULE Jobs ---------------------------------
(***************************************************************************)
(* The jobs of the platform that share no step with one another, each on a *)
(* stage of its own: the collector on one host with its SQLite store, the  *)
(* full backfill of such a store, the retention of PostgreSQL, the         *)
(* bootstrap of the schemas, the requests served while scans and ingests   *)
(* go on, the loops of several lanes, and mutable truth kept in SQLite and *)
(* in PostgreSQL.  A behaviour plays one scene; the variables of the       *)
(* others stay as they began.                                              *)
(***************************************************************************)
EXTENDS Collector, Backfill, Lifecycle, Migrations, Serving, Lanes, Mirror

VARIABLE scene

jobsVars == <<scene, collectVars, backfillVars, lifecycleVars, migrationVars, servingVars, lanesVars,
              mirrorVars>>

Scenes == {"collect", "backfill", "retention", "bootstrap", "serve", "lanes", "mirror"}

JobsInit ==
  /\ scene \in Scenes
  /\ CollectInit /\ BackfillInit /\ LifecycleInit /\ MigrationsInit /\ ServingInit
  /\ LanesInit /\ MirrorInit
  /\ scene # "backfill" => source = CHOOSE s \in Sources : TRUE
  /\ scene # "lanes" => plane = "postgres"
  /\ scene # "mirror" => sqlite = NoLedger

JobsNext ==
  /\ UNCHANGED scene
  /\ \/ /\ scene = "collect" /\ CollectNext
        /\ UNCHANGED <<backfillVars, lifecycleVars, migrationVars, servingVars, lanesVars, mirrorVars>>
     \/ /\ scene = "backfill" /\ BackfillNext
        /\ UNCHANGED <<collectVars, lifecycleVars, migrationVars, servingVars, lanesVars, mirrorVars>>
     \/ /\ scene = "retention" /\ LifecycleNext
        /\ UNCHANGED <<collectVars, backfillVars, migrationVars, servingVars, lanesVars, mirrorVars>>
     \/ /\ scene = "bootstrap" /\ MigrationsNext
        /\ UNCHANGED <<collectVars, backfillVars, lifecycleVars, servingVars, lanesVars, mirrorVars>>
     \/ /\ scene = "serve" /\ ServingNext
        /\ UNCHANGED <<collectVars, backfillVars, lifecycleVars, migrationVars, lanesVars, mirrorVars>>
     \/ /\ scene = "lanes" /\ LanesNext
        /\ UNCHANGED <<collectVars, backfillVars, lifecycleVars, migrationVars, servingVars, mirrorVars>>
     \/ /\ scene = "mirror" /\ MirrorNext
        /\ UNCHANGED <<collectVars, backfillVars, lifecycleVars, migrationVars, servingVars, lanesVars>>

JobsSpec == JobsInit /\ [][JobsNext]_jobsVars

-----------------------------------------------------------------------------
\* The job on stage keeps its tables, its checkpoint and its progress in their domains; the others
\* have only what they began with.
JobsTypeOK ==
  /\ scene \in Scenes
  /\ scene = "collect" => CollectTypeOK
  /\ scene = "backfill" => BackfillTypeOK
  /\ scene = "retention" => LifecycleTypeOK
  /\ scene = "bootstrap" => MigrationsTypeOK
  /\ scene = "serve" => ServingTypeOK
  /\ scene = "lanes" => LanesTypeOK
  /\ scene = "mirror" => MirrorTypeOK
=============================================================================
