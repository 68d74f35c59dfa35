------------------------- MODULE MCStartupSettings -------------------------
(***************************************************************************)
(* Instances of StartupSettings for TLC: the preset "sqlite".              *)
(***************************************************************************)
EXTENDS StartupSettings, TLC

AllRepositories ==
  <<"correlation", "cronjob_history", "external_task", "flow_node_instance",
    "process_model">>

\* config/sqlite/process_engine/*_repository.json
Sqlite ==
  [r \in ToSet(AllRepositories) |->
     IF r = "cronjob_history" THEN <<"processengine.sqlite">>
     ELSE <<r \o ".sqlite">>]

UserFolder == <<"/", "home", "process_engine_runtime">>
Databases == UserFolder \o <<"databases">>
StartedIn == <<"/", "opt">>

\* With and without each argument; paths that are absolute and relative.
AllArguments ==
  [sqlitePath : {Unset, <<"/", "data">>, <<"data">>},
   workDir : {Unset, <<"/", "work">>, <<"work">>},
   minimalSetup : {Unset, TRUE, FALSE}]

=============================================================================
