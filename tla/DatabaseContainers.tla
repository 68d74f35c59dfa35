------------------------- MODULE DatabaseContainers -------------------------
(***************************************************************************)
(* mysql_docker.js and postgres_docker.js: the scripts that start, stop    *)
(* and reset the database container of the integration tests.  Each call   *)
(* of a script is an invocation; nothing keeps two of them apart, so their *)
(* docker commands interleave.  docker may refuse any of them, and an      *)
(* invocation may be cut off.                                              *)
(*                                                                         *)
(* docker is external.  A storage is the data directory of a database      *)
(* server; it is named after the invocation whose docker run made it.  For *)
(* MySQL it is the named volume.  For Postgres it belongs to the container *)
(* (the named volume is mounted elsewhere, at /dbdata), and the image makes *)
(* the database by itself.                                                 *)
(***************************************************************************)
EXTENDS Naturals

CONSTANTS
  Calls,      \* the number of calls of the script
  maxRetries  \* of the loop that makes the database

ASSUME ContainersAssumption == Calls \in Nat /\ maxRetries \in Nat

\* Numbered in the order in which they begin.
Invocations == 1..Calls

\* No storage.
None == 0

VARIABLES
  server,    \* which of the two scripts it is; never changes
  status,    \* the container: "none", "stopped", "running"
  data,      \* its storage
  volume,    \* the storage of the named volume
  database,  \* storages that hold the database
  command,   \* [invocation -> its command]
  at,        \* [invocation -> the call it waits for, or how it ended]
  tries,     \* [invocation -> tryNumber]
  before     \* [reset -> the storages there were when it began]

docker == <<status, data, volume, database>>
vars == <<server, docker, command, at, tries, before>>

Commands == {"start", "stop", "restart", "reset"}

\* The docker commands, each awaited.
DockerCalls == {"start", "start existing", "docker start", "docker run",
                "create database", "stop", "docker stop", "clear", "docker rm",
                "volume", "docker volume rm"}
Ends == {"done", "failed", "cut"}

Init ==
  /\ server \in {"mysql", "postgres"}
  /\ status = "none" /\ data = None /\ volume = None /\ database = {}
  /\ command = [p \in Invocations |-> "none"]
  /\ at = [p \in Invocations |-> "idle"]
  /\ tries = [p \in Invocations |-> 0]
  /\ before = [p \in Invocations |-> {}]

Goto(p, call) ==
  /\ at' = [at EXCEPT ![p] = call]
  /\ UNCHANGED <<server, command, before>>

run(p) ==
  /\ at[p] = "idle"
  /\ \A q \in Invocations : q < p => at[q] # "idle"
  /\ \E c \in Commands :
       /\ command' = [command EXCEPT ![p] = c]
       /\ at' = [at EXCEPT ![p] = IF c = "start" THEN "start" ELSE "stop"]
       /\ before' = [before EXCEPT ![p] = IF c = "reset" THEN {data, volume} \ {None}
                                                         ELSE {}]
  /\ UNCHANGED <<server, docker, tries>>

-----------------------------------------------------------------------------
(* start                                                                   *)

getRunningBeforeStart(p) ==
  /\ at[p] = "start"
  /\ Goto(p, IF status = "running" THEN "done" ELSE "start existing")
  /\ UNCHANGED <<docker, tries>>

getExistingBeforeStart(p) ==
  /\ at[p] = "start existing"
  /\ Goto(p, IF status # "none" THEN "docker start" ELSE "docker run")
  /\ UNCHANGED <<docker, tries>>

dockerStart(p) ==
  /\ at[p] = "docker start"
  /\ status # "none"
  /\ status' = "running"
  /\ Goto(p, "done")
  /\ UNCHANGED <<data, volume, database, tries>>

\* createDbContainer.  A name is given to one container only.  The container
\* may be made and not run: the port is taken.
dockerRun(p) ==
  /\ at[p] = "docker run"
  /\ status = "none"
  /\ volume' = IF volume = None THEN p ELSE volume
  /\ data' = IF server = "mysql" THEN volume' ELSE p
  /\ database' = IF server = "mysql" THEN database ELSE database \union {p}
  /\ \/ /\ status' = "running"
        /\ Goto(p, IF server = "mysql" THEN "create database" ELSE "done")
     \/ /\ status' = "stopped"
        /\ Goto(p, "failed")
  /\ UNCHANGED tries

CreateDatabase(p) ==
  /\ at[p] = "create database"
  /\ status = "running"
  /\ database' = database \union {data}
  /\ Goto(p, "done")
  /\ UNCHANGED <<status, data, volume, tries>>

\* Defects for mutation: the last attempt is taken for one more that may be
\* repeated, so the loop ends as if the database were there; it is repeated;
\* tryNumber is not counted up.
createFailsUnnoticed(p) ==
  /\ at[p] = "create database"
  /\ tries' = [tries EXCEPT ![p] = @ + 1]
  /\ Goto(p, IF tries[p] >= maxRetries THEN "done" ELSE "create database")
  /\ UNCHANGED docker

createFailsOnceMore(p) ==
  /\ at[p] = "create database"
  /\ tries' = [tries EXCEPT ![p] = @ + 1]
  /\ Goto(p, IF tries[p] > maxRetries THEN "failed" ELSE "create database")
  /\ UNCHANGED docker

createFailsUncounted(p) ==
  /\ at[p] = "create database"
  /\ Goto(p, IF tries[p] >= maxRetries THEN "failed" ELSE "create database")
  /\ UNCHANGED <<docker, tries>>

\* The server does not answer yet, or there is none.
CreateFails(p) ==
  /\ at[p] = "create database"
  /\ tries' = [tries EXCEPT ![p] = @ + 1]
  /\ Goto(p, IF tries[p] >= maxRetries THEN "failed" ELSE "create database")
  /\ UNCHANGED docker

-----------------------------------------------------------------------------
(* stop, and what the commands do after it                                 *)

AfterStop(p) ==
  CASE command[p] = "reset" -> "clear"
    [] command[p] = "restart" -> "start"
    [] OTHER -> "done"

getRunningBeforeStop(p) ==
  /\ at[p] = "stop"
  /\ Goto(p, IF status = "running" THEN "docker stop" ELSE AfterStop(p))
  /\ UNCHANGED <<docker, tries>>

dockerStop(p) ==
  /\ at[p] = "docker stop"
  /\ status # "none"
  /\ status' = "stopped"
  /\ Goto(p, AfterStop(p))
  /\ UNCHANGED <<data, volume, database, tries>>

-----------------------------------------------------------------------------
(* clear                                                                   *)

\* Defect for mutation: the volume is kept.
keepVolume(p) ==
  /\ at[p] = "volume"
  /\ Goto(p, "start")
  /\ UNCHANGED <<docker, tries>>

getExistingBeforeClear(p) ==
  /\ at[p] = "clear"
  /\ Goto(p, IF status # "none" THEN "docker rm" ELSE "volume")
  /\ UNCHANGED <<docker, tries>>

\* A container that runs is not removed.
dockerRm(p) ==
  /\ at[p] = "docker rm"
  /\ status = "stopped"
  /\ status' = "none" /\ data' = None
  /\ Goto(p, "volume")
  /\ UNCHANGED <<volume, database, tries>>

getExistingVolume(p) ==
  /\ at[p] = "volume"
  /\ Goto(p, IF volume # None THEN "docker volume rm" ELSE "start")
  /\ UNCHANGED <<docker, tries>>

\* A volume that a container mounts, running or not, is not removed.
dockerVolumeRm(p) ==
  /\ at[p] = "docker volume rm"
  /\ status = "none" /\ volume # None
  /\ volume' = None
  /\ Goto(p, "start")
  /\ UNCHANGED <<status, data, database, tries>>

-----------------------------------------------------------------------------
(* What goes wrong                                                         *)

\* runCommand rejects, and run only logs it.
CallFails(p) ==
  /\ at[p] \in DockerCalls \ {"create database"}
  /\ Goto(p, "failed")
  /\ UNCHANGED <<docker, tries>>

CutOff(p) ==
  /\ at[p] \in DockerCalls
  /\ Goto(p, "cut")
  /\ UNCHANGED <<docker, tries>>

ContainerStops ==
  /\ status = "running"
  /\ status' = "stopped"
  /\ UNCHANGED <<server, data, volume, database, command, at, tries, before>>

-----------------------------------------------------------------------------
Step(p) ==
  \/ getRunningBeforeStart(p) \/ getExistingBeforeStart(p) \/ dockerStart(p)
  \/ dockerRun(p) \/ CreateDatabase(p) \/ CreateFails(p)
  \/ getRunningBeforeStop(p) \/ dockerStop(p)
  \/ getExistingBeforeClear(p) \/ dockerRm(p) \/ getExistingVolume(p)
  \/ dockerVolumeRm(p) \/ CallFails(p)

Next ==
  \/ \E p \in Invocations : run(p) \/ Step(p) \/ CutOff(p)
  \/ ContainerStops

Spec == Init /\ [][Next]_vars

\* exec calls back for every docker command, successful or not.
FairSpec == Spec /\ \A p \in Invocations : WF_vars(Step(p))

-----------------------------------------------------------------------------
(* Properties                                                              *)

TypeOK ==
  /\ server \in {"mysql", "postgres"}
  /\ status \in {"none", "stopped", "running"}
  /\ data \in Invocations \union {None} /\ volume \in Invocations \union {None}
  /\ database \subseteq Invocations
  /\ command \in [Invocations -> {"none"} \union Commands]
  /\ at \in [Invocations -> {"idle"} \union DockerCalls \union Ends]
  /\ tries \in [Invocations -> 0..(maxRetries + 1)]
  /\ before \in [Invocations -> SUBSET Invocations]

\* After a reset that reported success, no data is served any more that was
\* there when it began, whatever other invocations did in between (reset).
ResetIsFresh ==
  \A p \in Invocations :
    command[p] = "reset" /\ at[p] = "done" => data \notin before[p]

\* A container whose data directory has no database is one whose maker still
\* tries, gave up or was cut off: nobody reports success for it but those who
\* find it there (createDbContainer, start).
DatabaseUnlessAbandoned ==
  status # "none" /\ data \notin database =>
    at[data] \in {"create database", "failed", "cut"}

\* Every invocation that begins ends: the loop gives up at maxRetries.
CommandsEnd == <>[](\A p \in Invocations : at[p] \in {"idle"} \union Ends)

=============================================================================
