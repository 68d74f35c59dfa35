---------------------- MODULE DatabaseContainersProofs ----------------------
(***************************************************************************)
(* For any number of invocations and retries: the types, that a reset is   *)
(* fresh, and that a database server without its database is one whose     *)
(* maker did not succeed.                                                  *)
(***************************************************************************)
EXTENDS DatabaseContainers, TLAPS

\* Where an invocation is once its docker run has made a storage.
AfterRun == {"create database"} \union Ends

\* Where a reset is once the old container is gone, and the old volume.
NoOldVolume == {"start", "start existing", "docker start", "docker run",
                "create database", "done"}
NoOldContainer == {"volume", "docker volume rm"} \union NoOldVolume

\* A container has one storage; with MySQL, that of the named volume.
DataInv ==
  /\ status = "none" <=> data = None
  /\ server = "mysql" /\ status # "none" => data = volume

\* A storage is only there after the docker run of its invocation.
MadeInv ==
  /\ data # None => at[data] \in AfterRun
  /\ volume # None => at[volume] \in AfterRun
  /\ \A p \in Invocations : \A s \in before[p] : at[s] \in AfterRun

\* A reset leaves the old storage behind: with Postgres it goes with the
\* container, with MySQL with the volume.
ResetInv ==
  \A p \in Invocations : command[p] = "reset" =>
    /\ server = "postgres" /\ at[p] \in NoOldContainer => data \notin before[p]
    /\ server = "mysql" /\ at[p] \in NoOldVolume => volume \notin before[p]

\* A storage that a container uses or may use again has the database, or its
\* maker did not succeed.
DatabaseInv ==
  /\ server = "postgres" /\ data # None => data \in database
  /\ server = "mysql" /\ volume # None /\ volume \notin database =>
       at[volume] \in {"create database", "failed", "cut"}

\* The loop that goes on has attempts left.
TriesInv == \A p \in Invocations : at[p] \notin Ends => tries[p] <= maxRetries

IInv == TypeOK /\ TriesInv /\ DataInv /\ MadeInv /\ ResetInv /\ DatabaseInv

-----------------------------------------------------------------------------
\* Without a container, a volume or an invocation there is nothing to keep.
LEMMA InitHolds == Init => IInv
BY ContainersAssumption DEF Init, IInv, TypeOK, TriesInv, DataInv, MadeInv, ResetInv,
   DatabaseInv, None, Invocations, Commands, DockerCalls, Ends, NoOldContainer,
   NoOldVolume

\* One more failed attempt of a loop that goes on.
LEMMA OneMore ==
  \A m \in Nat : \A t \in 0..(m + 1) :
    /\ t <= m => t + 1 \in 0..(m + 1)
    /\ ~(t >= m) => t + 1 <= m
OBVIOUS

\* Each step keeps the types.
LEMMA TypeHolds ==
  TypeOK /\ TriesInv /\ DataInv /\ [Next]_vars => (TypeOK /\ TriesInv)'
<1> SUFFICES ASSUME TypeOK, TriesInv, DataInv, [Next]_vars
             PROVE  (TypeOK /\ TriesInv)'
  OBVIOUS
<1> USE ContainersAssumption DEF TypeOK, TriesInv, Goto, docker, Commands, DockerCalls,
        Ends, AfterStop, None
<1>0. maxRetries \in Nat
  BY ContainersAssumption
<1>1. ASSUME NEW p \in Invocations, run(p) PROVE (TypeOK /\ TriesInv)'
  <2>1. PICK c \in Commands :
          /\ command' = [command EXCEPT ![p] = c]
          /\ at' = [at EXCEPT ![p] = IF c = "start" THEN "start" ELSE "stop"]
          /\ before' = [before EXCEPT ![p] = IF c = "reset" THEN {data, volume} \ {None}
                                                            ELSE {}]
    BY <1>1 DEF run
  <2>2. before' \in [Invocations -> SUBSET Invocations]
    <3>1. (IF c = "reset" THEN {data, volume} \ {None} ELSE {}) \in SUBSET Invocations
      OBVIOUS
    <3> QED
      BY <2>1, <3>1
  <2>3. command' \in [Invocations -> {"none"} \union Commands]
    BY <2>1
  <2>4. at' \in [Invocations -> {"idle"} \union DockerCalls \union Ends]
    BY <2>1
  <2>5. /\ at[p] = "idle"
        /\ UNCHANGED <<server, status, data, volume, database, tries>>
    BY <1>1 DEF run
  <2>6. TypeOK'
    BY <2>2, <2>3, <2>4, <2>5
  <2>7. TriesInv'
    BY <2>1, <2>5
  <2> QED
    BY <2>6, <2>7
<1>2. ASSUME NEW p \in Invocations, getRunningBeforeStart(p) PROVE (TypeOK /\ TriesInv)'
  BY <1>2 DEF getRunningBeforeStart
<1>3. ASSUME NEW p \in Invocations, getExistingBeforeStart(p) PROVE (TypeOK /\ TriesInv)'
  BY <1>3 DEF getExistingBeforeStart
<1>4. ASSUME NEW p \in Invocations, dockerStart(p) PROVE (TypeOK /\ TriesInv)'
  BY <1>4 DEF dockerStart
<1>5. ASSUME NEW p \in Invocations, dockerRun(p) PROVE (TypeOK /\ TriesInv)'
  BY <1>5 DEF dockerRun
<1>6. ASSUME NEW p \in Invocations, CreateDatabase(p) PROVE (TypeOK /\ TriesInv)'
  BY <1>6 DEF CreateDatabase, DataInv
<1>7. ASSUME NEW p \in Invocations, CreateFails(p) PROVE (TypeOK /\ TriesInv)'
  <2>1. tries[p] \in 0..(maxRetries + 1) /\ tries[p] <= maxRetries
    <3>1. at[p] \notin Ends
      BY <1>7 DEF CreateFails
    <3>2. tries[p] \in 0..(maxRetries + 1)
      OBVIOUS
    <3>3. tries[p] <= maxRetries
      BY <3>1, Zenon
    <3> QED
      BY <3>2, <3>3, Zenon
  <2>2. tries[p] + 1 \in 0..(maxRetries + 1)
    BY <1>0, <2>1, OneMore, Zenon
  <2>3. tries' \in [Invocations -> 0..(maxRetries + 1)]
    BY <1>7, <2>2 DEF CreateFails
  <2>4. TypeOK'
    BY <1>7, <2>3 DEF CreateFails
  <2>5. TriesInv'
    <3> SUFFICES ASSUME NEW q \in Invocations, at'[q] \notin Ends
                 PROVE  tries'[q] <= maxRetries
      OBVIOUS
    <3>1. CASE q = p
      <4>1. ~(tries[p] >= maxRetries)
        <5>1. at'[p] = IF tries[p] >= maxRetries THEN "failed" ELSE "create database"
          BY <1>7 DEF CreateFails
        <5> QED
          BY <3>1, <5>1
      <4>2. tries'[p] = tries[p] + 1
        BY <1>7 DEF CreateFails
      <4>3. tries[p] + 1 <= maxRetries
        BY <1>0, <2>1, <4>1, OneMore, Zenon
      <4> QED
        BY <3>1, <4>2, <4>3, Zenon
    <3>2. CASE q # p
      BY <1>7, <3>2 DEF CreateFails
    <3> QED
      BY <3>1, <3>2
  <2> QED
    BY <2>4, <2>5
<1>8. ASSUME NEW p \in Invocations, getRunningBeforeStop(p) PROVE (TypeOK /\ TriesInv)'
  BY <1>8 DEF getRunningBeforeStop
<1>9. ASSUME NEW p \in Invocations, dockerStop(p) PROVE (TypeOK /\ TriesInv)'
  BY <1>9 DEF dockerStop
<1>10. ASSUME NEW p \in Invocations, getExistingBeforeClear(p) PROVE (TypeOK /\ TriesInv)'
  BY <1>10 DEF getExistingBeforeClear
<1>11. ASSUME NEW p \in Invocations, dockerRm(p) PROVE (TypeOK /\ TriesInv)'
  BY <1>11 DEF dockerRm
<1>12. ASSUME NEW p \in Invocations, getExistingVolume(p) PROVE (TypeOK /\ TriesInv)'
  BY <1>12 DEF getExistingVolume
<1>13. ASSUME NEW p \in Invocations, dockerVolumeRm(p) PROVE (TypeOK /\ TriesInv)'
  BY <1>13 DEF dockerVolumeRm
<1>14. ASSUME NEW p \in Invocations, CallFails(p) \/ CutOff(p) PROVE (TypeOK /\ TriesInv)'
  BY <1>14 DEF CallFails, CutOff
<1>15. ContainerStops \/ UNCHANGED vars => (TypeOK /\ TriesInv)'
  BY DEF ContainerStops, vars
<1> QED
  BY <1>1, <1>2, <1>3, <1>4, <1>5, <1>6, <1>7, <1>8, <1>9, <1>10, <1>11, <1>12,
     <1>13, <1>14, <1>15 DEF Next, Step

-----------------------------------------------------------------------------
Parts == DataInv /\ MadeInv /\ ResetInv /\ DatabaseInv

\* The value that stands for no invocation is none of them.
LEMMA NoneIsNoInvocation == None \notin Invocations
BY DEF None, Invocations

\* Each step keeps the rest.
LEMMA PartsHold == IInv /\ [Next]_vars => Parts'
<1> SUFFICES ASSUME IInv, [Next]_vars PROVE Parts'
  OBVIOUS
<1> USE NoneIsNoInvocation DEF IInv, TypeOK, Parts, DataInv, MadeInv, ResetInv, DatabaseInv, Goto, docker,
        Commands, DockerCalls, Ends, AfterStop, AfterRun,
        NoOldVolume, NoOldContainer
<1>1. ASSUME NEW p \in Invocations, run(p) PROVE Parts'
  <2>1. PICK c \in Commands :
          /\ command' = [command EXCEPT ![p] = c]
          /\ at' = [at EXCEPT ![p] = IF c = "start" THEN "start" ELSE "stop"]
          /\ before' = [before EXCEPT ![p] = IF c = "reset" THEN {data, volume} \ {None}
                                                            ELSE {}]
    BY <1>1 DEF run
  <2>2. /\ at[p] = "idle"
        /\ UNCHANGED <<server, status, data, volume, database>>
    BY <1>1 DEF run
  <2>3. \A q \in Invocations \ {p} :
          at'[q] = at[q] /\ before'[q] = before[q] /\ command'[q] = command[q]
    BY <2>1
  <2>4. /\ command'[p] = c
        /\ at'[p] = IF c = "start" THEN "start" ELSE "stop"
        /\ before'[p] = IF c = "reset" THEN {data, volume} \ {None} ELSE {}
    BY <2>1
  <2>5. DataInv' /\ DatabaseInv'
    BY <2>2, <2>3
  <2>6. MadeInv'
    <3>1. \A q \in Invocations : at[q] \in AfterRun => at'[q] = at[q]
      BY <2>2, <2>3
    <3>2. ASSUME NEW q \in Invocations, NEW s \in before'[q] PROVE at'[s] \in AfterRun
      <4>1. CASE q = p
        <5>1. s \in {data, volume} \ {None}
          BY <2>4, <3>2, <4>1
        <5>2. s \in Invocations /\ at[s] \in AfterRun
          BY <5>1
        <5> QED
          BY <3>1, <5>2
      <4>2. CASE q # p
        BY <2>3, <3>1, <3>2, <4>2
      <4> QED
        BY <4>1, <4>2
    <3>3. /\ data # None => at'[data] \in AfterRun
          /\ volume # None => at'[volume] \in AfterRun
      BY <3>1
    <3> QED
      BY <2>2, <3>2, <3>3
  <2>7. ResetInv'
    BY <2>2, <2>3, <2>4
  <2> QED
    BY <2>5, <2>6, <2>7
<1>2. ASSUME NEW p \in Invocations, getRunningBeforeStart(p) PROVE Parts'
  BY <1>2 DEF getRunningBeforeStart
<1>3. ASSUME NEW p \in Invocations, getExistingBeforeStart(p) PROVE Parts'
  BY <1>3 DEF getExistingBeforeStart
<1>4. ASSUME NEW p \in Invocations, dockerStart(p) PROVE Parts'
  BY <1>4 DEF dockerStart
<1>5. ASSUME NEW p \in Invocations, dockerRun(p) PROVE Parts'
  <2>1. DataInv'
    BY <1>5 DEF dockerRun
  <2>2. MadeInv'
    <3>1. \A q \in Invocations : at[q] \in AfterRun => at'[q] = at[q]
      BY <1>5 DEF dockerRun
    <3>2. at'[p] \in AfterRun /\ before' = before
      BY <1>5 DEF dockerRun
    <3>3. volume' \in {volume, p} /\ data' \in {volume, p}
      BY <1>5 DEF dockerRun
    <3> QED
      BY <3>1, <3>2, <3>3
  <2>3. ResetInv'
    BY <1>5 DEF dockerRun
  <2>4. DatabaseInv'
    BY <1>5 DEF dockerRun
  <2> QED
    BY <2>1, <2>2, <2>3, <2>4
<1>6. ASSUME NEW p \in Invocations, CreateDatabase(p) PROVE Parts'
  BY <1>6 DEF CreateDatabase
<1>7. ASSUME NEW p \in Invocations, CreateFails(p) PROVE Parts'
  BY <1>7 DEF CreateFails
<1>8. ASSUME NEW p \in Invocations, getRunningBeforeStop(p) PROVE Parts'
  BY <1>8 DEF getRunningBeforeStop
<1>9. ASSUME NEW p \in Invocations, dockerStop(p) PROVE Parts'
  BY <1>9 DEF dockerStop
<1>10. ASSUME NEW p \in Invocations, getExistingBeforeClear(p) PROVE Parts'
  <2>1. DataInv'
    BY <1>10 DEF getExistingBeforeClear
  <2>2. MadeInv'
    BY <1>10 DEF getExistingBeforeClear
  <2>3. ResetInv'
    <3> SUFFICES ASSUME NEW q \in Invocations, command'[q] = "reset"
                 PROVE  /\ server' = "postgres" /\ at'[q] \in NoOldContainer =>
                             data' \notin before'[q]
                        /\ server' = "mysql" /\ at'[q] \in NoOldVolume =>
                             volume' \notin before'[q]
      OBVIOUS
    <3>1. CASE q = p
      BY <1>10, <3>1 DEF getExistingBeforeClear
    <3>2. CASE q # p
      BY <1>10, <3>2 DEF getExistingBeforeClear
    <3> QED
      BY <3>1, <3>2
  <2>4. DatabaseInv'
    BY <1>10 DEF getExistingBeforeClear
  <2> QED
    BY <2>1, <2>2, <2>3, <2>4
<1>11. ASSUME NEW p \in Invocations, dockerRm(p) PROVE Parts'
  <2>1. DataInv'
    BY <1>11 DEF dockerRm
  <2>2. MadeInv'
    BY <1>11 DEF dockerRm
  <2>3. ResetInv'
    <3> SUFFICES ASSUME NEW q \in Invocations, command'[q] = "reset"
                 PROVE  /\ server' = "postgres" /\ at'[q] \in NoOldContainer =>
                             data' \notin before'[q]
                        /\ server' = "mysql" /\ at'[q] \in NoOldVolume =>
                             volume' \notin before'[q]
      OBVIOUS
    <3>1. CASE q = p
      BY <1>11, <3>1 DEF dockerRm
    <3>2. CASE q # p
      BY <1>11, <3>2 DEF dockerRm
    <3> QED
      BY <3>1, <3>2
  <2>4. DatabaseInv'
    BY <1>11 DEF dockerRm
  <2> QED
    BY <2>1, <2>2, <2>3, <2>4
<1>12. ASSUME NEW p \in Invocations, getExistingVolume(p) PROVE Parts'
  <2>1. DataInv'
    BY <1>12 DEF getExistingVolume
  <2>2. MadeInv'
    BY <1>12 DEF getExistingVolume
  <2>3. ResetInv'
    <3> SUFFICES ASSUME NEW q \in Invocations, command'[q] = "reset"
                 PROVE  /\ server' = "postgres" /\ at'[q] \in NoOldContainer =>
                             data' \notin before'[q]
                        /\ server' = "mysql" /\ at'[q] \in NoOldVolume =>
                             volume' \notin before'[q]
      OBVIOUS
    <3>1. CASE q = p
      BY <1>12, <3>1 DEF getExistingVolume
    <3>2. CASE q # p
      BY <1>12, <3>2 DEF getExistingVolume
    <3> QED
      BY <3>1, <3>2
  <2>4. DatabaseInv'
    BY <1>12 DEF getExistingVolume
  <2> QED
    BY <2>1, <2>2, <2>3, <2>4
<1>13. ASSUME NEW p \in Invocations, dockerVolumeRm(p) PROVE Parts'
  <2>1. DataInv'
    BY <1>13 DEF dockerVolumeRm
  <2>2. MadeInv'
    BY <1>13 DEF dockerVolumeRm
  <2>3. ResetInv'
    <3> SUFFICES ASSUME NEW q \in Invocations, command'[q] = "reset"
                 PROVE  /\ server' = "postgres" /\ at'[q] \in NoOldContainer =>
                             data' \notin before'[q]
                        /\ server' = "mysql" /\ at'[q] \in NoOldVolume =>
                             volume' \notin before'[q]
      OBVIOUS
    <3>1. CASE q = p
      BY <1>13, <3>1 DEF dockerVolumeRm
    <3>2. CASE q # p
      BY <1>13, <3>2 DEF dockerVolumeRm
    <3> QED
      BY <3>1, <3>2
  <2>4. DatabaseInv'
    BY <1>13 DEF dockerVolumeRm
  <2> QED
    BY <2>1, <2>2, <2>3, <2>4
<1>14. ASSUME NEW p \in Invocations, CallFails(p) PROVE Parts'
  BY <1>14 DEF CallFails
<1>15. ASSUME NEW p \in Invocations, CutOff(p) PROVE Parts'
  BY <1>15 DEF CutOff
<1>16. ContainerStops \/ UNCHANGED vars => Parts'
  BY DEF ContainerStops, vars
<1> QED
  BY <1>1, <1>2, <1>3, <1>4, <1>5, <1>6, <1>7, <1>8, <1>9, <1>10, <1>11, <1>12,
     <1>13, <1>14, <1>15, <1>16 DEF Next, Step

-----------------------------------------------------------------------------
\* What the storages and the database of a container owe to the invocations, at
\* every docker command of any number of them (mysql_docker.js, postgres_docker.js).
THEOREM InductiveInvariant == Spec => []IInv
<1>1. IInv /\ [Next]_vars => IInv'
  BY TypeHolds, PartsHold DEF IInv, Parts
<1> QED
  BY InitHolds, <1>1, PTL DEF Spec

\* The types (all of mysql_docker.js and postgres_docker.js).
THEOREM TypeCorrect == Spec => []TypeOK
<1>1. IInv => TypeOK
  BY DEF IInv
<1> QED
  BY InductiveInvariant, <1>1, PTL

\* A reset that reported success has left no data behind that was there when it
\* began (reset, clear).
THEOREM ResetsAreFresh == Spec => []ResetIsFresh
<1>1. IInv => ResetIsFresh
  <2> SUFFICES ASSUME IInv, NEW p \in Invocations,
                      command[p] = "reset", at[p] = "done"
               PROVE  data \notin before[p]
    BY DEF ResetIsFresh
  <2>1. CASE server = "postgres"
    BY <2>1 DEF IInv, ResetInv, NoOldContainer, NoOldVolume
  <2>2. CASE server = "mysql"
    BY <2>2, NoneIsNoInvocation DEF IInv, TypeOK, ResetInv, DataInv, NoOldVolume
  <2> QED
    BY <2>1, <2>2 DEF IInv, TypeOK
<1> QED
  BY InductiveInvariant, <1>1, PTL

\* A container without the database is one whose maker did not succeed
\* (createDbContainer).
THEOREM DatabasesUnlessAbandoned == Spec => []DatabaseUnlessAbandoned
<1>1. IInv => DatabaseUnlessAbandoned
  BY DEF IInv, TypeOK, DataInv, DatabaseInv, DatabaseUnlessAbandoned
<1> QED
  BY InductiveInvariant, <1>1, PTL

=============================================================================
