------------------------ MODULE MCDatabaseContainers ------------------------
(***************************************************************************)
(* Three invocations of one script, each with any command, one after the   *)
(* other or at the same time.  The loop's twenty repetitions are cut down. *)
(***************************************************************************)
EXTENDS DatabaseContainers

=============================================================================
