-------------------------- MODULE MCRuntimeStartup --------------------------
(***************************************************************************)
(* Instances of RuntimeStartup for TLC.                                    *)
(***************************************************************************)
EXTENDS RuntimeStartup, TLC

\* Two repositories, the first one with two scripts.
TwoRepositories == <<"correlation", "process_model">>
Scripts == "correlation" :> 2 @@ "process_model" :> 1

=============================================================================
