--------------------------- MODULE MCTestSession ---------------------------
(***************************************************************************)
(* Instance of TestSession for TLC.                                        *)
(***************************************************************************)
EXTENDS TestSession

\* A file with an external task; then a file with two tests that share their
\* correlation, as those of boundary_event_signal_test.js do, the first one with
\* two tasks, as in parallel_gateway_test.js.
TestFiles ==
  <<[session |-> 1, kind |-> "end", tasks |-> 1, correlation |-> 1, model |-> "a"],
    [session |-> 2, kind |-> "direct", tasks |-> 2, correlation |-> 2, model |-> "a"],
    [session |-> 2, kind |-> "helper", tasks |-> 1, correlation |-> 2, model |-> "b"]>>

=============================================================================
