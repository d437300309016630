------------------------ MODULE MCSemanticScheduler ------------------------
(* TLC instance of SemanticScheduler.                                      *)
EXTENDS SemanticScheduler, TLC

\* The scheduler without a filesystem watcher: owners that share the global
\* reservations are triggered by submissions and full requests alone.
UnwatchedSpec ==
    /\ Init /\ [][Next /\ watching' = "off"]_vars
    /\ WF_vars(Worker) /\ WF_vars(Closing)

PathSymmetry == Permutations(Paths)
=============================================================================
