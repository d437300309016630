------------------------------- MODULE MCIndexing -------------------------------
(***************************************************************************)
(* Model values and bounds for the components that keep and read a         *)
(* space's index.  They share no state here, so TLC explores them one      *)
(* after the other: "part" names the component explored from an initial    *)
(* state, and the others rest.                                             *)
(***************************************************************************)
EXTENDS SyncOwner, WatcherCoverage, SemanticStore, IndexReaders, IndexStatus

VARIABLE part

indexingVars == <<syncVars, coverageVars, storeVars, readerVars, statusVars>>

(* Two repositories of two spaces, configured with one path. *)
TwoSpaces == [r \in Repositories |-> IF r = "r1" THEN "s1" ELSE "s2"]

(* Bounds: changes of the vault with restarts, incidents with the watchers they
   befall, and transactions with moves of the file. *)
MaxDisturbances == 2
MaxIncidentsAndWatchers == 3
MaxCommitsAndMoves == 2

-----------------------------------------------------------------------------
(* A component that rests starts from one of its initial states. *)
Init ==
    /\ part \in {"synchronization", "coverage", "store", "readers", "status"}
    /\ SyncInit /\ CoverageInit /\ StoreInit
    /\ part # "readers" =>
          artifacts = 1 /\ index = [sig |-> 0, state |-> "none", rows |-> NoRows]
    /\ ReadersInit
    /\ part # "status" => place = 0 /\ stored = Absent
    /\ StatusInit

Next ==
    \/ /\ part = "synchronization" /\ SyncNext
       /\ past'.changes + past'.restarts <= MaxDisturbances
       /\ UNCHANGED <<part, coverageVars, storeVars, readerVars, statusVars>>
    \/ /\ part = "coverage" /\ CoverageNext
       /\ (Incidents + watcher.generations)' <= MaxIncidentsAndWatchers
       /\ UNCHANGED <<part, syncVars, storeVars, readerVars, statusVars>>
    \/ /\ part = "store" /\ StoreNext
       /\ UNCHANGED <<part, syncVars, coverageVars, readerVars, statusVars>>
    \/ /\ part = "readers" /\ ReadersNext
       /\ UNCHANGED <<part, syncVars, coverageVars, storeVars, statusVars>>
    \/ /\ part = "status" /\ StatusNext
       /\ spent'.commits + spent'.moves <= MaxCommitsAndMoves
       /\ UNCHANGED <<part, syncVars, coverageVars, storeVars, readerVars>>

Spec == Init /\ [][Next]_<<part, indexingVars>>
=============================================================================
