------------------------------- MODULE IndexStatus -------------------------------
(***************************************************************************)
(* What the reports on a stored index may claim while it changes: health,  *)
(* the availability probe, the inspections and the hygiene label of        *)
(* services/semantic_search.py, over the live and the immutable reads of   *)
(* repositories/semantic.py and the named inspection of                    *)
(* services/space_owners.py.                                               *)
(*                                                                         *)
(* One service writes; its connections come and go, and while one is open, *)
(* or was lost in a crash, sidecar files lie beside the database.  A live  *)
(* read takes one snapshot under SQLite's locks.  An immutable read takes  *)
(* none: it sees the pages of the main file alone, one after another, as   *)
(* the checkpoints of a writer leave them.  The operator may move the file *)
(* away or put another space's file in its place.                          *)
(***************************************************************************)
EXTENDS Naturals

CONSTANTS
    MaxCommits,    \* bound: transactions of the service
    MaxFileMoves,  \* bound: interventions of the operator
    MaxReports     \* bound: reports begun

(* Signatures: 1 and 2 differ in the model only, 3 in the configuration. *)
Resolvable == 1..2
Signatures == 0..3
Lifecycle == {"uninitialized", "indexing", "ready", "error"}

VARIABLES
    place,    \* the file at the path: 0 none, 1 our own, 2 another space's
    stored,   \* [meta, rows]: what the service's commits made of file 1
    pages,    \* the same, as the pages of the main file show it
    wal,      \* sidecar files: "none", "open" (a writer), "left" (by a crash)
    service,  \* [resolved, failed, initialized, available, bound]
    whole,    \* the signature of the last complete index that was not reset, 0 if none
    report,   \* the read in progress
    seen,     \* the claims that were true at some moment of that read
    spent     \* [commits, moves, reports]

statusVars == <<place, stored, pages, wal, service, whole, report, seen, spent>>

Meta(tables, sig, state) == [tables |-> tables, sig |-> sig, state |-> state]
Content(tables, sig, state, rows) == [meta |-> Meta(tables, sig, state), rows |-> rows]
Absent == Content(FALSE, 0, "none", FALSE)
Foreign == Content(TRUE, 1, "ready", TRUE)
NewService(bound) == [resolved |-> 0, failed |-> FALSE, initialized |-> FALSE,
                      available |-> FALSE, bound |-> bound]
NoReport == [at |-> "idle", live |-> FALSE, guard |-> "plain", before |-> 0, opened |-> 0,
             overtaken |-> FALSE, meta |-> Absent.meta, rows |-> FALSE, status |-> "none",
             claims |-> {}]

(* What an earlier process may have left: nothing, an index of either model or
   of another configuration, an old one without a state, or half of one. *)
StatusInit ==
    /\ place \in 0..1
    /\ stored \in IF place = 0 THEN {Absent}
                  ELSE {Absent, Content(TRUE, 1, "ready", TRUE), Content(TRUE, 3, "ready", TRUE),
                        Content(TRUE, 1, "none", TRUE), Content(TRUE, 2, "indexing", TRUE)}
    /\ pages = stored
    /\ wal = "none"
    /\ service = NewService(place)
    /\ whole = IF stored.meta.state \in {"ready", "none"} /\ stored.rows THEN stored.meta.sig ELSE 0
    /\ report = NoReport /\ seen = {}
    /\ spent = [commits |-> 0, moves |-> 0, reports |-> 0]

-----------------------------------------------------------------------------
(* The service and its writes.                                             *)
ResolveSignature ==
    /\ service.resolved = 0
    /\ service' \in {[service EXCEPT !.failed = TRUE, !.available = FALSE]} \cup
                    {[service EXCEPT !.failed = FALSE, !.resolved = s] : s \in Resolvable}
    /\ UNCHANGED <<place, stored, pages, wal, whole, report, spent>>

(* A generation of the model ends: what was known of compatibility goes. *)
ForgetSignature ==
    /\ service.resolved # 0 \/ service.failed
    /\ service' = NewService(service.bound)
    /\ UNCHANGED <<place, stored, pages, wal, whole, report, spent>>

Opens == wal = "none" \/ wal = "left"
OpenWriter ==
    /\ Opens /\ service.resolved # 0
    /\ place \in {1, service.bound}
    /\ place' = 1 /\ wal' = "open"
    /\ service' = [service EXCEPT !.bound = 1]
    /\ IF place = 0 THEN stored' = Absent /\ pages' = Absent /\ whole' = 0
                    ELSE UNCHANGED <<stored, pages, whole>>
    /\ UNCHANGED <<report, spent>>

Writes(content, complete) ==
    /\ wal = "open" /\ place = 1 /\ spent.commits < MaxCommits
    /\ stored' = content /\ whole' = complete
    /\ spent' = [spent EXCEPT !.commits = @ + 1]
    /\ UNCHANGED <<place, pages, wal, report>>

(* prepare_index: rows of another signature go, and the state with them. *)
PrepareIndex ==
    LET old == stored.meta
        changed == old.sig # service.resolved /\ (old.sig # 0 \/ stored.rows)
    IN /\ service.resolved # 0 /\ ~service.initialized
       /\ old.sig # service.resolved \/ ~old.tables
       /\ Writes(Content(TRUE, service.resolved, IF changed THEN "none" ELSE old.state,
                         stored.rows /\ ~changed),
                 IF changed THEN 0 ELSE whole)
       /\ UNCHANGED service

Reached(m, rows) == CASE m.state = "none" -> IF rows THEN "ready" ELSE "uninitialized"
                      [] m.state = "indexing" -> "error"
                      [] OTHER -> m.state

(* _initialize_state: an interrupted synchronization is an error from now on. *)
InitializeStored ==
    LET state == Reached(stored.meta, stored.rows)
    IN /\ ~service.initialized /\ service.resolved # 0
       /\ stored.meta.tables /\ stored.meta.sig = service.resolved
       /\ Writes(Content(TRUE, stored.meta.sig, state, stored.rows), whole)
       /\ service' = [service EXCEPT !.initialized = TRUE, !.available = @ \/ state = "ready"]

RebuildIndex ==
    /\ service.resolved # 0
    /\ Writes(Content(TRUE, service.resolved, "uninitialized", FALSE), 0)
    /\ service' = [service EXCEPT !.initialized = TRUE, !.available = FALSE]

Synchronize ==
    /\ service.initialized /\ stored.meta.sig = service.resolved
    /\ \/ /\ stored.meta.state # "indexing"
          /\ Writes([stored EXCEPT !.meta.state = "indexing"], whole)
          /\ UNCHANGED service
       \/ /\ stored.meta.state = "indexing"
          /\ \/ \E rows \in BOOLEAN \ {stored.rows} : Writes([stored EXCEPT !.rows = rows], whole)
             \/ Writes([stored EXCEPT !.meta.state = "error"], whole)
          /\ UNCHANGED service
       \/ /\ stored.meta.state = "indexing"
          /\ Writes([stored EXCEPT !.meta.state = "ready"], service.resolved)
          /\ service' = [service EXCEPT !.available = TRUE]

(* A checkpoint copies committed pages into the main file, in any order; the
   last connection to close completes it and removes the sidecars. *)
Checkpoint ==
    /\ wal = "open"
    /\ pages' \in {[pages EXCEPT !.meta = stored.meta], [pages EXCEPT !.rows = stored.rows]} \ {pages}
    /\ UNCHANGED <<place, stored, wal, service, whole, report, spent>>

CloseWriter ==
    /\ wal = "open" /\ wal' = "none" /\ pages' = stored
    /\ report' = [report EXCEPT !.overtaken = report.at # "idle"]
    /\ UNCHANGED <<place, stored, service, whole, spent>>

ServiceCrashes ==
    /\ service # NewService(place) /\ place # 2
    /\ service' = NewService(place)
    /\ wal' = IF wal = "open" THEN "left" ELSE wal
    /\ UNCHANGED <<place, stored, pages, whole, report, spent>>

MoveFile ==
    /\ wal = "none" /\ spent.moves < MaxFileMoves
    /\ place' \in (0..2) \ {place}
    /\ place' = 1 => stored # Absent
    /\ spent' = [spent EXCEPT !.moves = @ + 1]
    /\ UNCHANGED <<stored, pages, wal, service, whole, report>>

-----------------------------------------------------------------------------
(* Reads.  guard "plain" is a single vault's repository, "bound" one that is
   bound to its space and its storage, "inspect" the default space's
   inspection, which checks the namespace and the sidecars only.           *)
ReportGoes(next) ==
    /\ report' = next
    /\ UNCHANGED <<place, stored, pages, wal, service, whole, spent>>
Refused == [report EXCEPT !.at = "read", !.status = "error"]
NotThere == [report EXCEPT !.at = "read", !.status = "missing"]

BeginReport ==
    /\ report.at = "idle" /\ spent.reports < MaxReports
    /\ \E live \in BOOLEAN, guard \in {"plain", "bound", "inspect"} :
          /\ guard = "inspect" => ~live
          /\ report' = [NoReport EXCEPT !.at = "begun", !.live = live, !.guard = guard]
    /\ spent' = [spent EXCEPT !.reports = @ + 1]
    /\ UNCHANGED <<place, stored, pages, wal, service, whole>>

(* A plausible bug: sidecars are only looked for before an immutable read. *)
SidecarsQuietAtFirst == report.live \/ wal = "none" \/ report.at = "checking"

(* _binding_storage_identity, db_path.exists, _validated_target: first looks. *)
SidecarsQuiet == report.live \/ wal = "none"
Identified == service.bound = 0 \/ place = service.bound
Located == place # 0
FirstLook ==
    /\ report.at = "begun"
    /\ ReportGoes(IF ~SidecarsQuiet THEN Refused
               ELSE IF report.guard = "bound" /\ ~Identified THEN Refused
               ELSE IF ~Located THEN NotThere
               ELSE [report EXCEPT !.at = "found", !.before = place])

(* Opening the path again, BEGIN, the namespace keys and the metadata. *)
Namespace == report.guard = "plain" \/ place = 1
ReadMeta ==
    /\ report.at = "found"
    /\ IF place = 0 \/ ~Namespace THEN ReportGoes(Refused)
       ELSE LET file == IF place = 2 THEN Foreign ELSE IF report.live THEN stored ELSE pages
            IN ReportGoes([report EXCEPT !.at = IF report.live THEN "checking" ELSE "counting",
                                      !.meta = file.meta, !.rows = file.rows, !.opened = place])

(* The counts of an immutable read come from whatever the pages hold by then. *)
ReadRows ==
    /\ report.at = "counting"
    /\ ReportGoes([report EXCEPT !.at = "checking",
                              !.rows = IF report.opened = 2 THEN Foreign.rows ELSE pages.rows])

(* A bound read looks at the identity again, an immutable one at the sidecars. *)
UnchangedSince == report.guard = "bound" => place = report.before
LastLook ==
    /\ report.at = "checking"
    /\ ReportGoes(IF SidecarsQuiet /\ UnchangedSince THEN [report EXCEPT !.at = "read", !.status = "ok"]
               ELSE Refused)

-----------------------------------------------------------------------------
(* The reports, as functions of the status read and of the service's memory
   at that later time.                                                     *)
Readable == report.status = "ok" /\ report.meta.tables
PersistedReady == report.meta.state = "ready" \/ (report.meta.state = "none" /\ report.rows)
ConfigurationMatches == report.meta.sig \in Resolvable

(* _health_status_from_storage, with the probe's part apart. *)
HealthState ==
    IF report.status = "error" \/ service.failed THEN "error"
    ELSE IF ~(Readable /\ service.resolved # 0 /\ report.meta.sig = service.resolved)
         THEN "uninitialized"
    ELSE IF report.meta.state = "none" THEN IF report.rows THEN "ready" ELSE "uninitialized"
    ELSE IF report.meta.state = "indexing" /\ ~service.initialized THEN "error"
    ELSE report.meta.state
StoredAvailable(resolved) ==
    Readable /\ resolved # 0 /\ report.meta.sig = resolved /\ PersistedReady
ProbeAvailable ==
    /\ Readable /\ service.resolved # 0 /\ report.meta.sig = service.resolved
    /\ service.available \/ PersistedReady

(* inspect_hygiene_index *)
HygieneLabel(resolved) ==
    IF report.status = "error" THEN "storage_unavailable"
    ELSE IF report.status = "missing" THEN "missing"
    ELSE IF ~Readable \/ report.meta.sig = 0 THEN "invalid_metadata"
    ELSE IF ~ConfigurationMatches THEN "incompatible"
    ELSE IF resolved = 0 THEN "inspection_unavailable"
    ELSE IF report.meta.sig # resolved THEN "incompatible"
    ELSE IF PersistedReady THEN "compatible_ready"
    ELSE IF report.meta.state \in {"indexing", "error"} /\ report.rows THEN "inspection_unavailable"
    ELSE "invalid_metadata"

(* _inspection_from_storage: the model's fingerprint is not asked for. *)
InspectionAvailable == Readable /\ ConfigurationMatches /\ PersistedReady

(* The claims a caller acts on.  An immutable read may serve another process,
   whose knowledge of the signature is its own. *)
Claims ==
    LET mine(kind, holds) == IF holds THEN {<<kind, report.meta.sig>>} ELSE {}
    IN IF report.live
       THEN mine("ready", HealthState = "ready") \cup mine("kept", ProbeAvailable)
            \cup mine("ready", InspectionAvailable)
            \cup (IF report.status = "missing" THEN {<<"missing", 0>>} ELSE {})
       ELSE UNION {mine("ready", HygieneLabel(r) = "compatible_ready")
                   \cup mine("ready", StoredAvailable(r))
                   \cup (IF HygieneLabel(r) = "missing" THEN {<<"missing", 0>>} ELSE {})
                   : r \in {0} \cup Resolvable}

MakeReport ==
    /\ report.at = "read"
    /\ ReportGoes([report EXCEPT !.at = "made", !.claims = Claims])

EndReport ==
    /\ report.at = "made" /\ ReportGoes(NoReport)

StatusStep ==
    \/ ResolveSignature \/ ForgetSignature \/ OpenWriter \/ PrepareIndex \/ InitializeStored
    \/ RebuildIndex \/ Synchronize \/ Checkpoint \/ CloseWriter \/ ServiceCrashes \/ MoveFile
    \/ BeginReport \/ FirstLook \/ ReadMeta \/ ReadRows \/ LastLook \/ MakeReport \/ EndReport

(* What is true of the file at the path, for a reader that does or does not
   tell its own space's file from another's. *)
Truth ==
    LET own == place = 1 \/ (place = 2 /\ report.guard = "plain")
        file == IF place = 2 THEN Foreign ELSE stored
        complete == IF place = 2 THEN Foreign.meta.sig ELSE whole
        ready == own /\ (file.meta.state = "ready" \/ (file.meta.state = "none" /\ file.rows))
    IN (IF ready THEN {<<"ready", file.meta.sig>>} ELSE {})
       \cup (IF ready \/ (own /\ complete = file.meta.sig) THEN {<<"kept", file.meta.sig>>} ELSE {})
       \cup (IF place = 0 THEN {<<"missing", 0>>} ELSE {})

StatusNext ==
    /\ StatusStep
    /\ seen' = IF report'.at = "idle" THEN {}
               ELSE IF report.at = "idle" THEN Truth' ELSE seen \cup Truth'

StatusSpec == StatusInit /\ [][StatusNext]_statusVars

-----------------------------------------------------------------------------
(* Whatever the writer, a crash or the operator does during the read: a report
   that an index is ready or searchable, or that none exists, was true of this
   reader's own index at some moment of the call.  Immutable reads owe this
   unless a writer came and went within the call. *)
ReportsHonest ==
    report.at = "made" /\ (report.live \/ ~report.overtaken) => report.claims \subseteq seen
=============================================================================
