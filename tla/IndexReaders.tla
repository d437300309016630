------------------------------ MODULE IndexReaders ------------------------------
(***************************************************************************)
(* Readers of one semantic index beside its synchronization                *)
(* (services/semantic_search.py, services/semantic_resources.py and the    *)
(* transactions of repositories/semantic.py): which vectors a search may   *)
(* compare with each other while generations of the embedding model come   *)
(* and go.  A pipeline pins a generation; everything the owner remembers   *)
(* about compatibility belongs to one generation; the index records the    *)
(* model its rows were embedded with.                                      *)
(*                                                                         *)
(* A model stands for the fingerprint of its artifacts.  The files of one  *)
(* generation are hashed and loaded as the same files: whoever replaces    *)
(* them does so before the first use of a generation.                      *)
(***************************************************************************)
EXTENDS Naturals

CONSTANTS
    Queries,         \* threads that search
    IndexedNotes,    \* notes of the space
    MaxReleases,     \* bound: releases of the model
    MaxRuns          \* bound: synchronizations begun

(* The synchronizing thread is none of the searching ones. *)
ASSUME ReadersAssumption == "sync" \notin Queries

VARIABLES
    artifacts,  \* the model whose files are in the cache
    resource,   \* [gen, model, invalidating, pins]: SharedEmbeddingResource
    owner,      \* [gen, sig, evidence, initialized, available, failed, pending]
    index,      \* [sig, state, rows]: the committed database
    syncer,     \* [at, gen, todo, runs]: the synchronizing thread and its work
    query       \* [Queries -> ...]: locals of a search

readerVars == <<artifacts, resource, owner, index, syncer, query>>

Fingerprints == 1..2
NoRows == [n \in IndexedNotes |-> 0]
IdleQuery == [at |-> "idle", gen |-> 0, vector |-> 0, sig |-> 0, rows |-> NoRows]
Forgotten(gen) == [gen |-> gen, sig |-> 0, evidence |-> 0, initialized |-> FALSE,
                   available |-> FALSE, failed |-> FALSE, pending |-> FALSE]

(* A process starts over whatever an earlier process left in the database. *)
ReadersInit ==
    /\ artifacts \in Fingerprints
    /\ resource = [gen |-> 1, model |-> 0, invalidating |-> FALSE, pins |-> {}]
    /\ owner = Forgotten(0)
    /\ \E sig \in {0} \cup Fingerprints, state \in {"none", "ready", "indexing", "error"} :
          /\ sig = 0 => state = "none"
          /\ \E held \in SUBSET IndexedNotes :
                index = [sig |-> sig, state |-> state,
                         rows |-> [n \in IndexedNotes |-> IF n \in held THEN sig ELSE 0]]
    /\ syncer = [at |-> "idle", gen |-> 0, todo |-> {}, runs |-> 0]
    /\ query = [q \in Queries |-> IdleQuery]

-----------------------------------------------------------------------------
(* The embedding resource.                                                 *)
ReplaceArtifacts ==
    /\ artifacts' = 3 - artifacts
    /\ UNCHANGED <<resource, owner, index, syncer, query>>

(* The last pin of an invalidated generation releases its model. *)
ReleaseGeneration ==
    /\ resource.invalidating /\ resource.pins = {}
    /\ resource' = [gen |-> resource.gen + 1, model |-> 0, invalidating |-> FALSE, pins |-> {}]
    /\ UNCHANGED <<artifacts, owner, index, syncer, query>>

Loaded == IF resource.model = 0 THEN artifacts ELSE resource.model
Pinned(t) == [resource EXCEPT !.pins = @ \cup {t}]
Unpinned(t, r) == [r EXCEPT !.pins = @ \ {t}]
Failing(r) == [r EXCEPT !.invalidating = TRUE]
MayFail == resource.gen <= MaxReleases

(* _embedding_operation: what another generation left behind is forgotten. *)
RememberedSearch(o) == IF o.gen = resource.gen THEN o
                       ELSE [Forgotten(resource.gen) EXCEPT !.available = o.available]
Refreshed(o) == IF o.gen = resource.gen THEN o ELSE Forgotten(resource.gen)

Enters(t, expected) ==
    /\ ~resource.invalidating
    /\ expected \in {0, resource.gen}
    /\ ~Refreshed(owner).pending
    /\ resource' = Pinned(t)
    /\ owner' = Refreshed(owner)

-----------------------------------------------------------------------------
(* Synchronization.  A yielded continuation holds no pin.                  *)
SyncLeaves(r) ==
    /\ resource' = Unpinned("sync", r)
    /\ syncer' = [syncer EXCEPT !.at = "idle"]

BeginRun ==
    /\ syncer.at = "idle" /\ syncer.runs < MaxRuns
    /\ Enters("sync", 0)
    /\ syncer' = [syncer EXCEPT !.at = "resolving", !.runs = @ + 1]
    /\ UNCHANGED <<artifacts, index, query>>

(* _resolve_index_signature(persist_failure=True) *)
ResolveForRun ==
    /\ syncer.at = "resolving"
    /\ \/ /\ owner' = [owner EXCEPT !.sig = IF @ = 0 THEN Loaded ELSE @,
                                    !.failed = IF owner.sig = 0 THEN FALSE ELSE @]
          /\ resource' = IF owner.sig = 0 THEN [resource EXCEPT !.model = Loaded] ELSE resource
          /\ syncer' = [syncer EXCEPT !.at = "validating"]
          /\ UNCHANGED index
       \/ /\ owner.sig = 0 /\ MayFail
          /\ owner' = [owner EXCEPT !.failed = TRUE, !.available = FALSE]
          /\ index' = IF index.sig = 0 THEN index ELSE [index EXCEPT !.state = "error"]
          /\ SyncLeaves(Failing(resource))
    /\ UNCHANGED <<artifacts, query>>

(* One real inference before rows of another model are discarded. *)
ValidateBackend ==
    /\ syncer.at = "validating"
    /\ \/ /\ syncer' = [syncer EXCEPT !.at = "preparing"]
          /\ owner' = [owner EXCEPT !.failed = @ /\ (index.sig = owner.sig \/ index.rows = NoRows)]
          /\ UNCHANGED <<resource, index>>
       \/ /\ index.sig # owner.sig /\ index.rows # NoRows /\ MayFail
          /\ owner' = [owner EXCEPT !.pending = TRUE, !.evidence = 0, !.sig = 0, !.failed = TRUE,
                                    !.available = FALSE]
          /\ index' = [index EXCEPT !.state = "error"]
          /\ SyncLeaves(Failing(resource))
    /\ UNCHANGED <<artifacts, query>>

ResetRows(state) == [sig |-> owner.sig, state |-> state, rows |-> NoRows]
Recovers(state) ==
    CASE state = "none" -> IF index.rows # NoRows THEN "ready" ELSE "uninitialized"
      [] state = "indexing" -> "error"
      [] OTHER -> state

(* A rebuild resets; otherwise prepare_index drops the rows of another model. *)
PrepareRun ==
    /\ syncer.at = "preparing" /\ ~owner.pending
    /\ \E rebuild \in BOOLEAN :
          LET kept == IF rebuild THEN ResetRows("uninitialized")
                      ELSE IF owner.initialized THEN index
                      ELSE IF index.sig # owner.sig THEN ResetRows("uninitialized")
                      ELSE [index EXCEPT !.state = Recovers(@)]
          IN /\ index' = kept
             /\ owner' = [owner EXCEPT !.initialized = TRUE,
                                       !.available = (@ /\ ~rebuild) \/ kept.state = "ready"]
    /\ syncer' = [syncer EXCEPT !.at = "reserving"]
    /\ UNCHANGED <<artifacts, resource, query>>

ReserveRun ==
    /\ syncer.at = "reserving"
    /\ index' = [index EXCEPT !.state = "indexing"]
    /\ resource' = Unpinned("sync", resource)
    /\ syncer' = [syncer EXCEPT !.at = "yielded", !.gen = resource.gen, !.todo = IndexedNotes]
    /\ UNCHANGED <<artifacts, owner, query>>

(* sync_step: another generation, or a moved signature, fails the work. *)
ResumeRun ==
    /\ syncer.at = "yielded" /\ ~resource.invalidating
    /\ IF syncer.gen = resource.gen /\ ~Refreshed(owner).pending
       THEN Enters("sync", syncer.gen) /\ syncer' = [syncer EXCEPT !.at = "turn"] /\ UNCHANGED index
       ELSE /\ index' = [index EXCEPT !.state = "error"]
            /\ syncer' = [syncer EXCEPT !.at = "idle"]
            /\ UNCHANGED <<resource, owner>>
    /\ UNCHANGED <<artifacts, query>>

(* One batch; the embedding happens inside its transaction. *)
IndexNote(n) ==
    /\ syncer.at = "turn" /\ n \in syncer.todo
    /\ \E row \in {0, Loaded, index.rows[n]} : index' = [index EXCEPT !.rows[n] = row]
    /\ resource' = Unpinned("sync", [resource EXCEPT !.model = Loaded])
    /\ syncer' = [syncer EXCEPT !.at = "yielded", !.todo = @ \ {n}]
    /\ UNCHANGED <<artifacts, owner, query>>

FinishRun ==
    /\ syncer.at = "turn" /\ syncer.todo = {} /\ ~owner.pending
    /\ index' = [index EXCEPT !.state = "ready"]
    /\ owner' = [owner EXCEPT !.available = TRUE]
    /\ SyncLeaves(resource)
    /\ UNCHANGED <<artifacts, query>>

TurnFails ==
    /\ syncer.at = "turn"
    /\ index' \in {index, [index EXCEPT !.state = "error"]}
    /\ \E broken \in BOOLEAN : (broken => MayFail) /\ SyncLeaves(IF broken THEN Failing(resource) ELSE resource)
    /\ UNCHANGED <<artifacts, owner, query>>

-----------------------------------------------------------------------------
(* search().                                                               *)
Step(q, at) == query' = [query EXCEPT ![q].at = at]
Leaves(q, r) ==
    /\ resource' = Unpinned(q, r)
    /\ query' = [query EXCEPT ![q] = IdleQuery]

BeginSearch(q) ==
    /\ query[q].at = "idle"
    /\ Enters(q, 0)
    /\ query' = [query EXCEPT ![q].at = "asking"]
    /\ UNCHANGED <<artifacts, index, syncer>>

(* is_search_available; the first use of an owner resolves its signature. *)
Asks(q) ==
    /\ query[q].at = "asking"
    /\ IF owner.available
       THEN Step(q, "embedding") /\ UNCHANGED <<resource, owner>>
       ELSE \/ /\ owner.sig = 0 /\ MayFail
               /\ owner' = [owner EXCEPT !.failed = TRUE]
               /\ Leaves(q, Failing(resource))
            \/ LET sig == IF owner.sig = 0 THEN Loaded ELSE owner.sig
                   loading == IF owner.sig = 0 THEN [resource EXCEPT !.model = Loaded] ELSE resource
                   failed == owner.failed /\ owner.sig # 0
                   ready == ~failed /\ (owner.initialized \/ index.sig = sig)
                            /\ (index.state = "ready" \/ (index.state = "none" /\ index.rows # NoRows))
               IN /\ owner' = [owner EXCEPT !.sig = sig, !.failed = failed, !.available = ready]
                  /\ IF ready THEN resource' = loading /\ Step(q, "embedding") ELSE Leaves(q, loading)
    /\ UNCHANGED <<artifacts, index, syncer>>

EmbedsQuery(q) ==
    /\ query[q].at = "embedding"
    /\ \/ /\ query' = [query EXCEPT ![q].at = "loading", ![q].vector = Loaded]
          /\ resource' = [resource EXCEPT !.model = Loaded]
       \/ MayFail /\ Leaves(q, Failing(resource))
    /\ UNCHANGED <<artifacts, owner, index, syncer>>

(* One statement reads all rows; a pending invalidation refuses them. *)
LoadsChunks(q) ==
    /\ query[q].at = "loading"
    /\ IF owner.pending THEN Leaves(q, resource)
       ELSE query' = [query EXCEPT ![q].at = "ranking", ![q].rows = index.rows] /\ UNCHANGED resource
    /\ UNCHANGED <<artifacts, owner, index, syncer>>

Ranks(q) ==
    /\ query[q].at = "ranking"
    /\ Leaves(q, resource)
    /\ UNCHANGED <<artifacts, owner, index, syncer>>

-----------------------------------------------------------------------------
(* Federation: prepared under one pin, scored under a later one.           *)
BeginPrepare(q) ==
    /\ query[q].at = "idle"
    /\ Enters(q, 0)
    /\ IF owner'.failed THEN Step(q, "refused") ELSE Step(q, "reading")
    /\ UNCHANGED <<artifacts, index, syncer>>

RefusedSearch(q) ==
    /\ query[q].at = "refused"
    /\ Leaves(q, resource)
    /\ UNCHANGED <<artifacts, owner, index, syncer>>

(* read_eligible_snapshot: rows and metadata of one read transaction. *)
ReadsSnapshot(q) ==
    /\ query[q].at = "reading"
    /\ query' = [query EXCEPT ![q].rows = index.rows, ![q].sig = index.sig,
          ![q].at = IF index.state = "ready" \/ (index.state = "none" /\ index.rows # NoRows) THEN "comparing"
                    ELSE IF index.state \in {"indexing", "error"} THEN "previous" ELSE "refused"]
    /\ UNCHANGED <<artifacts, resource, owner, index, syncer>>

(* Evidence of the model against the signature of the snapshot. *)
Compares(q) ==
    /\ query[q].at \in {"comparing", "previous"}
    /\ \/ LET evidence == IF owner.evidence = 0 THEN Loaded ELSE owner.evidence
              loading == IF owner.evidence = 0 THEN [resource EXCEPT !.model = Loaded] ELSE resource
              agreed == query[q].sig = evidence /\ owner.sig \in {0, evidence}
                        /\ (query[q].at = "previous" => owner.available)
          IN IF owner.evidence = 0 /\ owner.pending THEN Leaves(q, loading) /\ UNCHANGED owner
             ELSE /\ owner' = [owner EXCEPT !.evidence = evidence]
                  /\ IF agreed
                     THEN /\ query' = [query EXCEPT ![q].at = "prepared", ![q].gen = resource.gen]
                          /\ resource' = Unpinned(q, loading)
                     ELSE Leaves(q, loading)
       \/ owner.evidence = 0 /\ MayFail /\ Leaves(q, Failing(resource)) /\ UNCHANGED owner
    /\ UNCHANGED <<artifacts, index, syncer>>

(* Scoring is admitted only under the generation it was prepared with. *)
BeginScoring(q) ==
    /\ query[q].at = "prepared" /\ ~resource.invalidating
    /\ IF query[q].gen = resource.gen /\ ~Refreshed(owner).pending
       THEN Enters(q, query[q].gen) /\ Step(q, IF owner'.failed THEN "refused" ELSE "scoring")
       ELSE query' = [query EXCEPT ![q] = IdleQuery] /\ UNCHANGED <<resource, owner>>
    /\ UNCHANGED <<artifacts, index, syncer>>

Scores(q) ==
    /\ query[q].at = "scoring"
    /\ \/ /\ resource' = [resource EXCEPT !.model = Loaded]
          /\ query' = [query EXCEPT ![q].vector = Loaded, ![q].at = IF owner.pending THEN "refused" ELSE "ranking"]
       \/ MayFail /\ Leaves(q, Failing(resource))
    /\ UNCHANGED <<artifacts, owner, index, syncer>>

-----------------------------------------------------------------------------
ReadersNext ==
    \/ ReplaceArtifacts \/ ReleaseGeneration
    \/ BeginRun \/ ResolveForRun \/ ValidateBackend \/ PrepareRun \/ ReserveRun
    \/ ResumeRun \/ FinishRun \/ TurnFails \/ \E n \in IndexedNotes : IndexNote(n)
    \/ \E q \in Queries :
          \/ BeginSearch(q) \/ Asks(q) \/ EmbedsQuery(q) \/ LoadsChunks(q) \/ Ranks(q)
          \/ BeginPrepare(q) \/ RefusedSearch(q) \/ ReadsSnapshot(q) \/ Compares(q)
          \/ BeginScoring(q) \/ Scores(q)

ReadersSpec == ReadersInit /\ [][ReadersNext]_readerVars

-----------------------------------------------------------------------------
(* However invalidations, restarted synchronizations and replaced models
   interleave with a search: the rows it ranks were embedded by the very model
   that embedded its query, and never outlive the index they came from with a
   signature of another model. *)
OneModelPerAnswer ==
    /\ \A q \in Queries : query[q].at = "ranking" =>
          \A n \in IndexedNotes : query[q].rows[n] \in {0, query[q].vector}
    /\ \A n \in IndexedNotes : index.rows[n] \in {0, index.sig}
=============================================================================
