----------------------------- MODULE SemanticStore -----------------------------
(***************************************************************************)
(* The writable connections of repositories/semantic.py to a database file *)
(* that belongs to one knowledge space (repositories/semantic_binding.py): *)
(* exclusive creation, the namespace keys, revalidation under the writer's *)
(* lock and before commit, disposal with retained ownership, and removal   *)
(* of a file that was created but never written.                           *)
(*                                                                         *)
(* Several repositories use one path, as after a mistake in the            *)
(* configuration or over successive processes; the operator moves files    *)
(* away, restores backups and puts older databases in place at any time.   *)
(***************************************************************************)
EXTENDS Naturals, FiniteSets

CONSTANTS
    Repositories,  \* repository objects
    SpaceOf,       \* SpaceOf[r]: the space repository r is bound to
    MaxFiles,      \* bound: files that ever exist at the path
    MaxMoves       \* bound: interventions of the operator

FileIds == 1..MaxFiles
Spaces == {SpaceOf[r] : r \in Repositories}

(* The words for what a file may be are no names of spaces, those for who
   holds or made it no names of repositories. *)
ASSUME NamesApart ==
    /\ MaxFiles \in Nat /\ MaxMoves \in Nat
    /\ {"nobody", "operator"} \cap Repositories = {}
    /\ {"absent", "empty", "unbound"} \cap Spaces = {}

VARIABLES
    path,       \* the file at db_path, 0 if none
    files,      \* [kind, rows, by, lock]: kind is "empty", "unbound" or a space
    repo,       \* per repository: its attempt and its memory of the file
    moves,      \* interventions so far
    destroyed   \* files a repository unlinked

storeVars == <<path, files, repo, moves, destroyed>>

NoFile == [kind |-> "absent", rows |-> {}, by |-> "nobody", lock |-> "nobody"]
IdleRepo(bound) == [at |-> "idle", before |-> 0, opened |-> 0, created |-> FALSE,
                    committed |-> FALSE, bound |-> bound]

StoreInit ==
    /\ path = 0 /\ files = [f \in FileIds |-> NoFile]
    /\ repo = [r \in Repositories |-> IdleRepo(0)]
    /\ moves = 0 /\ destroyed = {}

-----------------------------------------------------------------------------
Unused == {f \in FileIds : files[f].kind = "absent"}

(* The operator puts another file, or none, at the path. *)
Intervene ==
    /\ moves < MaxMoves /\ moves' = moves + 1
    /\ \/ path' \in {0} \cup (FileIds \ (Unused \cup destroyed \cup {path})) /\ files' = files
       \/ \E f \in Unused, kind \in {"unbound"} \cup Spaces :
             /\ path' = f
             /\ \E rows \in {{}, {kind}} :
                   files' = [files EXCEPT ![f] = [NoFile EXCEPT !.kind = kind, !.rows = rows, !.by = "operator"]]
    /\ UNCHANGED <<repo, destroyed>>

Goes(r, at) == repo' = [repo EXCEPT ![r].at = at]

(* validate_binding: keys of this space, or none in a recognized empty store. *)
UnboundEmpty(f) == files[f].kind = "unbound" /\ files[f].rows = {}
AcceptsAnyUnbound(r, f) == files[f].kind \in {SpaceOf[r], "unbound"}
Accepts(r, f) == files[f].kind = SpaceOf[r] \/ UnboundEmpty(f)

(* _binding_storage_identity: the file this repository has known is still there. *)
SameFile(r) == repo[r].bound # 0 => path = repo[r].bound

(* validate_expected_binding, before any writable connection. *)
Preflight(r) ==
    /\ repo[r].at = "idle"
    /\ SameFile(r) /\ (path # 0 => Accepts(r, path))
    /\ repo' = [repo EXCEPT ![r] = [IdleRepo(@.bound) EXCEPT !.at = "checked", !.before = path]]
    /\ UNCHANGED <<path, files, moves, destroyed>>

(* O_CREAT | O_EXCL; an existing file is no allocation. *)
CreateFile(r) ==
    /\ repo[r].at = "checked" /\ repo[r].before = 0
    /\ IF path # 0 THEN Goes(r, "idle") /\ UNCHANGED <<path, files>>
       ELSE \E f \in Unused :
              /\ path' = f
              /\ files' = [files EXCEPT ![f] = [NoFile EXCEPT !.kind = "empty", !.by = r]]
              /\ repo' = [repo EXCEPT ![r].at = "created", ![r].before = f,
                                      ![r].created = TRUE, ![r].bound = f]
    /\ UNCHANGED <<moves, destroyed>>

(* sqlite3.connect opens whatever is at the path by now. *)
OpenFile(r) ==
    /\ repo[r].at = "created" \/ (repo[r].at = "checked" /\ repo[r].before # 0)
    /\ repo' = [repo EXCEPT ![r].opened = path,
                            ![r].at = IF path # 0 /\ path = repo[r].before THEN "opened" ELSE "closing"]
    /\ UNCHANGED <<path, files, moves, destroyed>>

(* BEGIN IMMEDIATE, then identity and content again; a created file must have
   no schema yet, an existing one is never given one. *)
BeginWrite(r) ==
    LET f == repo[r].opened IN
    /\ repo[r].at = "opened" /\ files[f].lock = "nobody"
    /\ IF path = repo[r].before
          /\ IF repo[r].created THEN files[f].kind = "empty" ELSE Accepts(r, f)
       THEN files' = [files EXCEPT ![f].lock = r] /\ repo' = [repo EXCEPT ![r].at = "writing", ![r].bound = f]
       ELSE files' = files /\ Goes(r, "closing")
    /\ UNCHANGED <<path, moves, destroyed>>

(* _commit: the path is checked once more, the keys go in with the rows. *)
CommitWrite(r) ==
    LET f == repo[r].opened IN
    /\ repo[r].at = "writing"
    /\ IF SameFile(r)
       THEN /\ files' = [files EXCEPT ![f].lock = "nobody", ![f].kind = SpaceOf[r],
                                      ![f].rows = @ \cup {SpaceOf[r]}]
            /\ repo' = [repo EXCEPT ![r].at = "closing", ![r].committed = TRUE]
       ELSE files' = [files EXCEPT ![f].lock = "nobody"] /\ Goes(r, "closing")
    /\ UNCHANGED <<path, moves, destroyed>>

RollBack(r) ==
    /\ repo[r].at = "writing"
    /\ files' = [files EXCEPT ![repo[r].opened].lock = "nobody"]
    /\ Goes(r, "closing")
    /\ UNCHANGED <<path, moves, destroyed>>

(* _dispose_initialization: a connection that may still be open keeps its
   attempt, and with it fences every new one, until an explicit retry. *)
Dispose(r) ==
    /\ repo[r].at = "closing"
    /\ \/ Goes(r, IF repo[r].created /\ ~repo[r].committed THEN "cleaning" ELSE "idle")
       \/ Goes(r, "retained")
    /\ UNCHANGED <<path, files, moves, destroyed>>

CloseInitializations(r) ==
    /\ repo[r].at = "retained" /\ Goes(r, "closing")
    /\ UNCHANGED <<path, files, moves, destroyed>>

(* _cleanup_initialization: only the file this attempt created, still empty
   and still at the path, goes; the second look and the unlink are one step. *)
StillOurs(r) == path # 0 /\ path = repo[r].before /\ SameFile(r) /\ files[path].kind = "empty"
CleanUp(r) ==
    /\ repo[r].at = "cleaning"
    /\ Goes(r, IF StillOurs(r) THEN "unlinking" ELSE "idle")
    /\ UNCHANGED <<path, files, moves, destroyed>>

Unlink(r) ==
    /\ repo[r].at = "unlinking"
    /\ IF StillOurs(r)
       THEN /\ path' = 0 /\ destroyed' = destroyed \cup {path}
            /\ repo' = [repo EXCEPT ![r] = IdleRepo(0)]
       ELSE Goes(r, "idle") /\ UNCHANGED <<path, destroyed>>
    /\ UNCHANGED <<files, moves>>

(* A new process: SQLite rolls back, and the constructor adopts what it finds. *)
ReopenRepository(r) ==
    /\ repo[r].at # "idle" \/ repo[r].bound # path
    /\ repo' = [repo EXCEPT ![r] = IdleRepo(path)]
    /\ files' = [f \in FileIds |-> IF files[f].lock = r THEN [files[f] EXCEPT !.lock = "nobody"] ELSE files[f]]
    /\ UNCHANGED <<path, moves, destroyed>>

StoreNext ==
    \/ Intervene
    \/ \E r \in Repositories :
          \/ Preflight(r) \/ CreateFile(r) \/ OpenFile(r) \/ BeginWrite(r) \/ CommitWrite(r)
          \/ RollBack(r) \/ Dispose(r) \/ CloseInitializations(r) \/ CleanUp(r) \/ Unlink(r)
          \/ ReopenRepository(r)

StoreSpec == StoreInit /\ [][StoreNext]_storeVars

-----------------------------------------------------------------------------
(* However files are swapped under open connections and between retries: rows
   are only ever stored in a file of their own space, and a repository removes
   no file but one it created itself and nobody wrote to. *)
NamespaceKept ==
    /\ \A f \in FileIds : files[f].kind \in Spaces => files[f].rows \subseteq {files[f].kind}
    /\ \A f \in destroyed : files[f].by \in Repositories /\ files[f].kind = "empty"
=============================================================================
