--------------------------- MODULE CreateIfAbsent ---------------------------
(***************************************************************************)
(* app/services/vault.py: create_capture_if_absent and                     *)
(* create_promotion_if_absent.  Calls in several threads and processes put *)
(* complete bytes at one canonical path: stage in a temporary file, fsync, *)
(* link without replacing, fsync the directory, confirm.  They share the   *)
(* advisory lock of coordinated_write; editors, file managers, crashes and *)
(* power losses do not.                                                    *)
(*                                                                         *)
(* Bytes are payloads.  "disk" is the directory entry a power loss leaves. *)
(* A call may be made again with the same request (a retry).               *)
(***************************************************************************)
EXTENDS Integers

CONSTANTS Calls,        \* requests, each retried by its own thread or process
          PayloadOf,    \* the complete Markdown bytes of each request
          Other,        \* bytes of a user's own note
          Partial,      \* an incomplete note
          NoCall, NoFile, Foreign,
          MaxTries, MaxEdits, MaxCrashes

ASSUME CreateIfAbsentAssumption ==
    /\ NoCall \notin Calls /\ Foreign \notin Calls
    /\ DOMAIN PayloadOf = Calls
    /\ \A w \in Calls : PayloadOf[w] \notin {Other, Partial}
    /\ Other # Partial
    /\ MaxTries \in Nat /\ MaxEdits \in Nat /\ MaxCrashes \in Nat

VARIABLES
    recovers,   \* TRUE: create_promotion_if_absent, FALSE: create_capture_if_absent
    entry,      \* the canonical path: NoFile or a file
    disk,       \* the same after a power loss
    lock,       \* holder of coordinated_write, or NoCall
    pc,         \* per call
    stage,      \* per call: "none", "open", "written", "synced"
    attempted,  \* per call: commit_attempted
    moved,      \* per call: its pinned directory was moved away
    verdict,    \* per call: what it will return once it has cleaned up
    result,     \* per call: what its last execution returned
    linked,     \* per call: this execution created a directory entry
    held,       \* per call: the path held its bytes at some point of this execution
    touched,    \* per call: a user changed the path since this execution began
    tries, edits, crashes

fileVars == <<entry, disk, held, touched>>
callVars == <<lock, pc, stage, attempted, verdict, result, linked, tries>>
worldVars == <<moved, edits, crashes, recovers>>
vars == <<fileVars, callVars, worldVars>>

Bytes == {PayloadOf[w] : w \in Calls} \cup {Other, Partial}
File == [ino : Calls \cup {Foreign}, bytes : Bytes, safe : BOOLEAN]
ASSUME NoFileAssumption == NoFile \notin File
Refusals == {"conflict", "write_unavailable", "unsafe_destination"}
Working == {"pinning", "looking", "reading", "staging", "writing", "syncing", "verifying",
            "linking", "linked", "confirming"}

(* Types, and the writers' lock: exactly its holder is between acquiring   *)
(* and giving it back, after crashes and in the second look as well.       *)
TypeOK ==
    /\ recovers \in BOOLEAN
    /\ entry \in File \cup {NoFile} /\ disk \in File \cup {NoFile}
    /\ lock \in Calls \cup {NoCall}
    /\ pc \in [Calls -> Working \cup {"idle", "waiting", "cleaning", "recoverWait", "recovering"}]
    /\ stage \in [Calls -> {"none", "open", "written", "synced"}]
    /\ \A f \in {attempted, moved, linked, held, touched} : f \in [Calls -> BOOLEAN]
    /\ \A f \in {verdict, result} :
         f \in [Calls -> Refusals \cup {"none", "created", "already_applied", "commit_unknown",
                                        "recover", "lost"}]
    /\ tries \in [Calls -> 0..MaxTries] /\ edits \in 0..MaxEdits /\ crashes \in 0..MaxCrashes
    /\ \A w \in Calls : lock = w <=> pc[w] \notin {"idle", "waiting", "recoverWait"}

Never == [w \in Calls |-> FALSE]

Init ==
    /\ recovers \in BOOLEAN
    /\ entry = NoFile /\ disk = NoFile /\ lock = NoCall
    /\ pc = [w \in Calls |-> "idle"] /\ stage = [w \in Calls |-> "none"]
    /\ attempted = Never /\ moved = Never /\ linked = Never /\ held = Never /\ touched = Never
    /\ verdict = [w \in Calls |-> "none"] /\ result = [w \in Calls |-> "none"]
    /\ tries = [w \in Calls |-> 0] /\ edits = 0 /\ crashes = 0

Holds(file, w) == file # NoFile /\ file.bytes = PayloadOf[w]

\* The canonical path changes; every call remembers having seen its bytes.
SetEntry(file) ==
    /\ entry' = file
    /\ held' = [w \in Calls |-> held[w] \/ Holds(file, w)]

Goto(w, place) == pc' = [pc EXCEPT ![w] = place]

\* The with and finally blocks follow before the verdict is returned.
Conclude(w, what) ==
    /\ verdict' = [verdict EXCEPT ![w] = what]
    /\ Goto(w, "cleaning")

Quiet == UNCHANGED <<lock, result, linked, tries, worldVars>>
-----------------------------------------------------------------------------
Begin(w) ==
    /\ pc[w] = "idle" /\ tries[w] < MaxTries
    /\ tries' = [tries EXCEPT ![w] = @ + 1]
    /\ Goto(w, "waiting")
    /\ result' = [result EXCEPT ![w] = "none"]
    /\ verdict' = [verdict EXCEPT ![w] = "none"]
    /\ stage' = [stage EXCEPT ![w] = "none"]
    /\ attempted' = [attempted EXCEPT ![w] = FALSE]
    /\ linked' = [linked EXCEPT ![w] = FALSE]
    /\ held' = [held EXCEPT ![w] = Holds(entry, w)]
    /\ touched' = [touched EXCEPT ![w] = FALSE]
    \* The inode an earlier execution left is somebody else's to this one.
    /\ LET aged(file) == IF file # NoFile /\ file.ino = w
                         THEN [file EXCEPT !.ino = Foreign] ELSE file
       IN  entry' = aged(entry) /\ disk' = aged(disk)
    /\ moved' = [moved EXCEPT ![w] = FALSE]
    /\ UNCHANGED <<lock, edits, crashes, recovers>>

\* coordinated_write: the thread lock, then flock or the kernel mutex.
Acquire(w) ==
    /\ pc[w] \in {"waiting", "recoverWait"} /\ lock = NoCall
    /\ lock' = w
    /\ Goto(w, IF pc[w] = "waiting" THEN "pinning" ELSE "recovering")
    /\ UNCHANGED <<fileVars, stage, attempted, verdict, result, linked, tries, worldVars>>

\* _capture_directory or _promotion_parent opens the directories one by one.
PinDirectory(w) ==
    /\ pc[w] = "pinning"
    /\ Goto(w, "looking")
    /\ moved' = [moved EXCEPT ![w] = FALSE]
    /\ UNCHANGED <<fileVars, lock, stage, attempted, verdict, result, linked, tries, edits,
                   crashes, recovers>>

\* A moved directory is no longer the canonical one: anything may be in it.
Look(w) ==
    /\ pc[w] = "looking"
    /\ \/ (entry # NoFile \/ moved[w]) /\ Goto(w, "reading")
       \/ (entry = NoFile \/ moved[w]) /\ Goto(w, "staging")
    /\ UNCHANGED <<fileVars, stage, attempted, verdict>> /\ Quiet

\* read_existing: exact equality is the only proof of an earlier commit.
ReadExisting(w) ==
    /\ pc[w] = "reading" /\ ~moved[w] /\ entry # NoFile
    /\ Conclude(w, IF Holds(entry, w) THEN "already_applied" ELSE "conflict")
    /\ UNCHANGED <<fileVars, stage, attempted>> /\ Quiet

StageStep(w, from, to, staged) ==
    /\ pc[w] = from
    /\ stage' = [stage EXCEPT ![w] = staged]
    /\ Goto(w, to)
    /\ UNCHANGED <<fileVars, attempted, verdict>> /\ Quiet

OpenStage(w) == StageStep(w, "staging", "writing", "open")
WriteStage(w) == StageStep(w, "writing", "syncing", "written")

SyncStage(w) == StageStep(w, "syncing", "verifying", "synced")

\* verify(), then the flag that makes every later failure "uncertain".
AboutToLink(w) ==
    /\ pc[w] = "verifying" /\ ~moved[w]
    /\ attempted' = [attempted EXCEPT ![w] = TRUE]
    /\ Goto(w, "linking")
    /\ UNCHANGED <<fileVars, stage, verdict>> /\ Quiet

Staged(w) == [ino |-> w, bytes |-> PayloadOf[w], safe |-> stage[w] = "synced"]

\* Mutant: the staged file is renamed onto the path.
MayLinkReplacing(w) == TRUE

\* os.link refuses an existing entry.
MayLink(w) == entry = NoFile \/ moved[w]

\* The link takes effect; os.link may still report an error after it.
Link(w) ==
    /\ pc[w] = "linking" /\ MayLink(w)
    /\ linked' = [linked EXCEPT ![w] = TRUE]
    /\ IF moved[w] THEN UNCHANGED <<entry, held>> ELSE SetEntry(Staged(w))
    /\ \/ Goto(w, "linked") /\ UNCHANGED verdict
       \/ Conclude(w, IF attempted[w] THEN (IF recovers THEN "recover" ELSE "commit_unknown")
                      ELSE "write_unavailable")
    /\ UNCHANGED <<disk, touched, lock, stage, attempted, result, tries, worldVars>>

LinkExists(w) ==
    /\ pc[w] = "linking" /\ (entry # NoFile \/ moved[w])
    /\ attempted' = [attempted EXCEPT ![w] = FALSE]
    /\ Goto(w, "reading")
    /\ UNCHANGED <<fileVars, stage, verdict>> /\ Quiet

\* What fsync of the directory makes durable.
SyncedDirectory == entry

SyncDirectory(w) ==
    /\ pc[w] = "linked" /\ ~moved[w]
    /\ disk' = SyncedDirectory
    /\ Goto(w, "confirming")
    /\ UNCHANGED <<entry, held, touched, stage, attempted, verdict>> /\ Quiet

\* verify_committed: the path names our inode with our complete bytes.
Proved(w) == ~moved[w] /\ Holds(entry, w) /\ entry.ino = w

Confirm(w) ==
    /\ pc[w] = "confirming" /\ Proved(w)
    /\ Conclude(w, "created")
    /\ UNCHANGED <<fileVars, stage, attempted>> /\ Quiet

\* Any failure: an OSError, a directory that moved, an entry that is not ours.
Raises(w) ==
    /\ pc[w] \in Working
    /\ \E refusal \in {"write_unavailable", "unsafe_destination"} :
         Conclude(w, IF ~attempted[w] THEN refusal
                     ELSE IF recovers THEN "recover" ELSE "commit_unknown")
    /\ UNCHANGED <<fileVars, stage, attempted>> /\ Quiet

\* Mutant: the recovery read is made inside the write's own lock.
CleanupHoldingLock(w) ==
    /\ pc[w] = "cleaning"
    /\ stage' = [stage EXCEPT ![w] = "none"]
    /\ IF verdict[w] = "recover"
       THEN Goto(w, "recoverWait") /\ UNCHANGED <<lock, result>>
       ELSE /\ Goto(w, "idle") /\ lock' = NoCall
            /\ result' = [result EXCEPT ![w] = verdict[w]]
    /\ UNCHANGED <<fileVars, attempted, verdict, linked, tries, worldVars>>

\* The finally blocks: remove the temporary file, release the lock, return.
Cleanup(w) ==
    /\ pc[w] = "cleaning"
    /\ lock' = NoCall
    /\ stage' = [stage EXCEPT ![w] = "none"]
    /\ IF verdict[w] = "recover"
       THEN Goto(w, "recoverWait") /\ UNCHANGED result
       ELSE Goto(w, "idle") /\ result' = [result EXCEPT ![w] = verdict[w]]
    /\ UNCHANGED <<fileVars, attempted, verdict, linked, tries, worldVars>>

\* Mutant: any note at the path proves the commit.
RecoverTrusting(w) ==
    /\ pc[w] = "recovering"
    /\ Conclude(w, IF entry # NoFile THEN "already_applied" ELSE "commit_unknown")
    /\ UNCHANGED <<fileVars, stage, attempted>> /\ Quiet

\* _promotion_recovery_bytes: look once more, never write again.
Recover(w) ==
    /\ pc[w] = "recovering"
    /\ \/ Proved(w) /\ Conclude(w, "already_applied")
       \/ Conclude(w, "commit_unknown")
    /\ UNCHANGED <<fileVars, stage, attempted>> /\ Quiet
-----------------------------------------------------------------------------
(* The rest of the world.                                                  *)

\* An editor saves in place or by replacement, or the note is deleted.
UserChanges ==
    /\ edits < MaxEdits
    /\ edits' = edits + 1
    /\ \/ entry # NoFile /\ SetEntry([entry EXCEPT !.bytes = Other, !.safe = TRUE])
       \/ \E b \in Bytes \ {Partial} : SetEntry([ino |-> Foreign, bytes |-> b, safe |-> TRUE])
       \/ entry # NoFile /\ SetEntry(NoFile)
    /\ disk' = entry'
    /\ touched' = [w \in Calls |-> TRUE]
    /\ UNCHANGED <<callVars, moved, crashes, recovers>>

\* The capture directory is moved away and is found empty when looked up again.
DirectoryMoves ==
    /\ edits < MaxEdits
    /\ edits' = edits + 1
    /\ entry' = NoFile /\ disk' = NoFile
    /\ moved' = [w \in Calls |-> TRUE]
    /\ touched' = [w \in Calls |-> TRUE]
    /\ UNCHANGED <<held, callVars, crashes, recovers>>

\* The process of one call dies; the kernel drops its lock, the temporary
\* file stays behind.
ProcessDies(w) ==
    /\ crashes < MaxCrashes /\ pc[w] # "idle"
    /\ crashes' = crashes + 1
    /\ Goto(w, "idle")
    /\ result' = [result EXCEPT ![w] = "lost"]
    /\ lock' = IF lock = w THEN NoCall ELSE lock
    /\ UNCHANGED <<fileVars, stage, attempted, verdict, linked, tries, moved, edits, recovers>>

\* The entry survives as it was last forced to disk, or as it is by now:
\* then with whatever part of its data had reached the disk.
PowerLoss ==
    /\ crashes < MaxCrashes
    /\ crashes' = crashes + 1
    /\ \/ SetEntry(disk)
       \/ SetEntry(IF entry # NoFile /\ ~entry.safe THEN [entry EXCEPT !.bytes = Partial]
                   ELSE entry)
    /\ disk' = entry'
    /\ pc' = [w \in Calls |-> "idle"]
    /\ result' = [w \in Calls |-> IF pc[w] = "idle" THEN result[w] ELSE "lost"]
    /\ lock' = NoCall
    /\ UNCHANGED <<touched, stage, attempted, verdict, linked, tries, moved, edits, recovers>>
-----------------------------------------------------------------------------
Step(w) ==
    \/ Acquire(w) \/ PinDirectory(w) \/ Look(w) \/ ReadExisting(w)
    \/ OpenStage(w) \/ WriteStage(w) \/ SyncStage(w) \/ AboutToLink(w)
    \/ Link(w) \/ LinkExists(w) \/ SyncDirectory(w) \/ Confirm(w)
    \/ Raises(w) \/ Cleanup(w) \/ Recover(w)

Next ==
    \/ \E w \in Calls : Begin(w) \/ Step(w) \/ ProcessDies(w)
    \/ UserChanges \/ DirectoryMoves \/ PowerLoss

Spec == Init /\ [][Next]_vars

\* Every call that has begun is scheduled and its system calls return.
FairSpec == Spec /\ \A w \in Calls : WF_vars(Step(w))
-----------------------------------------------------------------------------
(* Nobody ever finds an incomplete note at the canonical path, not even    *)
(* after a power loss between any two steps.                               *)
NeverPartial == entry # NoFile => entry.bytes # Partial

(* A definite refusal (conflict, write_unavailable, unsafe_destination)    *)
(* means that this call put nothing into any directory: only               *)
(* commit_unknown may hide a commit.                                       *)
RefusedMeansUnwritten == \A w \in Calls : result[w] \in Refusals => ~linked[w]

(* Success is only reported for bytes that really stood at the canonical   *)
(* path while the call ran.                                                *)
SuccessMeansPresent ==
    \A w \in Calls : result[w] \in {"created", "already_applied"} => held[w]

(* A note reported as created is there, and outlives a power loss, until a *)
(* user changes it.                                                        *)
CreatedIsDurable ==
    \A w \in Calls :
      result[w] = "created" /\ ~touched[w] => Holds(entry, w) /\ Holds(disk, w)

(* VaultBridge never replaces an existing note: only users change one, and *)
(* a power loss.                                                           *)
NeverReplaces ==
    [][entry # NoFile /\ edits' = edits /\ crashes' = crashes
         => entry' # NoFile /\ entry'.bytes = entry.bytes]_vars

(* Every call returns and gives the lock back, whatever fails meanwhile.   *)
EveryCallReturns == \A w \in Calls : pc[w] # "idle" ~> pc[w] = "idle"

(* What a creator is told is true of the directory, also after a crash: a  *)
(* note at the path has all its bytes, a refusal left nothing behind, a    *)
(* success stood there and is durable; and the one lock has one holder.    *)
AnswersHonest ==
    TypeOK /\ NeverPartial /\ RefusedMeansUnwritten /\ SuccessMeansPresent /\ CreatedIsDurable
=============================================================================
