------------------------------ MODULE Notes_proof ------------------------------
(***************************************************************************)
(* Proofs about notes that are created and notes that are queried, for any *)
(* number of requests, retries, edits and crashes: what a creator is told  *)
(* is true of the directory, no existing note is ever replaced, and every  *)
(* match of a query was right.                                             *)
(***************************************************************************)
EXTENDS CreateIfAbsent, QueryEvaluation, FiniteSetTheorems, WellFoundedInduction, TLAPS

Places == Working \cup {"idle", "waiting", "cleaning", "recoverWait", "recovering"}
Answers == Refusals \cup {"none", "created", "already_applied", "commit_unknown", "recover", "lost"}

(* The types of TypeOK, one variable after the other. *)
Types ==
    /\ recovers \in BOOLEAN
    /\ entry \in File \cup {NoFile} /\ disk \in File \cup {NoFile}
    /\ lock \in Calls \cup {NoCall}
    /\ pc \in [Calls -> Places]
    /\ stage \in [Calls -> {"none", "open", "written", "synced"}]
    /\ attempted \in [Calls -> BOOLEAN] /\ moved \in [Calls -> BOOLEAN]
    /\ linked \in [Calls -> BOOLEAN] /\ held \in [Calls -> BOOLEAN]
    /\ touched \in [Calls -> BOOLEAN]
    /\ verdict \in [Calls -> Answers] /\ result \in [Calls -> Answers]
    /\ tries \in [Calls -> 0..MaxTries] /\ edits \in 0..MaxEdits /\ crashes \in 0..MaxCrashes

(* Exactly the holder of the lock is between acquiring and giving it back. *)
LockHeld == \A w \in Calls : lock = w <=> pc[w] \notin {"idle", "waiting", "recoverWait"}

(* Only a synced temporary file is linked, so that whatever stands at the  *)
(* path, now or after a power loss, has all of its bytes.                  *)
Complete ==
    /\ \A w \in Calls : pc[w] \in {"verifying", "linking"} => stage[w] = "synced"
    /\ entry # NoFile => entry.safe /\ entry.bytes # Partial
    /\ disk # NoFile => disk.safe /\ disk.bytes # Partial

(* From the link on, every failure is an uncertain one; nothing is         *)
(* answered before the call has ended.                                     *)
Answered ==
    \A w \in Calls :
      /\ pc[w] \in {"waiting"} \cup (Working \ {"linked", "confirming"}) => ~linked[w]
      /\ pc[w] \in {"linking", "linked", "confirming"} => attempted[w]
      /\ pc[w] = "cleaning" /\ linked[w] => verdict[w] \notin Refusals
      /\ pc[w] # "idle" => result[w] = "none"
      /\ result[w] \in Refusals => ~linked[w]

\* The answer w has given or is about to give.
Says(w, answer) == result[w] = answer \/ (pc[w] = "cleaning" /\ verdict[w] = answer)

(* Success was seen at the path. *)
Seen ==
    \A w \in Calls :
      /\ Holds(entry, w) => held[w]
      /\ Says(w, "created") \/ Says(w, "already_applied") => held[w]

(* What was confirmed had reached the disk, and stays until a user acts. *)
Durable ==
    \A w \in Calls : ~touched[w] =>
      /\ pc[w] = "confirming" => disk = entry
      /\ Says(w, "created") => Holds(entry, w) /\ Holds(disk, w)

Inductive == Types /\ LockHeld /\ Complete /\ Answered /\ Seen /\ Durable
-----------------------------------------------------------------------------
(* What the steps that touch the directory leave there. *)

LEMMA SetEntryRemembers ==
    ASSUME Types, NEW file, SetEntry(file)
    PROVE  /\ entry' = file /\ held' \in [Calls -> BOOLEAN]
           /\ \A w \in Calls : held'[w] <=> held[w] \/ Holds(file, w)
BY DEF SetEntry, Types, Holds

(* A retry makes the inode of its predecessor somebody else's, no more. *)
LEMMA BeginAges ==
    ASSUME Types, NEW w \in Calls, Begin(w)
    PROVE  /\ entry' \in File \cup {NoFile} /\ disk' \in File \cup {NoFile}
           /\ entry' # NoFile <=> entry # NoFile
           /\ entry # NoFile => entry'.bytes = entry.bytes /\ entry'.safe = entry.safe
           /\ disk' # NoFile <=> disk # NoFile
           /\ disk # NoFile => disk'.bytes = disk.bytes /\ disk'.safe = disk.safe
           /\ disk = entry => disk' = entry'
<1> DEFINE aged(file) == IF file # NoFile /\ file.ino = w THEN [file EXCEPT !.ino = Foreign] ELSE file
<1>1. ASSUME NEW file \in File \cup {NoFile}
      PROVE  /\ aged(file) \in File \cup {NoFile} /\ (aged(file) # NoFile <=> file # NoFile)
             /\ file # NoFile => aged(file).bytes = file.bytes /\ aged(file).safe = file.safe
  BY NoFileAssumption DEF File
<1>2. entry' = aged(entry) /\ disk' = aged(disk)
  BY DEF Begin
<1>3. entry \in File \cup {NoFile} /\ disk \in File \cup {NoFile}
  BY DEF Types
<1> QED
  BY <1>1, <1>2, <1>3

LEMMA LinkPlaces ==
    ASSUME Inductive, NEW w \in Calls, Link(w)
    PROVE  /\ pc[w] = "linking" /\ stage[w] = "synced"
           /\ linked' = [linked EXCEPT ![w] = TRUE]
           /\ UNCHANGED <<disk, touched, lock, stage, attempted, result, tries, worldVars>>
           /\ \/ pc' = [pc EXCEPT ![w] = "linked"] /\ verdict' = verdict
              \/ /\ pc' = [pc EXCEPT ![w] = "cleaning"]
                 /\ \E what \in {"recover", "commit_unknown"} : verdict' = [verdict EXCEPT ![w] = what]
           /\ \/ entry' = entry /\ held' = held
              \/ /\ entry = NoFile /\ entry' \in File /\ entry'.bytes = PayloadOf[w] /\ entry'.safe
                 /\ held' \in [Calls -> BOOLEAN]
                 /\ \A v \in Calls : held'[v] <=> held[v] \/ Holds(entry', v)
<1>1. pc[w] = "linking" /\ stage[w] = "synced"
  BY DEF Link, Inductive, Complete
<1>5. \/ pc' = [pc EXCEPT ![w] = "linked"] /\ verdict' = verdict
      \/ /\ pc' = [pc EXCEPT ![w] = "cleaning"]
         /\ \E what \in {"recover", "commit_unknown"} : verdict' = [verdict EXCEPT ![w] = what]
  <2>1. attempted[w]
    BY <1>1 DEF Inductive, Answered
  <2> QED
    BY <2>1 DEF Link, Goto, Conclude
<1>2. Staged(w) \in File /\ Staged(w).bytes = PayloadOf[w] /\ Staged(w).safe
  BY <1>1 DEF Staged, File, Bytes
<1>3. CASE moved[w]
  BY <1>1, <1>3, <1>5 DEF Link
<1>4. CASE ~moved[w]
  <2>1. entry = NoFile /\ SetEntry(Staged(w))
    BY <1>4 DEF Link, MayLink
  <2> QED
    BY <1>1, <1>2, <1>5, <2>1, SetEntryRemembers DEF Link, Inductive
<1> QED
  BY <1>3, <1>4

(* Users write whole files, and their editors are done with them. *)
LEMMA UserPlaces ==
    ASSUME Types, UserChanges \/ DirectoryMoves
    PROVE  /\ entry' \in File \cup {NoFile} /\ disk' = entry' /\ (entry' # NoFile => entry'.safe /\ entry'.bytes # Partial)
           /\ edits < MaxEdits /\ edits' = edits + 1
           /\ touched' = [w \in Calls |-> TRUE]
           /\ held' \in [Calls -> BOOLEAN]
           /\ \A w \in Calls : held'[w] <=> held[w] \/ Holds(entry', w)
           /\ moved' \in {moved, [w \in Calls |-> TRUE]}
           /\ UNCHANGED <<callVars, crashes, recovers>>
<1>1. CASE DirectoryMoves
  BY <1>1 DEF DirectoryMoves, Types, Holds
<1>2. CASE UserChanges
  <2> DEFINE whole(file) == /\ SetEntry(file) /\ file \in File \cup {NoFile}
                            /\ file # NoFile => file.safe /\ file.bytes # Partial
  <2>1. \E file : whole(file)
    <3>1. CASE entry # NoFile /\ SetEntry([entry EXCEPT !.bytes = Other, !.safe = TRUE])
      <4> DEFINE rewritten == [entry EXCEPT !.bytes = Other, !.safe = TRUE]
      <4>1. rewritten \in File /\ rewritten.safe /\ rewritten.bytes # Partial
        BY <3>1, CreateIfAbsentAssumption DEF Types, File, Bytes
      <4>2. whole(rewritten)
        BY <3>1, <4>1
      <4> QED
        BY <4>2
    <3>2. CASE \E b \in Bytes \ {Partial} : SetEntry([ino |-> Foreign, bytes |-> b, safe |-> TRUE])
      <4>1. PICK b \in Bytes \ {Partial} : SetEntry([ino |-> Foreign, bytes |-> b, safe |-> TRUE])
        BY <3>2
      <4> DEFINE written == [ino |-> Foreign, bytes |-> b, safe |-> TRUE]
      <4>2. written \in File /\ written.safe /\ written.bytes # Partial
        BY DEF File
      <4>3. whole(written)
        BY <4>1, <4>2
      <4> QED
        BY <4>3
    <3>3. CASE SetEntry(NoFile)
      <4>1. whole(NoFile)
        BY <3>3
      <4> QED
        BY <4>1
    <3> QED
      BY <1>2, <3>1, <3>2, <3>3 DEF UserChanges
  <2>2. PICK file : /\ SetEntry(file) /\ file \in File \cup {NoFile}
                    /\ file # NoFile => file.safe /\ file.bytes # Partial
    BY <2>1
  <2> QED
    BY <1>2, <2>2, SetEntryRemembers DEF UserChanges
<1> QED
  BY <1>1, <1>2

(* A power loss leaves what was forced to disk or what stood at the path. *)
LEMMA PowerLossPlaces ==
    ASSUME Types, Complete, PowerLoss
    PROVE  /\ entry' \in {entry, disk} /\ disk' = entry' /\ held' \in [Calls -> BOOLEAN]
           /\ \A w \in Calls : held'[w] <=> held[w] \/ Holds(entry', w)
           /\ crashes < MaxCrashes /\ crashes' = crashes + 1
           /\ pc' = [w \in Calls |-> "idle"] /\ lock' = NoCall
           /\ result' = [w \in Calls |-> IF pc[w] = "idle" THEN result[w] ELSE "lost"]
           /\ UNCHANGED <<touched, stage, attempted, verdict, linked, tries, moved, edits, recovers>>
<1>1. SetEntry(disk) \/ SetEntry(entry)
  BY DEF PowerLoss, Complete
<1> QED
  BY <1>1, SetEntryRemembers DEF PowerLoss
-----------------------------------------------------------------------------
(* The steps, one conjunct of the invariant at a time. *)

(* Every step keeps the types. *)
LEMMA TypesKept == ASSUME Inductive, [Next]_vars PROVE Types'
<1>1. ASSUME NEW w \in Calls, Begin(w) PROVE Types'
  <2>1. tries' \in [Calls -> 0..MaxTries]
    BY <1>1, CreateIfAbsentAssumption DEF Begin, Inductive, Types
  <2>2. /\ pc' \in [Calls -> Places] /\ stage' \in [Calls -> {"none", "open", "written", "synced"}]
        /\ verdict' \in [Calls -> Answers] /\ result' \in [Calls -> Answers]
    BY <1>1 DEF Begin, Goto, Inductive, Types, Places, Answers
  <2>3. /\ attempted' \in [Calls -> BOOLEAN] /\ linked' \in [Calls -> BOOLEAN]
        /\ touched' \in [Calls -> BOOLEAN] /\ moved' \in [Calls -> BOOLEAN]
        /\ UNCHANGED <<lock, edits, crashes, recovers>>
    BY <1>1 DEF Begin, Inductive, Types
  <2>4. held' \in [Calls -> BOOLEAN]
    BY <1>1 DEF Begin, Holds, Inductive, Types
  <2> QED
    BY <1>1, <2>1, <2>2, <2>3, <2>4, BeginAges DEF Inductive, Types
<1>2. ASSUME NEW w \in Calls, Acquire(w) \/ PinDirectory(w) \/ Look(w) \/ OpenStage(w) \/
            WriteStage(w) \/ SyncStage(w)
      PROVE  Types'
  <2>1. Types
    BY DEF Inductive
  <2>2. CASE Acquire(w)
    BY <2>1, <2>2 DEF Acquire, Goto, fileVars, worldVars, Types, Places, Working
  <2>3. CASE PinDirectory(w)
    BY <2>1, <2>3 DEF PinDirectory, Goto, fileVars, Types, Places, Working
  <2>4. CASE Look(w)
    BY <2>1, <2>4 DEF Look, Goto, Quiet, fileVars, worldVars, Types, Places, Working
  <2>5. CASE OpenStage(w)
    BY <2>1, <2>5 DEF OpenStage, StageStep, Goto, Quiet, fileVars, worldVars, Types, Places, Working
  <2>6. CASE WriteStage(w)
    BY <2>1, <2>6 DEF WriteStage, StageStep, Goto, Quiet, fileVars, worldVars, Types, Places, Working
  <2>7. CASE SyncStage(w)
    BY <2>1, <2>7 DEF SyncStage, StageStep, Goto, Quiet, fileVars, worldVars, Types, Places, Working
  <2> QED
    BY <1>2, <2>2, <2>3, <2>4, <2>5, <2>6, <2>7
<1>3. ASSUME NEW w \in Calls, ReadExisting(w) \/ Confirm(w) \/ Recover(w) \/ Raises(w)
      PROVE  Types'
  BY <1>3 DEF ReadExisting, Conclude, Quiet, Goto, Confirm, Proved, Recover, Raises, fileVars,
      callVars, worldVars, Inductive, Types, Places, Answers, Working, Refusals, worldVars
<1>4. ASSUME NEW w \in Calls, AboutToLink(w) PROVE Types'
  BY <1>4 DEF AboutToLink, Quiet, Goto, fileVars, callVars, worldVars, Inductive, Types, Places,
      Answers, Working, Refusals, worldVars
<1>5. ASSUME NEW w \in Calls, LinkExists(w) PROVE Types'
  BY <1>5 DEF LinkExists, Quiet, Goto, fileVars, callVars, worldVars, Inductive, Types, Places,
      Answers, Working, Refusals, worldVars
<1>6. ASSUME NEW w \in Calls, Link(w) PROVE Types'
  <2>1. pc' \in [Calls -> Places] /\ verdict' \in [Calls -> Answers]
    BY <1>6, LinkPlaces DEF Inductive, Types, Places, Answers, Working
  <2>2. entry' \in File \cup {NoFile} /\ held' \in [Calls -> BOOLEAN]
    BY <1>6, LinkPlaces DEF Inductive, Types
  <2>3. linked' \in [Calls -> BOOLEAN]
    BY <1>6, LinkPlaces DEF Inductive, Types
  <2> QED
    BY <1>6, <2>1, <2>2, <2>3, LinkPlaces DEF Inductive, Types, worldVars
<1>7. ASSUME NEW w \in Calls, SyncDirectory(w) PROVE Types'
  BY <1>7 DEF SyncDirectory, SyncedDirectory, Quiet, Goto, fileVars, callVars, worldVars,
      Inductive, Types, Places, Answers, Working, Refusals, worldVars
<1>8. ASSUME NEW w \in Calls, Cleanup(w) PROVE Types'
  BY <1>8 DEF Cleanup, Goto, fileVars, callVars, worldVars, Inductive, Types, Places, Answers,
      Working, Refusals, worldVars
<1>9. ASSUME NEW w \in Calls, ProcessDies(w) PROVE Types'
  <2>1. crashes' \in 0..MaxCrashes
    BY <1>9, CreateIfAbsentAssumption DEF ProcessDies, Inductive, Types
  <2>2. /\ pc' \in [Calls -> Places] /\ result' \in [Calls -> Answers]
        /\ lock' \in Calls \cup {NoCall}
    BY <1>9 DEF ProcessDies, Goto, Inductive, Types, Places, Answers
  <2> QED
    BY <1>9, <2>1, <2>2 DEF ProcessDies, fileVars, Inductive, Types
<1>10. ASSUME UserChanges \/ DirectoryMoves PROVE Types'
  <2>1. edits' \in 0..MaxEdits
    BY <1>10, UserPlaces, CreateIfAbsentAssumption DEF Inductive, Types
  <2>2. touched' \in [Calls -> BOOLEAN] /\ moved' \in [Calls -> BOOLEAN]
    BY <1>10, UserPlaces DEF Inductive, Types
  <2> QED
    BY <1>10, <2>1, <2>2, UserPlaces DEF callVars, Inductive, Types
<1>11. ASSUME PowerLoss PROVE Types'
  <2>1. crashes' \in 0..MaxCrashes
    BY <1>11, PowerLossPlaces, CreateIfAbsentAssumption DEF Inductive, Types
  <2>2. pc' \in [Calls -> Places] /\ result' \in [Calls -> Answers]
    BY <1>11, PowerLossPlaces DEF Inductive, Types, Places, Answers
  <2> QED
    BY <1>11, <2>1, <2>2, PowerLossPlaces DEF Inductive, Types
<1>12. CASE UNCHANGED vars
  BY <1>12 DEF vars, fileVars, callVars, worldVars, Inductive, Types, Places, Answers, Working,
      Refusals, worldVars
<1> QED
  BY <1>1, <1>2, <1>3, <1>4, <1>5, <1>6, <1>7, <1>8, <1>9, <1>10, <1>11, <1>12 DEF Next, Step

(* Every step keeps the lock with its holder. *)
LEMMA LockKept == ASSUME Inductive, [Next]_vars PROVE LockHeld'
<1>1. ASSUME NEW w \in Calls, Begin(w) PROVE LockHeld'
  BY <1>1, BeginAges, CreateIfAbsentAssumption DEF Begin, Goto, fileVars, callVars, worldVars,
      Inductive, Types, LockHeld, Working
<1>2. ASSUME NEW w \in Calls, Acquire(w) \/ PinDirectory(w) \/ Look(w) \/ OpenStage(w) \/
            WriteStage(w) \/ SyncStage(w)
      PROVE  LockHeld'
  BY <1>2, CreateIfAbsentAssumption DEF Acquire, Goto, PinDirectory, Look, Quiet, OpenStage,
      StageStep, WriteStage, SyncStage, fileVars, callVars, worldVars, Inductive, Types, LockHeld,
      Working
<1>3. ASSUME NEW w \in Calls, ReadExisting(w) \/ Confirm(w) \/ Recover(w) \/ Raises(w)
      PROVE  LockHeld'
  BY <1>3, CreateIfAbsentAssumption DEF ReadExisting, Conclude, Quiet, Goto, Confirm, Proved,
      Recover, Raises, fileVars, callVars, worldVars, Inductive, Types, LockHeld, Working
<1>4. ASSUME NEW w \in Calls, AboutToLink(w) \/ LinkExists(w) PROVE LockHeld'
  BY <1>4, CreateIfAbsentAssumption DEF AboutToLink, Quiet, Goto, LinkExists, fileVars, callVars,
      worldVars, Inductive, Types, LockHeld, Working
<1>5. ASSUME NEW w \in Calls, Link(w) PROVE LockHeld'
  BY <1>5, LinkPlaces, CreateIfAbsentAssumption DEF fileVars, callVars, worldVars, Inductive,
      Types, LockHeld, Working
<1>6. ASSUME NEW w \in Calls, SyncDirectory(w) PROVE LockHeld'
  BY <1>6, CreateIfAbsentAssumption DEF SyncDirectory, SyncedDirectory, Quiet, Goto, fileVars,
      callVars, worldVars, Inductive, Types, LockHeld, Working
<1>7. ASSUME NEW w \in Calls, Cleanup(w) PROVE LockHeld'
  BY <1>7, CreateIfAbsentAssumption DEF Cleanup, Goto, fileVars, callVars, worldVars, Inductive,
      Types, LockHeld, Working
<1>8. ASSUME NEW w \in Calls, ProcessDies(w) PROVE LockHeld'
  BY <1>8, CreateIfAbsentAssumption DEF ProcessDies, Goto, fileVars, callVars, worldVars,
      Inductive, Types, LockHeld, Working
<1>9. ASSUME UserChanges \/ DirectoryMoves PROVE LockHeld'
  BY <1>9, UserPlaces, CreateIfAbsentAssumption DEF fileVars, callVars, worldVars, Inductive,
      Types, LockHeld, Working
<1>10. ASSUME PowerLoss PROVE LockHeld'
  BY <1>10, PowerLossPlaces, CreateIfAbsentAssumption DEF fileVars, callVars, worldVars,
      Inductive, Types, LockHeld, Working
<1>11. CASE UNCHANGED vars
  BY <1>11, CreateIfAbsentAssumption DEF vars, fileVars, callVars, worldVars, Inductive, Types,
      LockHeld, Working
<1> QED
  BY <1>1, <1>2, <1>3, <1>4, <1>5, <1>6, <1>7, <1>8, <1>9, <1>10, <1>11 DEF Next, Step

(* No step puts an incomplete file at the path. *)
LEMMA CompleteKept == ASSUME Inductive, [Next]_vars PROVE Complete'
<1>1. ASSUME NEW w \in Calls, Begin(w) PROVE Complete'
  BY <1>1, BeginAges DEF Begin, Goto, fileVars, callVars, worldVars, Inductive, Types, Complete,
      File
<1>2. ASSUME NEW w \in Calls, Acquire(w) \/ PinDirectory(w) \/ Look(w) \/ OpenStage(w) \/
            WriteStage(w) \/ SyncStage(w)
      PROVE  Complete'
  BY <1>2 DEF Acquire, Goto, PinDirectory, Look, Quiet, OpenStage, StageStep, WriteStage,
      SyncStage, fileVars, callVars, worldVars, Inductive, Types, Complete, File
<1>3. ASSUME NEW w \in Calls, ReadExisting(w) \/ Confirm(w) \/ Recover(w) \/ Raises(w)
      PROVE  Complete'
  BY <1>3 DEF ReadExisting, Conclude, Quiet, Goto, Confirm, Proved, Recover, Raises, fileVars,
      callVars, worldVars, Inductive, Types, Complete, File
<1>4. ASSUME NEW w \in Calls, AboutToLink(w) \/ LinkExists(w) PROVE Complete'
  BY <1>4 DEF AboutToLink, Quiet, Goto, LinkExists, fileVars, callVars, worldVars, Inductive,
      Types, Complete, File
<1>5. ASSUME NEW w \in Calls, Link(w) PROVE Complete'
  <2>1. \A v \in Calls : pc'[v] \in {"verifying", "linking"} => pc[v] \in {"verifying", "linking"}
    BY <1>5, LinkPlaces DEF Inductive, Types
  <2>2. entry' # NoFile => entry'.safe /\ entry'.bytes # Partial
    BY <1>5, LinkPlaces, CreateIfAbsentAssumption DEF Inductive, Complete
  <2> QED
    BY <1>5, <2>1, <2>2, LinkPlaces DEF Inductive, Complete
<1>6. ASSUME NEW w \in Calls, SyncDirectory(w) PROVE Complete'
  BY <1>6 DEF SyncDirectory, SyncedDirectory, Quiet, Goto, fileVars, callVars, worldVars,
      Inductive, Types, Complete, File
<1>7. ASSUME NEW w \in Calls, Cleanup(w) PROVE Complete'
  BY <1>7 DEF Cleanup, Goto, fileVars, callVars, worldVars, Inductive, Types, Complete, File
<1>8. ASSUME NEW w \in Calls, ProcessDies(w) PROVE Complete'
  BY <1>8 DEF ProcessDies, Goto, fileVars, callVars, worldVars, Inductive, Types, Complete, File
<1>9. ASSUME UserChanges \/ DirectoryMoves PROVE Complete'
  BY <1>9, UserPlaces DEF fileVars, callVars, worldVars, Inductive, Types, Complete, File
<1>10. ASSUME PowerLoss PROVE Complete'
  BY <1>10, PowerLossPlaces DEF fileVars, callVars, worldVars, Inductive, Types, Complete, File
<1>11. CASE UNCHANGED vars
  BY <1>11 DEF vars, fileVars, callVars, worldVars, Inductive, Types, Complete, File
<1> QED
  BY <1>1, <1>2, <1>3, <1>4, <1>5, <1>6, <1>7, <1>8, <1>9, <1>10, <1>11 DEF Next, Step

(* Every step keeps refusals honest. *)
LEMMA AnsweredKept == ASSUME Inductive, [Next]_vars PROVE Answered'
<1>1. ASSUME NEW w \in Calls, Begin(w) PROVE Answered'
  BY <1>1, BeginAges DEF Begin, Goto, fileVars, callVars, worldVars, Inductive, Types, Answered,
      Working, Refusals
<1>2. ASSUME NEW w \in Calls, Acquire(w) \/ PinDirectory(w) \/ Look(w) \/ OpenStage(w) \/
            WriteStage(w) \/ SyncStage(w)
      PROVE  Answered'
  BY <1>2 DEF Acquire, Goto, PinDirectory, Look, Quiet, OpenStage, StageStep, WriteStage,
      SyncStage, fileVars, callVars, worldVars, Inductive, Types, Answered, Working, Refusals
<1>3. ASSUME NEW w \in Calls, ReadExisting(w) \/ Confirm(w) \/ Recover(w) \/ Raises(w)
      PROVE  Answered'
  BY <1>3 DEF ReadExisting, Conclude, Quiet, Goto, Confirm, Proved, Recover, Raises, fileVars,
      callVars, worldVars, Inductive, Types, Answered, Working, Refusals
<1>4. ASSUME NEW w \in Calls, AboutToLink(w) \/ LinkExists(w) PROVE Answered'
  BY <1>4 DEF AboutToLink, Quiet, Goto, LinkExists, fileVars, callVars, worldVars, Inductive,
      Types, Answered, Working, Refusals
<1>5. ASSUME NEW w \in Calls, Link(w) PROVE Answered'
  BY <1>5, LinkPlaces DEF fileVars, callVars, worldVars, Inductive, Types, Answered, Working,
      Refusals
<1>6. ASSUME NEW w \in Calls, SyncDirectory(w) PROVE Answered'
  BY <1>6 DEF SyncDirectory, SyncedDirectory, Quiet, Goto, fileVars, callVars, worldVars,
      Inductive, Types, Answered, Working, Refusals
<1>7. ASSUME NEW w \in Calls, Cleanup(w) PROVE Answered'
  BY <1>7 DEF Cleanup, Goto, fileVars, callVars, worldVars, Inductive, Types, Answered, Working,
      Refusals
<1>8. ASSUME NEW w \in Calls, ProcessDies(w) PROVE Answered'
  BY <1>8 DEF ProcessDies, Goto, fileVars, callVars, worldVars, Inductive, Types, Answered,
      Working, Refusals
<1>9. ASSUME UserChanges \/ DirectoryMoves PROVE Answered'
  BY <1>9, UserPlaces DEF fileVars, callVars, worldVars, Inductive, Types, Answered, Working,
      Refusals
<1>10. ASSUME PowerLoss PROVE Answered'
  BY <1>10, PowerLossPlaces DEF fileVars, callVars, worldVars, Inductive, Types, Answered,
      Working, Refusals
<1>11. CASE UNCHANGED vars
  BY <1>11 DEF vars, fileVars, callVars, worldVars, Inductive, Types, Answered, Working, Refusals
<1> QED
  BY <1>1, <1>2, <1>3, <1>4, <1>5, <1>6, <1>7, <1>8, <1>9, <1>10, <1>11 DEF Next, Step

(* Success is only reported for what was seen. *)
LEMMA SeenKept == ASSUME Inductive, [Next]_vars PROVE Seen'
<1>1. ASSUME NEW w \in Calls, Begin(w) PROVE Seen'
  BY <1>1, BeginAges DEF Begin, Goto, fileVars, callVars, worldVars, Inductive, Types, Seen, Says,
      Holds, Answered
<1>2. ASSUME NEW w \in Calls, Acquire(w) \/ PinDirectory(w) \/ Look(w) \/ OpenStage(w) \/
            WriteStage(w) \/ SyncStage(w)
      PROVE  Seen'
  BY <1>2 DEF Acquire, Goto, PinDirectory, Look, Quiet, OpenStage, StageStep, WriteStage,
      SyncStage, fileVars, callVars, worldVars, Inductive, Types, Seen, Says, Holds, Answered
<1>3. ASSUME NEW w \in Calls, ReadExisting(w) \/ Confirm(w) \/ Recover(w) \/ Raises(w) PROVE Seen'
  BY <1>3 DEF ReadExisting, Conclude, Quiet, Goto, Confirm, Proved, Recover, Raises, fileVars,
      callVars, worldVars, Inductive, Types, Seen, Says, Holds, Answered
<1>4. ASSUME NEW w \in Calls, AboutToLink(w) \/ LinkExists(w) PROVE Seen'
  BY <1>4 DEF AboutToLink, Quiet, Goto, LinkExists, fileVars, callVars, worldVars, Inductive,
      Types, Seen, Says, Holds, Answered
<1>5. ASSUME NEW w \in Calls, Link(w) PROVE Seen'
  BY <1>5, LinkPlaces DEF fileVars, callVars, worldVars, Inductive, Types, Seen, Says, Holds,
      Answered
<1>6. ASSUME NEW w \in Calls, SyncDirectory(w) PROVE Seen'
  BY <1>6 DEF SyncDirectory, SyncedDirectory, Quiet, Goto, fileVars, callVars, worldVars,
      Inductive, Types, Seen, Says, Holds, Answered
<1>7. ASSUME NEW w \in Calls, Cleanup(w) PROVE Seen'
  BY <1>7 DEF Cleanup, Goto, fileVars, callVars, worldVars, Inductive, Types, Seen, Says, Holds,
      Answered
<1>8. ASSUME NEW w \in Calls, ProcessDies(w) PROVE Seen'
  BY <1>8 DEF ProcessDies, Goto, fileVars, callVars, worldVars, Inductive, Types, Seen, Says,
      Holds, Answered
<1>9. ASSUME UserChanges \/ DirectoryMoves PROVE Seen'
  BY <1>9, UserPlaces DEF fileVars, callVars, worldVars, Inductive, Types, Seen, Says, Holds,
      Answered
<1>10. ASSUME PowerLoss PROVE Seen'
  BY <1>10, PowerLossPlaces DEF fileVars, callVars, worldVars, Inductive, Types, Seen, Says,
      Holds, Answered
<1>11. CASE UNCHANGED vars
  BY <1>11 DEF vars, fileVars, callVars, worldVars, Inductive, Types, Seen, Says, Holds, Answered
<1> QED
  BY <1>1, <1>2, <1>3, <1>4, <1>5, <1>6, <1>7, <1>8, <1>9, <1>10, <1>11 DEF Next, Step

(* What was confirmed outlives every step but a user's. *)
LEMMA DurableKept == ASSUME Inductive, [Next]_vars PROVE Durable'
<1>1. ASSUME NEW w \in Calls, Begin(w) PROVE Durable'
  <2>1. /\ pc' = [pc EXCEPT ![w] = "waiting"] /\ result' = [result EXCEPT ![w] = "none"]
        /\ verdict' = [verdict EXCEPT ![w] = "none"] /\ touched' = [touched EXCEPT ![w] = FALSE]
    BY <1>1 DEF Begin, Goto
  <2>2. /\ \A v \in Calls : Holds(entry, v) => Holds(entry', v)
        /\ \A v \in Calls : Holds(disk, v) => Holds(disk', v)
        /\ disk = entry => disk' = entry'
    BY <1>1, BeginAges DEF Inductive, Holds
  <2>3. pc'[w] = "waiting" /\ ~Says(w, "created")'
    BY <2>1 DEF Inductive, Types, Says
  <2>4. ASSUME NEW v \in Calls, v # w
        PROVE  /\ pc'[v] = pc[v] /\ (touched'[v] <=> touched[v])
               /\ (Says(v, "created")' <=> Says(v, "created"))
    BY <2>1, <2>4 DEF Inductive, Types, Says
  <2> QED
    BY <2>2, <2>3, <2>4 DEF Inductive, Durable
<1>2. ASSUME NEW w \in Calls, Acquire(w) \/ PinDirectory(w) \/ Look(w) \/ OpenStage(w) \/
            WriteStage(w) \/ SyncStage(w)
      PROVE  Durable'
  BY <1>2 DEF Acquire, Goto, PinDirectory, Look, Quiet, OpenStage, StageStep, WriteStage,
      SyncStage, fileVars, callVars, worldVars, Inductive, Types, LockHeld, Complete, Answered,
      Durable, Says, Holds
<1>3. ASSUME NEW w \in Calls, ReadExisting(w) \/ Confirm(w) \/ Recover(w) \/ Raises(w)
      PROVE  Durable'
  BY <1>3 DEF ReadExisting, Conclude, Quiet, Goto, Confirm, Proved, Recover, Raises, fileVars,
      callVars, worldVars, Inductive, Types, LockHeld, Complete, Answered, Durable, Says, Holds
<1>4. ASSUME NEW w \in Calls, AboutToLink(w) \/ LinkExists(w) PROVE Durable'
  BY <1>4 DEF AboutToLink, Quiet, Goto, LinkExists, fileVars, callVars, worldVars, Inductive,
      Types, LockHeld, Complete, Answered, Durable, Says, Holds
<1>5. ASSUME NEW w \in Calls, Link(w) PROVE Durable'
  BY <1>5, LinkPlaces DEF fileVars, callVars, worldVars, Inductive, Types, LockHeld, Complete,
      Answered, Durable, Says, Holds
<1>6. ASSUME NEW w \in Calls, SyncDirectory(w) PROVE Durable'
  BY <1>6 DEF SyncDirectory, SyncedDirectory, Quiet, Goto, fileVars, callVars, worldVars,
      Inductive, Types, LockHeld, Complete, Answered, Durable, Says, Holds
<1>7. ASSUME NEW w \in Calls, Cleanup(w) PROVE Durable'
  BY <1>7 DEF Cleanup, Goto, fileVars, callVars, worldVars, Inductive, Types, LockHeld, Complete,
      Answered, Durable, Says, Holds
<1>8. ASSUME NEW w \in Calls, ProcessDies(w) PROVE Durable'
  BY <1>8 DEF ProcessDies, Goto, fileVars, callVars, worldVars, Inductive, Types, LockHeld,
      Complete, Answered, Durable, Says, Holds
<1>9. ASSUME UserChanges \/ DirectoryMoves PROVE Durable'
  BY <1>9, UserPlaces DEF fileVars, callVars, worldVars, Inductive, Types, LockHeld, Complete,
      Answered, Durable, Says, Holds
<1>10. ASSUME PowerLoss PROVE Durable'
  BY <1>10, PowerLossPlaces DEF fileVars, callVars, worldVars, Inductive, Types, LockHeld,
      Complete, Answered, Durable, Says, Holds
<1>11. CASE UNCHANGED vars
  BY <1>11 DEF vars, fileVars, callVars, worldVars, Inductive, Types, LockHeld, Complete,
      Answered, Durable, Says, Holds
<1> QED
  BY <1>1, <1>2, <1>3, <1>4, <1>5, <1>6, <1>7, <1>8, <1>9, <1>10, <1>11 DEF Next, Step
-----------------------------------------------------------------------------
LEMMA Initially == ASSUME Init PROVE Inductive
BY CreateIfAbsentAssumption
DEF Init, Never, Inductive, Types, Places, Answers, LockHeld, Complete, Answered, Working, Refusals,
    Seen, Durable, Says, Holds

(* The strengthened invariant holds of every run.                          *)
THEOREM Invariance == Spec => []Inductive
<1>1. Inductive /\ [Next]_vars => Inductive'
  BY TypesKept, LockKept, CompleteKept, AnsweredKept, SeenKept, DurableKept DEF Inductive
<1> QED
  BY <1>1, Initially, PTL DEF Spec

(* What a creator is told is true of the directory, also after a crash:    *)
(* create_capture_if_absent and create_promotion_if_absent put complete    *)
(* bytes only, a refusal left nothing behind, a success stood at the path  *)
(* and is durable, and one caller at a time holds coordinated_write.       *)
THEOREM AnswersAreHonest == Spec => []AnswersHonest
<1>1. Inductive => TypeOK
  BY DEF Inductive, Types, Places, Answers, LockHeld, TypeOK
<1>2. Inductive => NeverPartial /\ RefusedMeansUnwritten
  BY DEF Inductive, Complete, Answered, NeverPartial, RefusedMeansUnwritten
<1>3. Inductive => SuccessMeansPresent /\ CreatedIsDurable
  BY DEF Inductive, Seen, Durable, Says, SuccessMeansPresent, CreatedIsDurable
<1> QED
  BY <1>1, <1>2, <1>3, Invariance, PTL DEF AnswersHonest

(* No call ever replaces an existing note, whatever other callers, crashes *)
(* and retries do: only a user changes its bytes, or a power loss.         *)
THEOREM NothingIsReplaced == Spec => NeverReplaces
<1>1. ASSUME Inductive, [Next]_vars, entry # NoFile, edits' = edits, crashes' = crashes
      PROVE  entry' # NoFile /\ entry'.bytes = entry.bytes
  <2>1. ASSUME NEW w \in Calls, Begin(w) PROVE entry' # NoFile /\ entry'.bytes = entry.bytes
    BY <1>1, <2>1, BeginAges DEF Inductive
  <2>2. ASSUME NEW w \in Calls, Step(w) PROVE entry' = entry
    BY <1>1, <2>2
    DEF Step, Acquire, PinDirectory, Look, ReadExisting, OpenStage, WriteStage, SyncStage, StageStep,
        AboutToLink, Link, MayLink, LinkExists, SyncDirectory, Confirm, Raises, Cleanup, Recover,
        fileVars
  <2>3. ASSUME NEW w \in Calls, ProcessDies(w) PROVE FALSE
    BY <1>1, <2>3 DEF ProcessDies, Inductive, Types
  <2>4. ~ (UserChanges \/ DirectoryMoves \/ PowerLoss)
    BY <1>1 DEF UserChanges, DirectoryMoves, PowerLoss, Inductive, Types
  <2>5. CASE UNCHANGED vars
    BY <1>1, <2>5 DEF vars, fileVars
  <2> QED
    BY <1>1, <2>1, <2>2, <2>3, <2>4, <2>5 DEF Next
<1>2. Inductive /\ [Next]_vars =>
        [entry # NoFile /\ edits' = edits /\ crashes' = crashes
           => entry' # NoFile /\ entry'.bytes = entry.bytes]_vars
  BY <1>1
<1> QED
  BY <1>2, Invariance, PTL DEF NeverReplaces, Spec

-----------------------------------------------------------------------------
(* QueryEvaluation: what a match was judged by.                            *)

(* The least-number principle, as a fact about sets. *)
LEMMA LeastNat ==
    ASSUME NEW S, S \subseteq Nat, S # {}
    PROVE  \E m \in S : \A k \in S : m <= k
<1> DEFINE Less == {x \in Nat \X Nat : x[1] < x[2]}
<1>1. Less = OpToRel(<, Nat)
  BY DEF OpToRel
<1>w. IsWellFoundedOn(Less, Nat)
  BY <1>1, NatLessThanWellFounded
<1>2. PICK m \in S : \A k \in S : ~(<<k, m>> \in Less)
  <2> HIDE DEF Less
  <2> QED
    BY <1>w, WFMin, Zenon
<1>3. ASSUME NEW k \in S PROVE m <= k
  <2>1. ~(k < m)
    BY <1>2 DEF Less
  <2> QED
    BY <2>1
<1> QED
  BY <1>3

FileStates == [text : Texts, edit : Nat] \cup {Gone}
LinksEver == UNION {t.links : t \in Texts}
QueryStages == {"start", "listing", "incoming", "reading", "ranking", "confirming", "selecting", "targets",
                "inspecting", "answered", "unsafe", "unavailable"}
QueryReasons == {"discovery_limit", "relationship_limit", "content_limit", "note_unavailable"}
Evaluations ==
    [by : {"live", "scoped"}, at : QueryStages, listed : SUBSET Notes, states : [Notes -> FileStates],
     chosen : SUBSET Notes, todo : SUBSET Notes, sources : SUBSET (Notes \cup {Outside}),
     eligible : SUBSET Notes, looked : SUBSET Notes, edges : SUBSET (Notes \X LinksEver),
     matches : SUBSET Notes, reasons : SUBSET QueryReasons, missed : BOOLEAN]

QueryTyped ==
    /\ files \in [Notes -> FileStates] /\ past \in [Notes -> SUBSET Texts]
    /\ query \in Requests /\ edited \in Nat /\ eval \in Evaluations

(* The part of a request that is about paths. *)
OnPath(p) ==
    /\ query.folder = Gone \/ (query.folder = "folder" /\ p \in InFolder)
    /\ query.paths = {} \/ p \in query.paths

(* Whatever the evaluation knows of a note, the note was. *)
Remembered ==
    /\ \A p \in Notes : files[p] # Gone => files[p].text \in past[p]
    /\ \A p \in Notes : eval.states[p] # Gone => eval.states[p].text \in past[p]
    /\ \A p \in eval.listed : past[p] # {}
    /\ \A e \in eval.edges : e[2][1] \in eval.listed /\ \E t \in past[e[1]] : e[2] \in t.links

(* Nothing is found before it is looked for. *)
Early == eval.at \in {"start", "listing", "selecting", "targets"} =>
            eval.edges = {} /\ eval.looked = {} /\ eval.eligible = {} /\ eval.matches = {} /\ eval.todo = {}

(* The links of a candidate are those of the text that it is judged by. *)
OneTextEach ==
    /\ eval.by = "live" /\ eval.at \in {"incoming", "reading"} =>
          /\ \A e \in eval.edges :
                /\ e[1] \in eval.looked =>
                      eval.states[e[1]] # Gone /\ e[2] \in eval.states[e[1]].text.links
                /\ e[1] \notin eval.looked => eval.at = "reading" /\ e[1] \notin eval.todo
          /\ eval.sources \cap eval.looked = {}
    /\ eval.by = "scoped" =>
          /\ \A e \in eval.edges : eval.states[e[1]] # Gone /\ e[2] \in eval.states[e[1]].text.links
          /\ \A p \in eval.eligible : eval.states[p] # Gone /\ MatchesText(eval.states[p].text)
          /\ eval.at # "start" => \A p \in eval.listed : eval.states[p] # Gone

JudgedWell ==
    /\ eval.chosen \subseteq query.paths
    /\ \A p \in eval.todo : OnPath(p)
    /\ \A p \in eval.matches : Satisfies(p, past)
    /\ eval.by = "live" =>
          /\ \A p \in eval.eligible : Satisfies(p, past)
          /\ eval.at = "confirming" => eval.todo \subseteq eval.eligible
    /\ eval.by = "scoped" => ~query.semantic
    /\ eval.by = "live" => eval.at \notin {"selecting", "targets", "inspecting"}
    /\ eval.by = "scoped" => eval.at \notin {"listing", "incoming", "reading", "ranking", "confirming"}

(* A request that leads out of the vault is refused before anything is judged. *)
TargetsInside ==
    \/ eval.at \in {"listing", "incoming", "reading", "ranking", "confirming", "inspecting"}
    \/ eval.eligible # {} \/ eval.matches # {}
    => Outside \notin LinkTargets

TruthInv == QueryTyped /\ Remembered /\ Early /\ OneTextEach /\ JudgedWell

(* Over notes nobody edited. *)
Right == {p \in Existing : Satisfies(p, past)}
LinksKnown(p) == Exists(p) => EdgesOf(p, files[p].text) \subseteq eval.edges

LiveComplete ==
    /\ eval.at = "listing" =>
          /\ eval.chosen = query.paths \cap Existing /\ Outside \notin LinkTargets
          /\ eval.missed = \E p \in LinkTargets : ~Exists(p)
    /\ \A p \in eval.looked : eval.states[p] = files[p]
    /\ eval.at \in {"incoming", "reading", "ranking", "confirming"} => eval.listed = Existing
    /\ eval.at \in {"incoming", "reading"} =>
          /\ Right \subseteq eval.todo \cup eval.eligible
          /\ eval.todo # {} => \A r \in Incoming : r.other \in eval.sources \/ LinksKnown(r.other)
    /\ eval.at = "reading" => eval.sources = {}
    /\ eval.eligible \subseteq Existing
    /\ eval.matches \subseteq Existing
    /\ eval.at \in {"incoming", "reading", "ranking"} => eval.matches = {}
    /\ eval.at = "ranking" => query.semantic
    /\ eval.at = "confirming" /\ ~query.semantic =>
          Right \subseteq eval.matches \cup eval.todo /\ Cardinality(eval.matches) <= query.limit
    /\ eval.at = "answered" /\ ~query.semantic =>
          Cardinality(eval.matches) = IF Cardinality(Right) > query.limit THEN query.limit ELSE Cardinality(Right)

ScopedComplete ==
    /\ eval.at # "start" => eval.listed = Existing /\ \A p \in Existing : eval.states[p] = files[p]
    /\ eval.at \in {"targets", "inspecting"} => eval.chosen = query.paths \cap Existing
    /\ eval.at = "inspecting" =>
          /\ Right \subseteq eval.todo \cup eval.matches
          /\ eval.looked \subseteq Existing
          /\ \A p \in eval.looked :
                /\ MatchesText(files[p].text) => p \in eval.eligible
                /\ Derives(p, files[p].text) => LinksKnown(p)
          /\ \A r \in Incoming : r.other \in eval.sources \cup eval.looked
    /\ eval.matches \subseteq Existing
    /\ eval.todo \subseteq eval.listed
    /\ eval.at = "answered" => Right \subseteq eval.matches

Unedited == \A p \in Notes : past[p] = IF files[p] = Gone THEN {} ELSE {files[p].text}

CompleteInv ==
    edited = 0 =>
        /\ Unedited
        /\ eval.by = "live" => LiveComplete
        /\ eval.by = "scoped" /\ eval.reasons = {} => ScopedComplete

QueryInv == TruthInv /\ TargetsInside /\ CompleteInv

-----------------------------------------------------------------------------
(* The first note of a set in canonical order is one of the set. *)
LEMMA FirstIsIn ==
    ASSUME NEW S, S \subseteq Notes, S # {}
    PROVE  First(S) \in S
<1> DEFINE places == {PositionOf[p] : p \in S}
<1>1. places \subseteq Nat /\ places # {}
  BY QueryAssumption
<1>2. PICK m \in places : \A k \in places : m <= k
  <2> HIDE DEF places
  <2> QED
    BY <1>1, LeastNat
<1>3. \E p \in S : \A q \in S : PositionOf[p] <= PositionOf[q]
  BY <1>2
<1> QED
  BY <1>3 DEF First

(* A step of the evaluation changes neither the vault nor what is meant. *)
LEMMA MeaningKept ==
    ASSUME OthersKept
    PROVE  /\ \A p : Satisfies(p, past)' <=> Satisfies(p, past)
           /\ \A t : MatchesText(t)' <=> MatchesText(t)
           /\ \A p : OnPath(p)' <=> OnPath(p)
           /\ \A p : Exists(p)' <=> Exists(p)
           /\ \A p, t : Derives(p, t)' <=> Derives(p, t)
           /\ Existing' = Existing /\ Right' = Right
           /\ Incoming' = Incoming /\ Outgoing' = Outgoing /\ LinkTargets' = LinkTargets
<1>1. \A p : Satisfies(p, past)' <=> Satisfies(p, past)
  BY DEF OthersKept, Satisfies, MatchesText, Outgoing, Incoming, LinksTo, MatchesTags, MatchesMetadata, SameScalarType
<1>2. \A t : MatchesText(t)' <=> MatchesText(t)
  BY DEF OthersKept, MatchesText, MatchesTags, MatchesMetadata, SameScalarType
<1>3. /\ \A p : OnPath(p)' <=> OnPath(p)
      /\ \A p : Exists(p)' <=> Exists(p)
      /\ \A p, t : Derives(p, t)' <=> Derives(p, t)
      /\ Existing' = Existing
      /\ Incoming' = Incoming /\ Outgoing' = Outgoing /\ LinkTargets' = LinkTargets
  BY DEF OthersKept, OnPath, Exists, Derives, Existing, Incoming, Outgoing, LinkTargets
<1>4. Right' = Right
  BY <1>1, <1>3 DEF Right
<1> QED
  BY <1>1, <1>2, <1>3, <1>4

(* A note is rightly matched if one of its texts fits, and has all of its  *)
(* links that the evaluation knows of.                                     *)
LEMMA MatchedRightly ==
    ASSUME NEW p \in Notes, NEW t \in past[p], NEW edges,
           OnPath(p), MatchesText(t), Matches(p, edges),
           \A e \in edges : past[e[2][1]] # {} /\ \E u \in past[e[1]] : e[2] \in u.links,
           \A e \in edges : e[1] = p => e[2] \in t.links
    PROVE  Satisfies(p, past)
<1>1. ASSUME NEW r \in Outgoing PROVE past[r.other] # {} /\ LinksTo(t, r.other, r.origin)
  BY <1>1 DEF Outgoing, Matches, LinksTo
<1>2. ASSUME NEW r \in Incoming PROVE \E u \in past[r.other] : LinksTo(u, p, r.origin)
  BY <1>2 DEF Incoming, Matches, LinksTo
<1> QED
  BY <1>1, <1>2 DEF OnPath, Satisfies

(* A link is one of those that some text has. *)
LEMMA EdgesTyped ==
    ASSUME NEW p \in Notes, NEW f \in FileStates, f # Gone
    PROVE  EdgesOf(p, f.text) \subseteq Notes \X LinksEver
  BY DEF EdgesOf, FileStates, LinksEver

(* What reading the next candidate comes to. *)
LEMMA CandidateRead ==
    ASSUME QueryTyped, ReadCandidate
    PROVE  LET p == First(eval.todo)
               f == TextRead(p)
               edges == IF f = Gone \/ Outgoing = {} THEN eval.edges ELSE eval.edges \cup EdgesOf(p, f.text) IN
           /\ p \in eval.todo /\ p \in Notes /\ f \in FileStates
           /\ eval.by = "live" /\ eval.at = "reading" /\ OthersKept
           /\ eval'.at = eval.at /\ eval'.todo = eval.todo \ {p} /\ eval'.edges = edges
           /\ eval'.eligible = IF f # Gone /\ MatchesText(f.text) /\ Matches(p, edges) THEN eval.eligible \cup {p}
                               ELSE eval.eligible
           /\ eval'.by = eval.by /\ eval'.listed = eval.listed /\ eval'.states = eval.states
           /\ eval'.chosen = eval.chosen /\ eval'.looked = eval.looked /\ eval'.sources = eval.sources
           /\ eval'.matches = eval.matches
           /\ eval' \in Evaluations
<1> DEFINE p == First(eval.todo)
           f == TextRead(p)
           edges == IF f = Gone \/ Outgoing = {} THEN eval.edges ELSE eval.edges \cup EdgesOf(p, f.text)
           eligible == IF f # Gone /\ MatchesText(f.text) /\ Matches(p, edges) THEN eval.eligible \cup {p}
                       ELSE eval.eligible
<1>1. eval \in Evaluations /\ eval.by = "live" /\ eval.at = "reading" /\ OthersKept
  BY DEF QueryTyped, ReadCandidate, Live
<1>2. p \in eval.todo /\ p \in Notes
  BY <1>1, FirstIsIn DEF ReadCandidate, Evaluations
<1>3. eval' = [eval EXCEPT !.todo = @ \ {p}, !.edges = edges, !.eligible = eligible]
  BY DEF ReadCandidate
<1>4. f \in FileStates
  BY <1>1, <1>2 DEF QueryTyped, TextRead, Evaluations
<1>5. edges \in SUBSET (Notes \X LinksEver)
  BY <1>1, <1>2, <1>4, EdgesTyped DEF Evaluations
<1>6. eligible \in SUBSET Notes
  BY <1>1, <1>2 DEF Evaluations
<1>7. /\ eval'.at = eval.at /\ eval'.todo = eval.todo \ {p} /\ eval'.edges = edges /\ eval'.eligible = eligible
      /\ eval'.by = eval.by /\ eval'.listed = eval.listed /\ eval'.states = eval.states
      /\ eval'.chosen = eval.chosen /\ eval'.looked = eval.looked /\ eval'.sources = eval.sources
      /\ eval'.matches = eval.matches
      /\ eval' \in Evaluations
  <2> HIDE DEF p, f, edges, eligible
  <2> QED
    BY <1>1, <1>2, <1>3, <1>5, <1>6 DEF Evaluations
<1> QED
  BY <1>1, <1>2, <1>4, <1>7

(* Action by action: a step keeps what is known true of the notes. *)
LEMMA ReadKeepsTruth ==
    ASSUME TruthInv, ReadCandidate
    PROVE  TruthInv'
<1> DEFINE p == First(eval.todo)
           f == TextRead(p)
           edges == IF f = Gone \/ Outgoing = {} THEN eval.edges ELSE eval.edges \cup EdgesOf(p, f.text)
           eligible == IF f # Gone /\ MatchesText(f.text) /\ Matches(p, edges) THEN eval.eligible \cup {p}
                       ELSE eval.eligible
<1>a. QueryTyped /\ eval \in Evaluations
  BY DEF TruthInv, QueryTyped
<1>b. /\ p \in eval.todo /\ p \in Notes /\ f \in FileStates
      /\ eval.by = "live" /\ eval.at = "reading" /\ OthersKept
  BY <1>a, CandidateRead
<1>c. /\ eval'.at = eval.at /\ eval'.todo = eval.todo \ {p} /\ eval'.edges = edges /\ eval'.eligible = eligible
      /\ eval'.by = eval.by /\ eval'.listed = eval.listed /\ eval'.states = eval.states
      /\ eval'.chosen = eval.chosen /\ eval'.looked = eval.looked /\ eval'.sources = eval.sources
      /\ eval'.matches = eval.matches
      /\ eval' \in Evaluations
  BY <1>a, CandidateRead
<1>1. QueryTyped'
  BY <1>a, <1>b, <1>c DEF QueryTyped, OthersKept
<1>2. Remembered'
  <2>1. f # Gone => f.text \in past[p]
    BY <1>b DEF TruthInv, Remembered, TextRead
  <2>2. \A d \in edges : d \in eval.edges \/ (d[1] = p /\ f # Gone /\ d[2] \in f.text.links /\ d[2][1] \in eval.listed)
    BY DEF EdgesOf
  <2> HIDE DEF p, f, edges, eligible
  <2>3. ASSUME NEW d \in edges PROVE d[2][1] \in eval.listed /\ \E t \in past[d[1]] : d[2] \in t.links
    <3>1. CASE d \in eval.edges
      BY <3>1 DEF TruthInv, Remembered
    <3>2. CASE d[1] = p /\ f # Gone /\ d[2] \in f.text.links /\ d[2][1] \in eval.listed
      BY <2>1, <3>2
    <3> QED
      BY <2>2, <3>1, <3>2
  <2> QED
    BY <1>b, <1>c, <2>3 DEF TruthInv, Remembered, OthersKept
<1>3. Early'
  BY <1>b, <1>c DEF Early
<1>4. OneTextEach'
  <2>1. \A e \in edges : e \in eval.edges \/ (e[1] = p /\ f # Gone /\ e[2] \in f.text.links)
    BY DEF EdgesOf
  <2>2. \A e \in eval.edges : /\ e[1] \in eval.looked =>
                                    eval.states[e[1]] # Gone /\ e[2] \in eval.states[e[1]].text.links
                              /\ e[1] \notin eval.looked => e[1] \notin eval.todo
    BY <1>b DEF TruthInv, OneTextEach
  <2>3. p \in eval.looked => f = eval.states[p]
    BY DEF TextRead
  <2>4. eval.sources \cap eval.looked = {}
    BY <1>b DEF TruthInv, OneTextEach
  <2> HIDE DEF p, f, edges, eligible
  <2>5. \A e \in edges : /\ e[1] \in eval.looked =>
                                    eval.states[e[1]] # Gone /\ e[2] \in eval.states[e[1]].text.links
                         /\ e[1] \notin eval.looked => e[1] \notin eval.todo \ {p}
    BY <2>1, <2>2, <2>3
  <2> QED
    BY <1>b, <1>c, <2>4, <2>5 DEF OneTextEach
<1>5. ASSUME f # Gone, MatchesText(f.text), Matches(p, edges) PROVE Satisfies(p, past)
  <2>1. f.text \in past[p]
    BY <1>a, <1>b, <1>5 DEF TruthInv, Remembered, TextRead
  <2>2. \A e \in edges : past[e[2][1]] # {} /\ \E u \in past[e[1]] : e[2] \in u.links
    BY <1>2, <1>b, <1>c DEF Remembered, OthersKept
  <2>3. \A e \in edges : e[1] = p => e[2] \in f.text.links
    <3>1. \A e \in edges : e \in eval.edges \/ e[2] \in f.text.links
      BY DEF EdgesOf
    <3>2. \A e \in eval.edges : e[1] = p => p \in eval.looked /\ e[2] \in eval.states[p].text.links
      BY <1>b DEF TruthInv, OneTextEach
    <3>3. p \in eval.looked => f = eval.states[p]
      BY DEF TextRead
    <3> HIDE DEF p, f, edges
    <3> QED
      BY <3>1, <3>2, <3>3
  <2>4. OnPath(p)
    BY <1>b DEF TruthInv, JudgedWell
  <2> HIDE DEF p, f, edges
  <2> QED
    BY <1>b, <1>5, <2>1, <2>2, <2>3, <2>4, MatchedRightly
<1>6. JudgedWell'
  <2> HIDE DEF p, f, edges
  <2> QED
    BY <1>b, <1>c, <1>5, MeaningKept DEF TruthInv, JudgedWell, OthersKept
<1> QED
  BY <1>1, <1>2, <1>3, <1>4, <1>6 DEF TruthInv

(* Many steps move the evaluation on and learn nothing. *)
KnowledgeKept ==
    /\ OthersKept
    /\ eval'.by = eval.by /\ eval'.listed = eval.listed /\ eval'.states = eval.states
    /\ eval'.edges = eval.edges /\ eval'.looked = eval.looked /\ eval'.eligible = eval.eligible

LEMMA KnowledgeRemembered ==
    ASSUME TruthInv, KnowledgeKept, eval' \in Evaluations,
           eval'.at \notin {"incoming", "reading"}, eval.at = "start" => eval.by = "live" \/ eval'.at = "start"
    PROVE  QueryTyped' /\ Remembered' /\ OneTextEach'
<1>1. QueryTyped'
  BY DEF TruthInv, QueryTyped, KnowledgeKept, OthersKept
<1>2. Remembered'
  BY DEF TruthInv, Remembered, KnowledgeKept, OthersKept
<1>3. /\ \A e \in eval'.edges : eval.by = "scoped" =>
            eval'.states[e[1]] # Gone /\ e[2] \in eval'.states[e[1]].text.links
      /\ \A p \in eval'.eligible : eval.by = "scoped" =>
            eval'.states[p] # Gone /\ MatchesText(eval'.states[p].text)
      /\ eval.by = "scoped" /\ eval'.at # "start" => \A p \in eval'.listed : eval'.states[p] # Gone
  BY DEF TruthInv, OneTextEach, KnowledgeKept
<1>4. OneTextEach'
  BY <1>3, MeaningKept DEF OneTextEach, KnowledgeKept
<1> QED
  BY <1>1, <1>2, <1>4

LEMMA RefuseKeepsTruth ==
    ASSUME TruthInv, OthersKept, NEW refusal \in {"unsafe", "unavailable"}, Refuse(refusal),
           eval.at = "start" => eval.by = "live"
    PROVE  TruthInv'
<1>a. eval \in Evaluations
  BY DEF TruthInv, QueryTyped
<1>b. /\ eval'.at = refusal /\ eval'.matches = {}
      /\ eval'.by = eval.by /\ eval'.listed = eval.listed /\ eval'.states = eval.states
      /\ eval'.chosen = eval.chosen /\ eval'.todo = eval.todo /\ eval'.eligible = eval.eligible
      /\ eval'.looked = eval.looked /\ eval'.edges = eval.edges
      /\ eval' \in Evaluations
  BY <1>a DEF Refuse, Evaluations, QueryStages
<1>1. KnowledgeKept
  BY <1>b DEF KnowledgeKept
<1>2. Early' /\ JudgedWell'
  BY <1>b, MeaningKept DEF Early, TruthInv, JudgedWell, OthersKept
<1> QED
  BY <1>1, <1>2, <1>b, KnowledgeRemembered DEF TruthInv

(* What looking at the named paths comes to. *)
LEMMA Resolved ==
    ASSUME QueryTyped, Resolve
    PROVE  /\ eval.by = "live" /\ eval.at = "start" /\ OthersKept
           /\ \/ Refuse("unsafe")
              \/ /\ Outside \notin LinkTargets
                 /\ eval'.at = "listing" /\ eval'.chosen = {p \in query.paths : Exists(p)}
                 /\ eval'.missed = \E p \in LinkTargets : ~Exists(p)
                 /\ eval'.by = eval.by /\ eval'.listed = eval.listed /\ eval'.states = eval.states
                 /\ eval'.todo = eval.todo /\ eval'.matches = eval.matches /\ eval'.eligible = eval.eligible
                 /\ eval'.looked = eval.looked /\ eval'.edges = eval.edges
                 /\ eval' \in Evaluations
<1>a. eval \in Evaluations /\ eval.at = "start" /\ eval.by = "live" /\ OthersKept
  BY DEF QueryTyped, Resolve, Live
<1>1. CASE Outside \in query.paths \cup LinkTargets
  BY <1>a, <1>1 DEF Resolve
<1>2. CASE Outside \notin query.paths \cup LinkTargets
  <2> DEFINE chosen == {p \in query.paths : Exists(p)}
             missed == \E p \in LinkTargets : ~Exists(p)
  <2>1. eval' = [eval EXCEPT !.at = "listing", !.chosen = chosen, !.missed = missed]
    BY <1>2 DEF Resolve
  <2>2. chosen \subseteq Notes /\ missed \in BOOLEAN
    BY DEF Exists
  <2>3. /\ eval'.at = "listing" /\ eval'.chosen = chosen /\ eval'.missed = missed
        /\ eval'.by = eval.by /\ eval'.listed = eval.listed /\ eval'.states = eval.states
        /\ eval'.todo = eval.todo /\ eval'.matches = eval.matches /\ eval'.eligible = eval.eligible
        /\ eval'.looked = eval.looked /\ eval'.edges = eval.edges
        /\ eval' \in Evaluations
    <3> HIDE DEF chosen, missed
    <3> QED
      BY <1>a, <2>1, <2>2 DEF Evaluations, QueryStages
  <2> QED
    BY <1>a, <1>2, <2>3
<1> QED
  BY <1>1, <1>2

LEMMA ResolveKeepsTruth ==
    ASSUME TruthInv, Resolve
    PROVE  TruthInv'
<1>a. QueryTyped /\ eval.at = "start" /\ eval.by = "live" /\ OthersKept
  BY Resolved DEF TruthInv
<1>1. CASE Refuse("unsafe")
  BY <1>a, <1>1, RefuseKeepsTruth
<1>2. CASE ~Refuse("unsafe")
  <2>1. /\ eval'.at = "listing" /\ eval'.chosen = {p \in query.paths : Exists(p)}
        /\ eval'.by = eval.by /\ eval'.listed = eval.listed /\ eval'.states = eval.states
        /\ eval'.todo = eval.todo /\ eval'.matches = eval.matches /\ eval'.eligible = eval.eligible
        /\ eval'.looked = eval.looked /\ eval'.edges = eval.edges
        /\ eval' \in Evaluations
    BY <1>a, <1>2, Resolved
  <2>2. KnowledgeKept
    BY <1>a, <2>1 DEF KnowledgeKept
  <2>3. Early' /\ JudgedWell'
    BY <1>a, <2>1, MeaningKept DEF TruthInv, JudgedWell, OthersKept, Early
  <2> QED
    BY <1>a, <2>1, <2>2, <2>3, KnowledgeRemembered DEF TruthInv
<1> QED
  BY <1>1, <1>2

(* What the enumeration of a live query comes to. *)
LEMMA Listed ==
    ASSUME QueryTyped, List
    PROVE  /\ eval.by = "live" /\ eval.at = "listing" /\ OthersKept
           /\ eval'.at = "incoming" /\ eval'.listed = Existing
           /\ eval'.todo = (IF eval.missed THEN {} ELSE {p \in Existing : InScope(p)})
           /\ eval'.sources = (IF eval.missed THEN {} ELSE {r.other : r \in Incoming})
           /\ eval'.by = eval.by /\ eval'.states = eval.states /\ eval'.chosen = eval.chosen
           /\ eval'.matches = eval.matches /\ eval'.eligible = eval.eligible
           /\ eval'.looked = eval.looked /\ eval'.edges = eval.edges
           /\ eval' \in Evaluations
<1>1. eval \in Evaluations /\ eval.by = "live" /\ eval.at = "listing" /\ OthersKept
  BY DEF QueryTyped, List, Live
<1>2. {r.other : r \in Incoming} \subseteq Notes \cup {Outside}
  BY QueryAssumption DEF QueryTyped, Incoming
<1>3. Existing \subseteq Notes
  BY DEF Existing
<1> QED
  BY <1>1, <1>2, <1>3 DEF List, Evaluations, QueryStages

LEMMA ListKeepsTruth ==
    ASSUME TruthInv, List
    PROVE  TruthInv'
<1>a. /\ eval.at = "listing" /\ eval.by = "live" /\ OthersKept
      /\ eval'.at = "incoming" /\ eval'.listed = Existing
      /\ eval'.todo = (IF eval.missed THEN {} ELSE {p \in Existing : InScope(p)})
      /\ eval'.by = eval.by /\ eval'.states = eval.states /\ eval'.chosen = eval.chosen
      /\ eval'.matches = eval.matches /\ eval'.eligible = eval.eligible
      /\ eval'.looked = eval.looked /\ eval'.edges = eval.edges
      /\ eval' \in Evaluations
  BY Listed DEF TruthInv
<1>b. /\ eval.edges = {} /\ eval.looked = {} /\ eval.eligible = {} /\ eval.matches = {}
  BY <1>a DEF TruthInv, Early
<1>1. QueryTyped'
  BY <1>a DEF TruthInv, QueryTyped, OthersKept
<1>2. Remembered'
  BY <1>a, <1>b DEF TruthInv, Remembered, OthersKept, Existing, Exists
<1>3. Early' /\ OneTextEach'
  BY <1>a, <1>b DEF Early, OneTextEach
<1>4. JudgedWell'
  <2>1. \A p \in eval'.todo : OnPath(p)
    BY <1>a DEF InScope, OnPath, TruthInv, JudgedWell
  <2> QED
    BY <1>a, <1>b, <2>1, MeaningKept DEF TruthInv, JudgedWell, OthersKept
<1> QED
  BY <1>1, <1>2, <1>3, <1>4 DEF TruthInv

(* What reading an incoming source comes to. *)
LEMMA IncomingRead ==
    ASSUME QueryTyped, NEW p \in Notes, ReadIncoming(p)
    PROVE  LET edges == IF Exists(p) THEN eval.edges \cup EdgesOf(p, files[p].text) ELSE eval.edges IN
           /\ eval.by = "live" /\ eval.at = "incoming" /\ p \in eval.sources /\ OthersKept
           /\ eval'.at = eval.at /\ eval'.sources = eval.sources \ {p} /\ eval'.looked = eval.looked \cup {p}
           /\ eval'.states = [eval.states EXCEPT ![p] = files[p]] /\ eval'.edges = edges
           /\ eval'.by = eval.by /\ eval'.listed = eval.listed /\ eval'.chosen = eval.chosen
           /\ eval'.todo = eval.todo /\ eval'.matches = eval.matches /\ eval'.eligible = eval.eligible
           /\ eval' \in Evaluations
<1> DEFINE edges == IF Exists(p) THEN eval.edges \cup EdgesOf(p, files[p].text) ELSE eval.edges
<1>1. /\ eval \in Evaluations /\ eval.at = "incoming" /\ eval.by = "live" /\ OthersKept
      /\ p \in eval.sources /\ files[p] \in FileStates
  BY DEF QueryTyped, ReadIncoming, Live
<1>2. edges \subseteq Notes \X LinksEver
  BY <1>1, EdgesTyped DEF Exists, Evaluations
<1>3. eval' = [eval EXCEPT !.sources = @ \ {p}, !.looked = @ \cup {p}, !.states[p] = files[p], !.edges = edges]
  BY DEF ReadIncoming
<1> HIDE DEF edges
<1> QED
  BY <1>1, <1>2, <1>3 DEF Evaluations, edges

LEMMA IncomingKeepsTruth ==
    ASSUME TruthInv, NEW p \in Notes, ReadIncoming(p)
    PROVE  TruthInv'
<1> DEFINE edges == IF Exists(p) THEN eval.edges \cup EdgesOf(p, files[p].text) ELSE eval.edges
<1>a. QueryTyped /\ eval \in Evaluations /\ files[p] \in FileStates
  BY DEF TruthInv, QueryTyped
<1>b. /\ eval.by = "live" /\ eval.at = "incoming" /\ p \in eval.sources /\ OthersKept
      /\ eval'.at = eval.at /\ eval'.sources = eval.sources \ {p} /\ eval'.looked = eval.looked \cup {p}
      /\ eval'.states = [eval.states EXCEPT ![p] = files[p]] /\ eval'.edges = edges
      /\ eval'.by = eval.by /\ eval'.listed = eval.listed /\ eval'.chosen = eval.chosen
      /\ eval'.todo = eval.todo /\ eval'.matches = eval.matches /\ eval'.eligible = eval.eligible
      /\ eval' \in Evaluations
  BY <1>a, IncomingRead
<1>1. QueryTyped'
  BY <1>a, <1>b DEF QueryTyped, OthersKept
<1>2. Remembered'
  BY <1>a, <1>b DEF TruthInv, Remembered, OthersKept, Exists, EdgesOf, Evaluations
<1>3. Early'
  BY <1>b DEF Early
<1>4. OneTextEach'
  BY <1>a, <1>b DEF TruthInv, OneTextEach, Evaluations, EdgesOf, Exists
<1>5. JudgedWell'
  BY <1>b, MeaningKept DEF TruthInv, JudgedWell, OthersKept
<1> QED
  BY <1>1, <1>2, <1>3, <1>4, <1>5 DEF TruthInv

LEMMA StartKeepsTruth ==
    ASSUME TruthInv, StartCandidates
    PROVE  TruthInv'
<1>a. /\ eval \in Evaluations /\ eval.at = "incoming" /\ eval.by = "live" /\ OthersKept
  BY DEF TruthInv, QueryTyped, StartCandidates, Live
<1>b. /\ eval'.at = "reading" /\ eval'.sources = eval.sources /\ eval'.looked = eval.looked
      /\ eval'.states = eval.states /\ eval'.edges = eval.edges
      /\ eval'.by = eval.by /\ eval'.listed = eval.listed /\ eval'.chosen = eval.chosen
      /\ eval'.todo = eval.todo /\ eval'.matches = eval.matches /\ eval'.eligible = eval.eligible
      /\ eval' \in Evaluations
  BY <1>a DEF StartCandidates, Evaluations, QueryStages
<1>1. QueryTyped' /\ Remembered' /\ Early'
  BY <1>a, <1>b DEF TruthInv, QueryTyped, Remembered, OthersKept, Early
<1>2. OneTextEach'
  BY <1>a, <1>b DEF TruthInv, OneTextEach
<1>3. JudgedWell'
  BY <1>a, <1>b, MeaningKept DEF TruthInv, JudgedWell, OthersKept
<1> QED
  BY <1>1, <1>2, <1>3 DEF TruthInv

LEMMA EndKeepsTruth ==
    ASSUME TruthInv, EndCandidates
    PROVE  TruthInv'
<1>a. /\ eval \in Evaluations /\ eval.at = "reading" /\ eval.by = "live" /\ OthersKept
  BY DEF TruthInv, QueryTyped, EndCandidates, Live
<1>b. /\ eval'.at \in {"ranking", "confirming"} /\ eval'.todo = eval.eligible
      /\ eval'.states = eval.states /\ eval'.edges = eval.edges /\ eval'.looked = eval.looked
      /\ eval'.by = eval.by /\ eval'.listed = eval.listed /\ eval'.chosen = eval.chosen
      /\ eval'.matches = eval.matches /\ eval'.eligible = eval.eligible
      /\ eval' \in Evaluations
  BY <1>a DEF EndCandidates, Evaluations, QueryStages
<1>1. KnowledgeKept
  BY <1>a, <1>b DEF KnowledgeKept
<1>2. \A p \in eval.eligible : OnPath(p)
  BY <1>a DEF TruthInv, JudgedWell, Satisfies, OnPath
<1>3. JudgedWell' /\ Early'
  BY <1>a, <1>b, <1>2, MeaningKept DEF TruthInv, JudgedWell, OthersKept, Early
<1> QED
  BY <1>a, <1>b, <1>1, <1>3, KnowledgeRemembered DEF TruthInv

LEMMA RankKeepsTruth ==
    ASSUME TruthInv, Rank
    PROVE  TruthInv'
<1>a. /\ eval \in Evaluations /\ eval.at = "ranking" /\ eval.by = "live" /\ OthersKept
  BY DEF TruthInv, QueryTyped, Rank, Live
<1>1. CASE Refuse("unavailable")
  BY <1>a, <1>1, RefuseKeepsTruth
<1>2. ASSUME NEW found \in SUBSET Notes,
             eval' = [eval EXCEPT !.at = "confirming", !.todo = found \cap eval.eligible]
      PROVE  TruthInv'
  <2>1. /\ eval'.at = "confirming" /\ eval'.todo = found \cap eval.eligible
        /\ eval'.states = eval.states /\ eval'.edges = eval.edges /\ eval'.looked = eval.looked
        /\ eval'.by = eval.by /\ eval'.listed = eval.listed /\ eval'.chosen = eval.chosen
        /\ eval'.matches = eval.matches /\ eval'.eligible = eval.eligible
        /\ eval' \in Evaluations
    BY <1>a, <1>2 DEF Evaluations, QueryStages
  <2>2. KnowledgeKept
    BY <1>a, <2>1 DEF KnowledgeKept
  <2>3. \A p \in eval.eligible : OnPath(p)
    BY <1>a DEF TruthInv, JudgedWell, Satisfies, OnPath
  <2>4. JudgedWell' /\ Early'
    BY <1>a, <2>1, <2>3, MeaningKept DEF TruthInv, JudgedWell, OthersKept, Early
  <2> QED
    BY <1>a, <2>1, <2>2, <2>4, KnowledgeRemembered DEF TruthInv
<1> QED
  BY <1>1, <1>2 DEF Rank

(* What confirming a note does. *)
LEMMA Confirmed ==
    ASSUME QueryTyped, ConfirmMatch
    PROVE  /\ eval' \in Evaluations /\ OthersKept /\ eval.by = "live" /\ eval.at = "confirming"
           /\ eval'.states = eval.states /\ eval'.edges = eval.edges /\ eval'.looked = eval.looked
           /\ eval'.by = eval.by /\ eval'.listed = eval.listed /\ eval'.chosen = eval.chosen
           /\ eval'.eligible = eval.eligible
           /\ \/ /\ eval.todo = {} \/ Cardinality(eval.matches) >= query.limit
                 /\ eval'.at = "answered" /\ eval'.todo = eval.todo /\ eval'.matches = eval.matches
              \/ \E p \in eval.todo :
                    /\ ~(Cardinality(eval.matches) >= query.limit)
                    /\ eval'.at = "confirming" /\ eval'.todo = eval.todo \ {p}
                    /\ eval'.matches = IF Exists(p) THEN eval.matches \cup {p} ELSE eval.matches
<1>a. eval \in Evaluations /\ eval.by = "live" /\ eval.at = "confirming" /\ OthersKept
  BY DEF QueryTyped, ConfirmMatch, Live
<1>1. CASE eval.todo = {} \/ Cardinality(eval.matches) >= query.limit
  <2>1. eval' = [eval EXCEPT !.at = "answered"]
    BY <1>1 DEF ConfirmMatch
  <2> QED
    BY <1>a, <1>1, <2>1 DEF Evaluations, QueryStages
<1>2. CASE ~(eval.todo = {} \/ Cardinality(eval.matches) >= query.limit)
  <2>1. First(eval.todo) \in eval.todo
    BY <1>a, <1>2, FirstIsIn DEF Evaluations
  <2>2. PICK p \in eval.todo :
           eval' = [eval EXCEPT !.todo = @ \ {p}, !.matches = IF Exists(p) THEN @ \cup {p} ELSE @]
    BY <1>2, <2>1 DEF ConfirmMatch
  <2>3. p \in Notes
    BY <1>a DEF Evaluations
  <2> QED
    BY <1>a, <1>2, <2>2, <2>3 DEF Evaluations
<1> QED
  BY <1>1, <1>2

LEMMA ConfirmKeepsTruth ==
    ASSUME TruthInv, ConfirmMatch
    PROVE  TruthInv'
<1>a. QueryTyped
  BY DEF TruthInv
<1>1. KnowledgeKept /\ eval' \in Evaluations /\ eval.at = "confirming"
  BY <1>a, Confirmed DEF KnowledgeKept
<1>2. eval'.at \in {"confirming", "answered"} /\ eval'.todo \subseteq eval.todo
      /\ eval'.matches \subseteq eval.matches \cup eval.todo
  BY <1>a, Confirmed
<1>3. JudgedWell' /\ Early'
  BY <1>a, <1>2, Confirmed, MeaningKept DEF TruthInv, JudgedWell, OthersKept, Early
<1> QED
  BY <1>1, <1>2, <1>3, KnowledgeRemembered DEF TruthInv

(* What supplying an enumeration comes to. *)
LEMMA Supplied ==
    ASSUME QueryTyped, Supply
    PROVE  \E subset \in SUBSET Existing :
              /\ eval'.at = (IF subset = Existing \/ query.relations = {} THEN "selecting" ELSE "answered")
              /\ eval'.listed = subset
              /\ eval'.states = [p \in Notes |-> IF p \in subset THEN files[p] ELSE Gone]
              /\ eval'.by = eval.by /\ eval'.chosen = eval.chosen /\ eval'.todo = eval.todo
              /\ eval'.edges = eval.edges /\ eval'.looked = eval.looked /\ eval'.matches = eval.matches
              /\ eval'.eligible = eval.eligible
              /\ subset # Existing => eval'.reasons # {}
              /\ eval' \in Evaluations
<1>a. eval \in Evaluations
  BY DEF QueryTyped
<1>1. PICK subset \in SUBSET Existing :
         LET supplied == [eval EXCEPT !.at = "selecting", !.listed = subset,
                                      !.states = [p \in Notes |-> IF p \in subset THEN files[p] ELSE Gone]] IN
         eval' = IF subset = Existing THEN supplied
                 ELSE IF query.relations = {} THEN Because("discovery_limit", supplied)
                 ELSE Because("relationship_limit", [supplied EXCEPT !.at = "answered"])
  BY DEF Supply
<1> DEFINE states == [p \in Notes |-> IF p \in subset THEN files[p] ELSE Gone]
           supplied == [eval EXCEPT !.at = "selecting", !.listed = subset, !.states = states]
           at == IF subset = Existing \/ query.relations = {} THEN "selecting" ELSE "answered"
           more == IF subset = Existing THEN {} ELSE IF query.relations = {} THEN {"discovery_limit"}
                   ELSE {"relationship_limit"}
<1>2. states \in [Notes -> FileStates] /\ subset \in SUBSET Notes
  BY DEF QueryTyped, FileStates, Existing
<1>3. eval' = [eval EXCEPT !.at = at, !.listed = subset, !.states = states, !.reasons = @ \cup more]
  <2>1. CASE subset = Existing
    <3>1. eval' = supplied /\ at = "selecting" /\ more = {}
      BY <1>1, <2>1
    <3> HIDE DEF states, at, more
    <3> QED
      BY <1>a, <3>1 DEF Evaluations
  <2>2. CASE subset # Existing /\ query.relations = {}
    <3>1. eval' = Because("discovery_limit", supplied) /\ at = "selecting" /\ more = {"discovery_limit"}
      BY <1>1, <2>2
    <3> HIDE DEF states, at, more
    <3> QED
      BY <1>a, <3>1 DEF Evaluations, Because
  <2>3. CASE subset # Existing /\ query.relations # {}
    <3>1. /\ eval' = Because("relationship_limit", [supplied EXCEPT !.at = "answered"])
          /\ at = "answered" /\ more = {"relationship_limit"}
      BY <1>1, <2>3
    <3> HIDE DEF states, at, more
    <3> QED
      BY <1>a, <3>1 DEF Evaluations, Because
  <2> QED
    BY <2>1, <2>2, <2>3
<1>4. at \in QueryStages /\ more \in SUBSET QueryReasons /\ (subset # Existing => more # {})
  BY DEF QueryStages, QueryReasons
<1>5. /\ eval'.at = at /\ eval'.listed = subset /\ eval'.states = states
      /\ eval'.by = eval.by /\ eval'.chosen = eval.chosen /\ eval'.todo = eval.todo
      /\ eval'.edges = eval.edges /\ eval'.looked = eval.looked /\ eval'.matches = eval.matches
      /\ eval'.eligible = eval.eligible /\ eval'.reasons = eval.reasons \cup more
      /\ eval' \in Evaluations
  <2> HIDE DEF states, at, more
  <2> QED
    BY <1>a, <1>2, <1>3, <1>4 DEF Evaluations
<1>6. subset # Existing => eval'.reasons # {}
  <2> HIDE DEF states, at, more
  <2> QED
    BY <1>4, <1>5
<1> QED
  BY <1>5, <1>6

LEMMA SupplyKeepsTruth ==
    ASSUME TruthInv, Supply
    PROVE  TruthInv'
<1>a. eval \in Evaluations /\ eval.at = "start" /\ eval.by = "scoped" /\ OthersKept
  BY DEF TruthInv, QueryTyped, Supply, Scoped
<1>b. /\ eval.edges = {} /\ eval.looked = {} /\ eval.eligible = {} /\ eval.matches = {} /\ eval.todo = {}
  BY <1>a DEF TruthInv, Early
<1>1. PICK subset \in SUBSET Existing :
         /\ eval'.at \in {"selecting", "answered"} /\ eval'.listed = subset
         /\ eval'.states = [p \in Notes |-> IF p \in subset THEN files[p] ELSE Gone]
         /\ eval'.by = eval.by /\ eval'.chosen = eval.chosen /\ eval'.todo = eval.todo
         /\ eval'.edges = eval.edges /\ eval'.looked = eval.looked /\ eval'.matches = eval.matches
         /\ eval'.eligible = eval.eligible
         /\ eval' \in Evaluations
  BY Supplied DEF TruthInv
<1>2. QueryTyped'
  BY <1>a, <1>1 DEF TruthInv, QueryTyped, OthersKept
<1>3. Remembered'
  BY <1>a, <1>b, <1>1 DEF TruthInv, Remembered, OthersKept, Existing, Exists
<1>4. Early' /\ OneTextEach'
  BY <1>a, <1>b, <1>1 DEF Early, OneTextEach, Existing, Exists
<1>5. JudgedWell'
  BY <1>a, <1>b, <1>1, MeaningKept DEF TruthInv, JudgedWell, OthersKept
<1> QED
  BY <1>2, <1>3, <1>4, <1>5 DEF TruthInv

(* A step that adds a reason, at most, and moves a scoped evaluation on. *)
LEMMA ScopedMoveKeepsTruth ==
    ASSUME TruthInv, OthersKept, NEW at \in {"targets", "inspecting", "answered"}, NEW more \in SUBSET QueryReasons,
           NEW chosen \in SUBSET (query.paths \cap Notes), NEW todo \in SUBSET Notes,
           NEW sources \in SUBSET (Notes \cup {Outside}), NEW matches \in SUBSET eval.matches,
           eval.by = "scoped", eval.at # "start",
           eval' = [eval EXCEPT !.at = at, !.chosen = chosen, !.todo = todo, !.sources = sources,
                                !.matches = matches, !.reasons = @ \cup more],
           \A p \in todo : OnPath(p),
           at = "targets" => eval.at = "selecting" /\ todo = {}
    PROVE  TruthInv'
<1>a. eval \in Evaluations
  BY DEF TruthInv, QueryTyped
<1>b. /\ eval'.at = at /\ eval'.chosen = chosen /\ eval'.todo = todo /\ eval'.matches = matches
      /\ eval'.states = eval.states /\ eval'.edges = eval.edges /\ eval'.looked = eval.looked
      /\ eval'.by = eval.by /\ eval'.listed = eval.listed /\ eval'.eligible = eval.eligible
      /\ eval' \in Evaluations
  BY <1>a DEF Evaluations, QueryStages
<1>1. KnowledgeKept
  BY <1>b DEF KnowledgeKept
<1>2. JudgedWell'
  BY <1>b, MeaningKept DEF TruthInv, JudgedWell, OthersKept
<1>3. Early'
  BY <1>b DEF TruthInv, Early
<1> QED
  BY <1>b, <1>1, <1>2, <1>3, KnowledgeRemembered DEF TruthInv

(* The answers of a lookup exclude each other. *)
LEMMA ExactIs ==
    ASSUME NEW p
    PROVE  /\ Exact(p) = "unsafe" <=> p = Outside
           /\ Exact(p) = "missing" <=> p # Outside /\ p \notin eval.listed
           /\ Exact(p) = "resolved" <=> p # Outside /\ p \in eval.listed /\ Unchanged(p)
           /\ Exact(p) = "unavailable" <=> p # Outside /\ p \in eval.listed /\ ~Unchanged(p)
  BY DEF Exact

(* What selecting the named paths comes to. *)
LEMMA Selected ==
    ASSUME QueryTyped, SelectPaths
    PROVE  \/ Refuse("unsafe")
           \/ \E more \in SUBSET QueryReasons :
                 LET chosen == {p \in query.paths : Exact(p) = "resolved"}
                     at == IF query.paths # {} /\ chosen = {} THEN "answered" ELSE "targets" IN
                 /\ eval' = [eval EXCEPT !.at = at, !.chosen = chosen, !.reasons = @ \cup more]
                 /\ (\E p \in query.paths : Exact(p) = "unavailable") => more # {}
                 /\ \A p \in query.paths : Exact(p) # "unsafe"
                 /\ eval.reasons \subseteq eval'.reasons
<1>a. eval \in Evaluations
  BY DEF QueryTyped
<1>1. CASE \E p \in query.paths : Exact(p) = "unsafe"
  BY <1>1 DEF SelectPaths
<1>2. CASE ~\E p \in query.paths : Exact(p) = "unsafe"
  <2> DEFINE chosen == {p \in query.paths : Exact(p) = "resolved"}
             at == IF query.paths # {} /\ chosen = {} THEN "answered" ELSE "targets"
             more == IF \E p \in query.paths : Exact(p) = "unavailable" THEN {"note_unavailable"} ELSE {}
  <2>1. eval' = IF \E p \in query.paths : Exact(p) = "unavailable"
                THEN Because("note_unavailable", [eval EXCEPT !.at = at, !.chosen = chosen])
                ELSE [eval EXCEPT !.at = at, !.chosen = chosen]
    BY <1>2 DEF SelectPaths
  <2>2. eval' = [eval EXCEPT !.at = at, !.chosen = chosen, !.reasons = @ \cup more]
    <3>1. CASE \E p \in query.paths : Exact(p) = "unavailable"
      <4>1. more = {"note_unavailable"} /\ eval' = Because("note_unavailable", [eval EXCEPT !.at = at, !.chosen = chosen])
        BY <2>1, <3>1
      <4> HIDE DEF at, chosen, more
      <4> QED
        BY <1>a, <4>1 DEF Because, Evaluations
    <3>2. CASE ~\E p \in query.paths : Exact(p) = "unavailable"
      <4>1. more = {} /\ eval' = [eval EXCEPT !.at = at, !.chosen = chosen]
        BY <2>1, <3>2
      <4> HIDE DEF at, chosen, more
      <4> QED
        BY <1>a, <4>1 DEF Evaluations
    <3> QED
      BY <3>1, <3>2
  <2>3. more \in SUBSET QueryReasons /\ ((\E p \in query.paths : Exact(p) = "unavailable") => more # {})
    BY DEF QueryReasons
  <2>4. eval.reasons \subseteq eval'.reasons
    <3> HIDE DEF at, chosen, more
    <3> QED
      BY <1>a, <2>2 DEF Evaluations
  <2> HIDE DEF more
  <2> QED
    BY <1>2, <2>2, <2>3, <2>4
<1> QED
  BY <1>1, <1>2

LEMMA SelectKeepsTruth ==
    ASSUME TruthInv, SelectPaths
    PROVE  TruthInv'
<1>a. eval \in Evaluations /\ QueryTyped /\ eval.at = "selecting" /\ eval.by = "scoped" /\ OthersKept
  BY DEF TruthInv, QueryTyped, SelectPaths, Scoped
<1>b. eval.todo = {}
  BY <1>a DEF TruthInv, Early
<1> DEFINE chosen == {p \in query.paths : Exact(p) = "resolved"}
           at == IF query.paths # {} /\ chosen = {} THEN "answered" ELSE "targets"
<1>1. CASE Refuse("unsafe")
  BY <1>a, <1>1, RefuseKeepsTruth
<1>2. ASSUME NEW more \in SUBSET QueryReasons,
             eval' = [eval EXCEPT !.at = at, !.chosen = chosen, !.reasons = @ \cup more]
      PROVE  TruthInv'
  <2>1. chosen \in SUBSET (query.paths \cap Notes)
    BY <1>a, ExactIs DEF Evaluations
  <2>2. at \in {"targets", "answered"}
    OBVIOUS
  <2>3. eval' = [eval EXCEPT !.at = at, !.chosen = chosen, !.todo = eval.todo, !.sources = eval.sources,
                             !.matches = eval.matches, !.reasons = @ \cup more]
    <3> HIDE DEF at, chosen
    <3> QED
      BY <1>a, <1>2 DEF Evaluations
  <2>4. eval.sources \in SUBSET (Notes \cup {Outside}) /\ eval.todo \in SUBSET Notes
    BY <1>a DEF Evaluations
  <2> HIDE DEF at, chosen
  <2> QED
    BY <1>a, <1>b, <2>1, <2>2, <2>3, <2>4, ScopedMoveKeepsTruth
<1> QED
  BY <1>a, <1>1, <1>2, Selected

LEMMA TargetsKeepTruth ==
    ASSUME TruthInv, FindTargets
    PROVE  TruthInv'
<1>a. eval \in Evaluations /\ eval.at = "targets" /\ eval.by = "scoped" /\ OthersKept
  BY DEF TruthInv, QueryTyped, FindTargets, Scoped
<1>b. eval.todo \in SUBSET Notes /\ eval.sources \in SUBSET (Notes \cup {Outside})
      /\ eval.chosen \in SUBSET (query.paths \cap Notes)
      /\ \A p \in eval.todo : OnPath(p)
  BY <1>a DEF TruthInv, JudgedWell, Evaluations
<1>1. CASE Refuse("unsafe") \/ Refuse("unavailable")
  BY <1>a, <1>1, RefuseKeepsTruth
<1>2. CASE eval' = [eval EXCEPT !.at = "answered"]
  <2>1. eval' = [eval EXCEPT !.at = "answered", !.chosen = eval.chosen, !.todo = eval.todo,
                             !.sources = eval.sources, !.matches = eval.matches, !.reasons = @ \cup {}]
    BY <1>a, <1>2 DEF Evaluations
  <2> QED
    BY <1>a, <1>b, <2>1, ScopedMoveKeepsTruth
<1> DEFINE sources == {r.other : r \in Incoming}
           todo == {p \in eval.listed : InScope(p)}
<1>3. CASE eval' = [eval EXCEPT !.at = "inspecting", !.sources = sources, !.todo = todo]
  <2>1. sources \in SUBSET (Notes \cup {Outside})
    BY QueryAssumption DEF TruthInv, QueryTyped, Incoming
  <2>2. todo \in SUBSET Notes /\ \A p \in todo : OnPath(p)
    BY <1>a, <1>b DEF Evaluations, OnPath, InScope
  <2> HIDE DEF sources, todo
  <2>3. eval' = [eval EXCEPT !.at = "inspecting", !.chosen = eval.chosen, !.todo = todo,
                             !.sources = sources, !.matches = eval.matches, !.reasons = @ \cup {}]
    BY <1>a, <1>3 DEF Evaluations
  <2> QED
    BY <1>a, <1>b, <2>1, <2>2, <2>3, ScopedMoveKeepsTruth
<1> QED
  BY <1>1, <1>2, <1>3 DEF FindTargets

LEMMA ExhaustKeepsTruth ==
    ASSUME TruthInv, Exhaust \/ EndInspection
    PROVE  TruthInv'
<1>a. eval \in Evaluations /\ eval.at = "inspecting" /\ eval.by = "scoped" /\ OthersKept
  BY DEF TruthInv, QueryTyped, Exhaust, EndInspection, Scoped
<1>b. eval.todo \in SUBSET Notes /\ eval.sources \in SUBSET (Notes \cup {Outside})
      /\ eval.chosen \in SUBSET (query.paths \cap Notes)
      /\ \A p \in eval.todo : OnPath(p)
  BY <1>a DEF TruthInv, JudgedWell, Evaluations
<1>1. \E matches \in SUBSET eval.matches, more \in SUBSET QueryReasons :
        eval' = [eval EXCEPT !.at = "answered", !.chosen = eval.chosen, !.todo = eval.todo,
                             !.sources = eval.sources, !.matches = matches, !.reasons = @ \cup more]
  <2>1. CASE eval' = Because("content_limit", [eval EXCEPT !.at = "answered"])
    <3>1. eval' = [eval EXCEPT !.at = "answered", !.chosen = eval.chosen, !.todo = eval.todo,
                     !.sources = eval.sources, !.matches = eval.matches, !.reasons = @ \cup {"content_limit"}]
      BY <1>a, <2>1 DEF Because, Evaluations
    <3> QED
      BY <3>1 DEF QueryReasons
  <2>2. CASE eval' = Because("relationship_limit", [eval EXCEPT !.at = "answered", !.matches = {}])
    <3>1. eval' = [eval EXCEPT !.at = "answered", !.chosen = eval.chosen, !.todo = eval.todo,
                     !.sources = eval.sources, !.matches = {}, !.reasons = @ \cup {"relationship_limit"}]
      BY <1>a, <2>2 DEF Because, Evaluations
    <3> QED
      BY <3>1 DEF QueryReasons
  <2>3. CASE eval' = [eval EXCEPT !.at = "answered"]
    <3>1. eval' = [eval EXCEPT !.at = "answered", !.chosen = eval.chosen, !.todo = eval.todo,
                     !.sources = eval.sources, !.matches = eval.matches, !.reasons = @ \cup {}]
      BY <1>a, <2>3 DEF Evaluations
    <3> QED
      BY <3>1
  <2> QED
    BY <2>1, <2>2, <2>3 DEF Exhaust, EndInspection
<1>2. PICK matches \in SUBSET eval.matches, more \in SUBSET QueryReasons :
        eval' = [eval EXCEPT !.at = "answered", !.chosen = eval.chosen, !.todo = eval.todo,
                             !.sources = eval.sources, !.matches = matches, !.reasons = @ \cup more]
  BY <1>1
<1> QED
  BY <1>a, <1>b, <1>2, ScopedMoveKeepsTruth

(* What inspecting a note adds to what is known. *)
LEMMA InspectionAdds ==
    ASSUME QueryTyped, NEW p \in Notes
    PROVE  LET e == Inspected(p) IN
           /\ e \in Evaluations
           /\ e.by = eval.by /\ e.at = eval.at /\ e.listed = eval.listed /\ e.states = eval.states
           /\ e.chosen = eval.chosen /\ e.todo = eval.todo /\ e.sources = eval.sources
           /\ e.matches = eval.matches /\ e.looked = eval.looked \cup {p} /\ eval.reasons \subseteq e.reasons
           /\ \A x \in e.eligible : x \in eval.eligible \/ (x = p /\ Unchanged(p) /\ MatchesText(files[p].text))
           /\ \A d \in e.edges : \/ d \in eval.edges
                                 \/ /\ Unchanged(p) /\ d[1] = p /\ d[2] \in files[p].text.links
                                    /\ d[2][1] \in eval.listed
<1>a. eval \in Evaluations /\ files[p] \in FileStates
  BY DEF QueryTyped
<1>1. CASE p \in eval.looked
  <2>1. Inspected(p) = eval
    BY <1>1 DEF Inspected
  <2> QED
    BY <1>a, <1>1, <2>1
<1> DEFINE unavailable == Because("note_unavailable", [eval EXCEPT !.looked = @ \cup {p}])
<1>2. CASE Inspected(p) = unavailable
  <2>1. /\ unavailable \in Evaluations
        /\ unavailable.by = eval.by /\ unavailable.at = eval.at /\ unavailable.listed = eval.listed
        /\ unavailable.states = eval.states /\ unavailable.chosen = eval.chosen /\ unavailable.todo = eval.todo
        /\ unavailable.sources = eval.sources /\ unavailable.matches = eval.matches
        /\ unavailable.looked = eval.looked \cup {p} /\ eval.reasons \subseteq unavailable.reasons
        /\ unavailable.eligible = eval.eligible /\ unavailable.edges = eval.edges
    BY <1>a DEF Because, Evaluations, QueryReasons
  <2> HIDE DEF unavailable
  <2> QED
    BY <1>2, <2>1
<1> DEFINE t == files[p].text
           eligible == IF MatchesText(t) THEN eval.eligible \cup {p} ELSE eval.eligible
           seen == [eval EXCEPT !.looked = @ \cup {p}, !.eligible = eligible]
           links == {<<p, l>> : l \in {l \in t.links : Exact(l[1]) = "resolved"}}
<1>3. CASE p \notin eval.looked /\ Unchanged(p) /\ Inspected(p) # unavailable
  <2>1. \E more \in {{}, links} :
           Inspected(p) = [eval EXCEPT !.looked = @ \cup {p}, !.eligible = eligible, !.edges = @ \cup more]
    <3>1. Inspected(p) = IF ~Derives(p, t) THEN seen ELSE [seen EXCEPT !.edges = @ \cup links]
      BY <1>3 DEF Inspected
    <3> HIDE DEF eligible, links
    <3>2. seen = [eval EXCEPT !.looked = @ \cup {p}, !.eligible = eligible, !.edges = @ \cup {}]
      BY <1>a DEF Evaluations
    <3>3. [seen EXCEPT !.edges = @ \cup links]
            = [eval EXCEPT !.looked = @ \cup {p}, !.eligible = eligible, !.edges = @ \cup links]
      BY <1>a DEF Evaluations
    <3> QED
      BY <3>1, <3>2, <3>3
  <2>2. PICK more \in {{}, links} :
           Inspected(p) = [eval EXCEPT !.looked = @ \cup {p}, !.eligible = eligible, !.edges = @ \cup more]
    BY <2>1
  <2>3. more \subseteq Notes \X LinksEver
    BY <1>a, <1>3 DEF FileStates, LinksEver, Unchanged, Exists
  <2>4. eligible \subseteq Notes
    BY <1>a DEF Evaluations
  <2>5. \A d \in more : d[1] = p /\ d[2] \in t.links /\ d[2][1] \in eval.listed
    BY ExactIs
  <2>6. \A x \in eligible : x \in eval.eligible \/ (x = p /\ MatchesText(t))
    OBVIOUS
  <2> DEFINE edges == eval.edges \cup more
  <2>7. edges \in SUBSET (Notes \X LinksEver)
    BY <1>a, <2>3 DEF Evaluations
  <2>8. Inspected(p) = [eval EXCEPT !.looked = @ \cup {p}, !.eligible = eligible, !.edges = edges]
    BY <2>2
  <2>9. ASSUME NEW e, e = [eval EXCEPT !.looked = @ \cup {p}, !.eligible = eligible, !.edges = edges]
        PROVE  /\ e \in Evaluations
               /\ e.by = eval.by /\ e.at = eval.at /\ e.listed = eval.listed /\ e.states = eval.states
               /\ e.chosen = eval.chosen /\ e.todo = eval.todo /\ e.sources = eval.sources
               /\ e.matches = eval.matches /\ e.looked = eval.looked \cup {p} /\ e.reasons = eval.reasons
               /\ e.eligible = eligible /\ e.edges = edges
    <3> HIDE DEF eligible, links, t, edges, seen, unavailable
    <3> QED
      BY <1>a, <2>9, <2>7, <2>4 DEF Evaluations
  <2> HIDE DEF eligible, links
  <2> QED
    BY <1>3, <2>5, <2>6, <2>8, <2>9
<1> QED
  BY <1>1, <1>2, <1>3 DEF Inspected

(* An inspection keeps what is known, whatever it then does to the sets of *)
(* what is left and what matched.                                          *)
LEMMA InspectionKeepsTruth ==
    ASSUME TruthInv, OthersKept, eval.by = "scoped", eval.at = "inspecting",
           NEW p \in Notes, NEW todo \in SUBSET eval.todo, NEW sources \in SUBSET eval.sources,
           NEW matches \in SUBSET Notes, \A m \in matches : Satisfies(m, past),
           eval' = [Inspected(p) EXCEPT !.todo = todo, !.sources = sources, !.matches = matches]
    PROVE  TruthInv'
<1>a. eval \in Evaluations /\ QueryTyped
  BY DEF TruthInv, QueryTyped
<1> DEFINE e == Inspected(p)
<1>b. /\ e \in Evaluations
      /\ e.by = eval.by /\ e.at = eval.at /\ e.listed = eval.listed /\ e.states = eval.states
      /\ e.chosen = eval.chosen
      /\ \A x \in e.eligible : x \in eval.eligible \/ (x = p /\ Unchanged(p) /\ MatchesText(files[p].text))
      /\ \A d \in e.edges : \/ d \in eval.edges
                            \/ /\ Unchanged(p) /\ d[1] = p /\ d[2] \in files[p].text.links
                               /\ d[2][1] \in eval.listed
  BY <1>a, InspectionAdds
<1>c. /\ eval' \in Evaluations
      /\ eval'.by = eval.by /\ eval'.at = eval.at /\ eval'.listed = eval.listed /\ eval'.states = eval.states
      /\ eval'.chosen = eval.chosen /\ eval'.todo = todo /\ eval'.matches = matches
      /\ eval'.eligible = e.eligible /\ eval'.edges = e.edges
  <2>1. eval' = [e EXCEPT !.todo = todo, !.sources = sources, !.matches = matches]
    OBVIOUS
  <2>2. todo \in SUBSET Notes /\ sources \in SUBSET (Notes \cup {Outside})
    BY <1>a DEF Evaluations
  <2>3. matches \in SUBSET Notes
    OBVIOUS
  <2> HIDE DEF e
  <2>4. /\ eval'.by = e.by /\ eval'.at = e.at /\ eval'.listed = e.listed /\ eval'.states = e.states
        /\ eval'.chosen = e.chosen /\ eval'.todo = todo /\ eval'.matches = matches
        /\ eval'.eligible = e.eligible /\ eval'.edges = e.edges
    BY <1>b, <2>1 DEF Evaluations
  <2>5. eval' \in Evaluations
    <3>1. e \in Evaluations
      BY <1>b
    <3> QED
      BY <2>1, <2>2, <2>3, <3>1 DEF Evaluations
  <2> QED
    BY <1>b, <2>4, <2>5
<1> HIDE DEF e
<1>1. QueryTyped'
  BY <1>a, <1>c DEF QueryTyped, OthersKept
<1>2. Remembered'
  BY <1>a, <1>b, <1>c DEF TruthInv, Remembered, OthersKept, Unchanged, Exists
<1>3. Early'
  BY <1>c DEF Early
<1>4. OneTextEach'
  <2>1. /\ \A d \in e.edges : eval.states[d[1]] # Gone /\ d[2] \in eval.states[d[1]].text.links
        /\ \A x \in e.eligible : eval.states[x] # Gone /\ MatchesText(eval.states[x].text)
        /\ \A x \in eval.listed : eval.states[x] # Gone
    BY <1>b DEF TruthInv, OneTextEach, Unchanged, Exists
  <2> QED
    BY <1>c, <2>1, MeaningKept DEF OneTextEach
<1>5. JudgedWell'
  BY <1>c, MeaningKept DEF TruthInv, JudgedWell, OthersKept
<1> QED
  BY <1>1, <1>2, <1>3, <1>4, <1>5 DEF TruthInv

(* What inspecting an incoming source comes to. *)
LEMMA SourceInspected ==
    ASSUME QueryTyped, NEW p \in Notes, InspectSource(p)
    PROVE  /\ eval.by = "scoped" /\ eval.at = "inspecting" /\ OthersKept
           /\ eval' = [Inspected(p) EXCEPT !.todo = eval.todo, !.sources = eval.sources \ {p}, !.matches = eval.matches]
           /\ eval'.by = eval.by /\ eval.reasons \subseteq eval'.reasons
<1> DEFINE e == Inspected(p)
<1>1. eval.by = "scoped" /\ eval.at = "inspecting" /\ OthersKept
  BY DEF InspectSource, Scoped
<1>2. /\ e \in Evaluations /\ e.todo = eval.todo /\ e.sources = eval.sources /\ e.matches = eval.matches
      /\ e.by = eval.by /\ eval.reasons \subseteq e.reasons
  BY InspectionAdds
<1>3. eval' = [e EXCEPT !.sources = @ \ {p}]
  BY DEF InspectSource
<1> HIDE DEF e
<1>4. eval' = [e EXCEPT !.todo = eval.todo, !.sources = eval.sources \ {p}, !.matches = eval.matches]
  BY <1>2, <1>3 DEF Evaluations
<1>5. eval'.by = e.by /\ eval'.reasons = e.reasons
  BY <1>2, <1>3 DEF Evaluations
<1> QED
  BY <1>1, <1>2, <1>4, <1>5 DEF e

LEMMA SourceKeepsTruth ==
    ASSUME TruthInv, NEW p \in Notes, InspectSource(p)
    PROVE  TruthInv'
<1>1. eval \in Evaluations /\ QueryTyped
  BY DEF TruthInv, QueryTyped
<1>2. eval.matches \in SUBSET Notes /\ \A m \in eval.matches : Satisfies(m, past)
  BY <1>1 DEF TruthInv, JudgedWell, Evaluations
<1>3. eval.todo \in SUBSET eval.todo /\ eval.sources \ {p} \in SUBSET eval.sources
  OBVIOUS
<1>4. /\ eval.by = "scoped" /\ eval.at = "inspecting" /\ OthersKept
      /\ eval' = [Inspected(p) EXCEPT !.todo = eval.todo, !.sources = eval.sources \ {p}, !.matches = eval.matches]
  BY <1>1, SourceInspected
<1> QED
  BY <1>2, <1>3, <1>4, InspectionKeepsTruth

(* What inspecting the next candidate comes to. *)
LEMMA NextInspected ==
    ASSUME QueryTyped, InspectNext
    PROVE  LET p == First(eval.todo)
               e == Inspected(p) IN
           /\ p \in eval.todo /\ p \in Notes /\ eval.by = "scoped" /\ eval.at = "inspecting" /\ eval.sources = {}
           /\ OthersKept /\ e \in Evaluations
           /\ eval' = [e EXCEPT !.todo = eval.todo \ {p}, !.sources = {},
                                !.matches = IF p \in e.eligible /\ Matches(p, e.edges)
                                            THEN eval.matches \cup {p} ELSE eval.matches]
           /\ eval'.by = eval.by /\ eval.reasons \subseteq eval'.reasons
<1> DEFINE p == First(eval.todo)
           e == Inspected(p)
           matches == IF p \in e.eligible /\ Matches(p, e.edges) THEN eval.matches \cup {p} ELSE eval.matches
<1>1. eval \in Evaluations /\ eval.by = "scoped" /\ eval.at = "inspecting" /\ OthersKept
      /\ eval.sources = {} /\ eval.todo # {}
  BY DEF QueryTyped, InspectNext, Scoped
<1>2. p \in eval.todo /\ p \in Notes
  BY <1>1, FirstIsIn DEF Evaluations
<1>3. e \in Evaluations /\ e.todo = eval.todo /\ e.sources = eval.sources /\ e.matches = eval.matches
      /\ e.by = eval.by /\ eval.reasons \subseteq e.reasons
  <2> HIDE DEF p
  <2> QED
    BY <1>2, InspectionAdds DEF e
<1>4. eval' = [e EXCEPT !.todo = @ \ {p},
                        !.matches = IF p \in e.eligible /\ Matches(p, e.edges) THEN @ \cup {p} ELSE @]
  BY DEF InspectNext
<1>5. eval' = [e EXCEPT !.todo = eval.todo \ {p}, !.sources = {}, !.matches = matches]
  <2> HIDE DEF p, e
  <2> QED
    BY <1>1, <1>3, <1>4 DEF Evaluations
<1>6. eval'.by = e.by /\ eval'.reasons = e.reasons
  <2> HIDE DEF p, e
  <2> QED
    BY <1>3, <1>4 DEF Evaluations
<1> QED
  BY <1>1, <1>2, <1>3, <1>5, <1>6

LEMMA NextKeepsTruth ==
    ASSUME TruthInv, InspectNext
    PROVE  TruthInv'
<1> DEFINE p == First(eval.todo)
           e == Inspected(p)
           matches == IF p \in e.eligible /\ Matches(p, e.edges) THEN eval.matches \cup {p} ELSE eval.matches
<1>a. /\ p \in eval.todo /\ p \in Notes /\ eval.by = "scoped" /\ eval.at = "inspecting"
      /\ OthersKept /\ QueryTyped /\ eval \in Evaluations
      /\ eval' = [e EXCEPT !.todo = eval.todo \ {p}, !.sources = {}, !.matches = matches]
  BY NextInspected DEF TruthInv, QueryTyped
<1>b. /\ \A x \in e.eligible : x \in eval.eligible \/ (x = p /\ Unchanged(p) /\ MatchesText(files[p].text))
      /\ \A d \in e.edges : \/ d \in eval.edges
                            \/ /\ Unchanged(p) /\ d[1] = p /\ d[2] \in files[p].text.links
                               /\ d[2][1] \in eval.listed
  <2> HIDE DEF p
  <2> QED
    BY <1>a, InspectionAdds DEF e
<1> HIDE DEF e, p
<1>1. ASSUME p \in e.eligible, Matches(p, e.edges) PROVE Satisfies(p, past)
  <2> DEFINE t == eval.states[p].text
  <2>1. eval.states[p] # Gone /\ MatchesText(t) /\ t \in past[p]
    BY <1>a, <1>b, <1>1 DEF TruthInv, OneTextEach, Remembered, Unchanged, Exists
  <2>2. \A d \in e.edges : past[d[2][1]] # {} /\ \E u \in past[d[1]] : d[2] \in u.links
    BY <1>a, <1>b DEF TruthInv, Remembered, Unchanged, Exists
  <2>3. \A d \in e.edges : d[1] = p => d[2] \in t.links
    BY <1>a, <1>b DEF TruthInv, OneTextEach, Unchanged
  <2>4. OnPath(p)
    BY <1>a DEF TruthInv, JudgedWell
  <2> HIDE DEF t
  <2> QED
    BY <1>a, <1>1, <2>1, <2>2, <2>3, <2>4, MatchedRightly
<1>2. matches \in SUBSET Notes /\ \A m \in matches : Satisfies(m, past)
  BY <1>a, <1>1 DEF TruthInv, JudgedWell, Evaluations
<1>3. eval.todo \ {p} \in SUBSET eval.todo /\ {} \in SUBSET eval.sources
  OBVIOUS
<1> HIDE DEF matches
<1> QED
  BY <1>a, <1>2, <1>3, InspectionKeepsTruth DEF e

LEMMA EditKeepsTruth ==
    ASSUME TruthInv, TargetsInside, EditText
    PROVE  TruthInv'
<1>1. PICK p \in Notes, f \in [text : Texts, edit : {edited + 1}] \cup {Gone} :
         /\ files' = [files EXCEPT ![p] = f]
         /\ past' = [past EXCEPT ![p] = @ \cup (IF f = Gone THEN {} ELSE {f.text})]
  BY DEF EditText
<1>2. edited' = edited + 1 /\ query' = query /\ eval' = eval
  BY DEF EditText
<1>3. QueryTyped'
  BY <1>1, <1>2 DEF TruthInv, QueryTyped, FileStates
<1>4. \A q \in Notes : past[q] \subseteq past'[q]
  BY <1>1 DEF TruthInv, QueryTyped
<1>5. Remembered'
  BY <1>1, <1>2, <1>3, <1>4 DEF TruthInv, QueryTyped, Remembered, Evaluations
<1>6. \A t : MatchesText(t)' <=> MatchesText(t)
  BY <1>2 DEF MatchesText, MatchesTags, MatchesMetadata, SameScalarType
<1>7. Early' /\ OneTextEach'
  BY <1>2, <1>6 DEF TruthInv, Early, OneTextEach
<1>8. Incoming' = Incoming /\ Outgoing' = Outgoing
  BY <1>2 DEF Incoming, Outgoing
<1>9. ASSUME NEW q \in Notes, Satisfies(q, past), Outside \notin LinkTargets PROVE Satisfies(q, past)'
  <2>1. \A r \in query.relations : r.other \in Notes
    BY <1>9, QueryAssumption DEF TruthInv, QueryTyped, LinkTargets
  <2>2. /\ query.folder = Gone \/ (query.folder = "folder" /\ q \in InFolder)
        /\ query.paths = {} \/ q \in query.paths
    BY <1>9 DEF Satisfies
  <2>3. PICK t \in past[q] : MatchesText(t) /\ \A r \in Outgoing : past[r.other] # {} /\ LinksTo(t, r.other, r.origin)
    BY <1>9 DEF Satisfies
  <2>4. t \in past'[q] /\ MatchesText(t)' /\ \A r \in Outgoing : past'[r.other] # {} /\ LinksTo(t, r.other, r.origin)
    BY <1>4, <1>6, <2>1, <2>3 DEF Outgoing
  <2>5. \A r \in Incoming : \E u \in past'[r.other] : LinksTo(u, q, r.origin)
    BY <1>4, <1>9, <2>1 DEF Satisfies, Incoming
  <2> QED
    BY <1>2, <1>8, <2>2, <2>4, <2>5 DEF Satisfies
<1>10. JudgedWell'
  BY <1>2, <1>9 DEF TruthInv, QueryTyped, TargetsInside, JudgedWell, Evaluations, OnPath
<1> QED
  BY <1>3, <1>5, <1>7, <1>10 DEF TruthInv

(* No step judges a note for a request that leads out of the vault. *)
LEMMA TargetsStayInside ==
    ASSUME TruthInv, TargetsInside, QueryNext
    PROVE  TargetsInside'
<1>a. QueryTyped /\ eval \in Evaluations
  BY DEF TruthInv, QueryTyped
<1>1. query' = query
  BY DEF QueryNext, Resolve, List, StartCandidates, ReadCandidate, EndCandidates, Rank, ConfirmMatch,
         ReadIncoming, InspectSource, Supply, SelectPaths, FindTargets, InspectNext, Exhaust, EndInspection,
         EditText, OthersKept
<1>2. LinkTargets' = LinkTargets
  BY <1>1 DEF LinkTargets
<1>3. CASE Outside \notin LinkTargets
  BY <1>2, <1>3 DEF TargetsInside
<1>4. CASE Outside \in LinkTargets
  <2>1. /\ eval.at \notin {"listing", "incoming", "reading", "ranking", "confirming", "inspecting"}
        /\ eval.eligible = {} /\ eval.matches = {}
    BY <1>4 DEF TargetsInside
  <2>2. SUFFICES /\ eval'.at \notin {"listing", "incoming", "reading", "ranking", "confirming", "inspecting"}
                 /\ eval'.eligible = {} /\ eval'.matches = {}
    BY DEF TargetsInside
  <2>3. ASSUME NEW refusal \in {"unsafe", "unavailable"}, Refuse(refusal)
        PROVE  /\ eval'.at \notin {"listing", "incoming", "reading", "ranking", "confirming", "inspecting"}
               /\ eval'.eligible = {} /\ eval'.matches = {}
    BY <1>a, <2>1, <2>3 DEF Refuse, Evaluations
  <2>4. CASE Resolve
    BY <1>4, <2>3, <2>4 DEF Resolve
  <2>5. CASE Supply
    BY <1>a, <2>1, <2>5, Supplied
  <2>6. CASE SelectPaths
    <3>1. ASSUME ~Refuse("unsafe") PROVE eval'.at \in {"answered", "targets"} /\ eval'.eligible = {} /\ eval'.matches = {}
      BY <1>a, <2>1, <2>6, <3>1, Selected DEF Evaluations
    <3> QED
      BY <2>3, <3>1
  <2>7. CASE FindTargets
    BY <1>4, <2>3, <2>7, ExactIs DEF FindTargets
  <2>8. CASE EditText
    BY <2>1, <2>8 DEF EditText
  <2> QED
    BY <2>1, <2>4, <2>5, <2>6, <2>7, <2>8
    DEF QueryNext, List, StartCandidates, ReadCandidate, EndCandidates, Rank, ConfirmMatch,
        ReadIncoming, InspectSource, InspectNext, Exhaust, EndInspection, Live, Scoped
<1> QED
  BY <1>3, <1>4

(* The part about what is known, of the first state and of every step. *)
LEMMA TruthStarts ==
    ASSUME QueryInit
    PROVE  TruthInv /\ TargetsInside
<1>1. PICK evaluator \in {"live", "scoped"} :
         eval = Fresh(evaluator) /\ (evaluator = "scoped" => ~query.semantic)
  BY DEF QueryInit
<1>2. eval \in Evaluations
  BY <1>1 DEF Fresh, Evaluations, QueryStages, FileStates
<1>3. QueryTyped
  BY <1>2 DEF QueryInit, QueryTyped, FileStates
<1>4. Remembered
  BY <1>1 DEF QueryInit, Fresh, Remembered
<1>5. Early /\ OneTextEach /\ JudgedWell /\ TargetsInside
  BY <1>1 DEF Fresh, Early, OneTextEach, JudgedWell, TargetsInside
<1> QED
  BY <1>3, <1>4, <1>5 DEF TruthInv

LEMMA TruthIsKept ==
    ASSUME TruthInv, TargetsInside, [QueryNext]_queryVars
    PROVE  TruthInv' /\ TargetsInside'
<1>1. CASE UNCHANGED queryVars
  <2>1. OthersKept /\ eval' = eval
    BY <1>1 DEF queryVars, OthersKept
  <2>2. QueryTyped' /\ Remembered' /\ Early'
    BY <2>1 DEF TruthInv, QueryTyped, Remembered, Early, OthersKept
  <2>3. OneTextEach' /\ JudgedWell' /\ TargetsInside'
    BY <2>1, MeaningKept DEF TruthInv, OneTextEach, JudgedWell, TargetsInside, OthersKept
  <2> QED
    BY <2>2, <2>3 DEF TruthInv
<1>2. CASE QueryNext
  <2>1. TruthInv'
    BY <1>2, ResolveKeepsTruth, ListKeepsTruth, IncomingKeepsTruth, StartKeepsTruth, ReadKeepsTruth, EndKeepsTruth,
       RankKeepsTruth, ConfirmKeepsTruth, SupplyKeepsTruth, SelectKeepsTruth, TargetsKeepTruth, SourceKeepsTruth,
       NextKeepsTruth, ExhaustKeepsTruth, EditKeepsTruth DEF QueryNext
  <2> QED
    BY <1>2, <2>1, TargetsStayInside
<1> QED
  BY <1>1, <1>2

-----------------------------------------------------------------------------
(* Over notes nobody edited, what fits is found. *)
LEMMA FitIsMatched ==
    ASSUME QueryTyped, Unedited, NEW p \in Notes, Satisfies(p, past), NEW edges,
           Outside \notin LinkTargets, eval.listed = Existing,
           Outgoing # {} => EdgesOf(p, files[p].text) \subseteq edges,
           \A r \in Incoming : Exists(r.other) => EdgesOf(r.other, files[r.other].text) \subseteq edges
    PROVE  Exists(p) /\ MatchesText(files[p].text) /\ Matches(p, edges)
<1>1. PICK t \in past[p] : MatchesText(t) /\ \A r \in Outgoing : past[r.other] # {} /\ LinksTo(t, r.other, r.origin)
  BY DEF Satisfies
<1>2. Exists(p) /\ t = files[p].text
  BY <1>1 DEF Unedited, Exists
<1>3. \A r \in query.relations : r.other \in Notes /\ r.direction \in {"incoming", "outgoing"}
  BY QueryAssumption DEF QueryTyped, LinkTargets
<1>4. ASSUME NEW r \in query.relations, r.direction = "outgoing"
      PROVE  \E e \in edges : e[1] = p /\ e[2][1] = r.other /\ (r.origin = Gone \/ e[2][2] = r.origin)
  <2>1. PICK l \in t.links : l[1] = r.other /\ (r.origin = Gone \/ l[2] = r.origin)
    BY <1>1, <1>4 DEF Outgoing, LinksTo
  <2>2. r.other \in Existing
    BY <1>1, <1>3, <1>4 DEF Outgoing, Unedited, Existing, Exists
  <2>3. <<p, l>> \in edges
    BY <1>2, <1>4, <2>1, <2>2 DEF Outgoing, EdgesOf
  <2> QED
    BY <2>1, <2>3
<1>5. ASSUME NEW r \in query.relations, r.direction # "outgoing"
      PROVE  \E e \in edges : e[1] = r.other /\ e[2][1] = p /\ (r.origin = Gone \/ e[2][2] = r.origin)
  <2>1. r \in Incoming
    BY <1>3, <1>5 DEF Incoming
  <2>2. PICK u \in past[r.other] : LinksTo(u, p, r.origin)
    BY <2>1 DEF Satisfies
  <2>3. Exists(r.other) /\ u = files[r.other].text
    BY <1>3, <2>2 DEF Unedited, Exists
  <2>4. PICK l \in u.links : l[1] = p /\ (r.origin = Gone \/ l[2] = r.origin)
    BY <2>2 DEF LinksTo
  <2>5. <<r.other, l>> \in edges
    BY <1>2, <2>1, <2>3, <2>4 DEF EdgesOf, Existing
  <2> QED
    BY <2>4, <2>5
<1> QED
  BY <1>1, <1>2, <1>4, <1>5 DEF Matches

(* Action by action: a step of the live evaluator loses no note that fits. *)
LEMMA RefuseKeepsComplete ==
    ASSUME TruthInv, LiveComplete, OthersKept, NEW refusal \in {"unsafe", "unavailable"}, Refuse(refusal)
    PROVE  LiveComplete'
<1>1. /\ eval'.at = refusal /\ eval'.matches = {} /\ eval'.states = eval.states
      /\ eval'.looked = eval.looked /\ eval'.eligible = eval.eligible
  BY DEF Refuse, Evaluations, TruthInv, QueryTyped
<1> QED
  BY <1>1, MeaningKept DEF LiveComplete, OthersKept

LEMMA ResolveKeepsComplete ==
    ASSUME TruthInv, LiveComplete, Resolve
    PROVE  LiveComplete'
<1>a. QueryTyped /\ eval.at = "start" /\ OthersKept
  BY Resolved DEF TruthInv
<1>1. CASE Refuse("unsafe")
  BY <1>a, <1>1, RefuseKeepsComplete
<1>2. CASE ~Refuse("unsafe")
  <2>1. /\ Outside \notin LinkTargets
        /\ eval'.at = "listing" /\ eval'.chosen = {p \in query.paths : Exists(p)}
        /\ eval'.missed = \E p \in LinkTargets : ~Exists(p)
        /\ eval'.states = eval.states /\ eval'.looked = eval.looked
        /\ eval'.matches = eval.matches /\ eval'.eligible = eval.eligible
    BY <1>a, <1>2, Resolved
  <2>2. eval'.looked = {} /\ eval'.eligible = {} /\ eval'.matches = {}
    BY <1>a, <2>1 DEF TruthInv, Early
  <2>3. {p \in query.paths : Exists(p)} = query.paths \cap Existing
    BY DEF Existing, Exists
  <2> QED
    BY <1>a, <2>1, <2>2, <2>3, MeaningKept DEF LiveComplete, OthersKept
<1> QED
  BY <1>1, <1>2

LEMMA ListKeepsComplete ==
    ASSUME TruthInv, Unedited, LiveComplete, List
    PROVE  LiveComplete'
<1>a. /\ QueryTyped /\ eval.at = "listing" /\ OthersKept
      /\ eval'.at = "incoming" /\ eval'.listed = Existing
      /\ eval'.todo = (IF eval.missed THEN {} ELSE {p \in Existing : InScope(p)})
      /\ eval'.sources = (IF eval.missed THEN {} ELSE {r.other : r \in Incoming})
      /\ eval'.states = eval.states /\ eval'.looked = eval.looked
      /\ eval'.matches = eval.matches /\ eval'.eligible = eval.eligible
  BY Listed DEF TruthInv
<1>b. eval'.looked = {} /\ eval'.eligible = {} /\ eval'.matches = {}
  BY <1>a DEF TruthInv, Early
<1>c. /\ eval.chosen = query.paths \cap Existing /\ Outside \notin LinkTargets
      /\ eval.missed = \E p \in LinkTargets : ~Exists(p)
  BY <1>a DEF LiveComplete
<1>1. Right \subseteq eval'.todo
  <2>1. ASSUME NEW p \in Right PROVE p \in eval'.todo
    <3>1. p \in Existing /\ InScope(p)
      BY <1>c DEF Right, Satisfies, InScope
    <3>2. ASSUME NEW r \in query.relations PROVE Exists(r.other)
      <4>1. r.other \in Notes /\ r.direction \in {"incoming", "outgoing"}
        BY <1>a, <1>c, QueryAssumption DEF QueryTyped, LinkTargets
      <4>2. past[r.other] # {}
        BY <4>1 DEF Right, Satisfies, Incoming, Outgoing
      <4> QED
        BY <4>1, <4>2 DEF Unedited, Exists
    <3>3. ~eval.missed
      BY <1>c, <3>2 DEF LinkTargets
    <3> QED
      BY <1>a, <3>1, <3>3
  <2> QED
    BY <2>1
<1>2. eval'.todo # {} => \A r \in Incoming : r.other \in eval'.sources
  BY <1>a
<1> QED
  BY <1>a, <1>b, <1>1, <1>2, MeaningKept DEF LiveComplete, OthersKept

LEMMA IncomingKeepsComplete ==
    ASSUME TruthInv, LiveComplete, NEW p \in Notes, ReadIncoming(p)
    PROVE  LiveComplete'
<1> DEFINE edges == IF Exists(p) THEN eval.edges \cup EdgesOf(p, files[p].text) ELSE eval.edges
<1>a. QueryTyped /\ eval \in Evaluations
  BY DEF TruthInv, QueryTyped
<1>b. /\ eval.at = "incoming" /\ OthersKept
      /\ eval'.at = eval.at /\ eval'.sources = eval.sources \ {p} /\ eval'.looked = eval.looked \cup {p}
      /\ eval'.states = [eval.states EXCEPT ![p] = files[p]] /\ eval'.edges = edges
      /\ eval'.listed = eval.listed
      /\ eval'.todo = eval.todo /\ eval'.matches = eval.matches /\ eval'.eligible = eval.eligible
  BY <1>a, IncomingRead
<1>1. \A q \in eval'.looked : eval'.states[q] = files[q]
  BY <1>a, <1>b DEF LiveComplete, Evaluations
<1>2. \A q, t : EdgesOf(q, t)' = EdgesOf(q, t)
  BY <1>b DEF EdgesOf
<1>3. \A q : LinksKnown(q) => LinksKnown(q)'
  BY <1>b, <1>2, MeaningKept DEF LinksKnown, OthersKept
<1>4. LinksKnown(p)'
  BY <1>b, <1>2, MeaningKept DEF LinksKnown, OthersKept
<1>5. eval'.todo # {} => \A r \in Incoming : r.other \in eval'.sources \/ LinksKnown(r.other)'
  BY <1>b, <1>3, <1>4 DEF LiveComplete
<1> HIDE DEF edges
<1> QED
  BY <1>b, <1>1, <1>5, MeaningKept DEF LiveComplete, OthersKept

LEMMA StartKeepsComplete ==
    ASSUME TruthInv, LiveComplete, StartCandidates
    PROVE  LiveComplete'
<1>a. /\ eval.at = "incoming" /\ eval.sources = {} /\ OthersKept /\ eval \in Evaluations
  BY DEF StartCandidates, Live, TruthInv, QueryTyped
<1>b. /\ eval'.at = "reading" /\ eval'.sources = eval.sources /\ eval'.looked = eval.looked
      /\ eval'.states = eval.states /\ eval'.edges = eval.edges /\ eval'.listed = eval.listed
      /\ eval'.todo = eval.todo /\ eval'.matches = eval.matches /\ eval'.eligible = eval.eligible
  BY <1>a DEF StartCandidates, Evaluations
<1>1. \A q : LinksKnown(q)' <=> LinksKnown(q)
  BY <1>a, <1>b, MeaningKept DEF LinksKnown, EdgesOf, OthersKept
<1> QED
  BY <1>a, <1>b, <1>1, MeaningKept DEF LiveComplete, OthersKept

LEMMA ReadKeepsComplete ==
    ASSUME TruthInv, TargetsInside, Unedited, LiveComplete, ReadCandidate
    PROVE  LiveComplete'
<1> DEFINE p == First(eval.todo)
           f == TextRead(p)
           edges == IF f = Gone \/ Outgoing = {} THEN eval.edges ELSE eval.edges \cup EdgesOf(p, f.text)
           eligible == IF f # Gone /\ MatchesText(f.text) /\ Matches(p, edges) THEN eval.eligible \cup {p}
                       ELSE eval.eligible
<1>a. QueryTyped
  BY DEF TruthInv
<1>b. /\ p \in eval.todo /\ p \in Notes /\ eval.at = "reading" /\ OthersKept
      /\ eval'.at = eval.at /\ eval'.todo = eval.todo \ {p} /\ eval'.edges = edges /\ eval'.eligible = eligible
      /\ eval'.listed = eval.listed /\ eval'.states = eval.states
      /\ eval'.looked = eval.looked /\ eval'.sources = eval.sources /\ eval'.matches = eval.matches
  BY <1>a, CandidateRead
<1>c. f = files[p]
  BY <1>b DEF TextRead, LiveComplete
<1> HIDE DEF p, f
<1>1. \A q : LinksKnown(q) => LinksKnown(q)'
  BY <1>b, MeaningKept DEF LinksKnown, EdgesOf, OthersKept
<1>2. ASSUME p \in Right PROVE p \in eligible
  <2>1. Satisfies(p, past) /\ Exists(p)
    BY <1>2 DEF Right, Existing
  <2>2. eval.listed = Existing /\ Outside \notin LinkTargets
    BY <1>b DEF LiveComplete, TargetsInside
  <2>3. Outgoing # {} => EdgesOf(p, files[p].text) \subseteq edges
    BY <1>c, <2>1 DEF Exists
  <2>4. \A r \in Incoming : Exists(r.other) => EdgesOf(r.other, files[r.other].text) \subseteq edges
    BY <1>b DEF LiveComplete, LinksKnown
  <2> HIDE DEF edges
  <2> QED
    BY <1>a, <1>b, <1>c, <2>1, <2>2, <2>3, <2>4, FitIsMatched DEF Exists
<1>3. Right \subseteq eval'.todo \cup eval'.eligible
  BY <1>b, <1>2 DEF LiveComplete
<1>4. eval'.eligible \subseteq Existing
  BY <1>b, <1>c DEF LiveComplete, Existing, Exists
<1>5. eval'.todo # {} => \A r \in Incoming : r.other \in eval'.sources \/ LinksKnown(r.other)'
  BY <1>b, <1>1 DEF LiveComplete
<1> HIDE DEF edges, eligible
<1> QED
  BY <1>b, <1>3, <1>4, <1>5, MeaningKept DEF LiveComplete, OthersKept

LEMMA EndKeepsComplete ==
    ASSUME TruthInv, LiveComplete, EndCandidates
    PROVE  LiveComplete'
<1>a. /\ eval.at = "reading" /\ eval.todo = {} /\ OthersKept /\ eval \in Evaluations
      /\ query.limit \in Nat
  BY QueryAssumption DEF EndCandidates, Live, TruthInv, QueryTyped
<1>b. /\ eval'.at \in {"ranking", "confirming"} /\ eval'.todo = eval.eligible /\ eval'.looked = eval.looked
      /\ eval'.states = eval.states /\ eval'.listed = eval.listed
      /\ eval'.matches = eval.matches /\ eval'.eligible = eval.eligible
      /\ eval'.at = "ranking" => query.semantic
  BY <1>a DEF EndCandidates, Evaluations
<1>1. eval.matches = {} /\ Right \subseteq eval.eligible
  BY <1>a DEF LiveComplete
<1>2. Cardinality(eval'.matches) <= query.limit
  BY <1>a, <1>b, <1>1, FS_EmptySet
<1> QED
  BY <1>a, <1>b, <1>1, <1>2, MeaningKept DEF LiveComplete, OthersKept

LEMMA RankKeepsComplete ==
    ASSUME TruthInv, LiveComplete, Rank
    PROVE  LiveComplete'
<1>a. /\ eval.at = "ranking" /\ OthersKept /\ eval \in Evaluations
  BY DEF Rank, Live, TruthInv, QueryTyped
<1>1. CASE Refuse("unavailable")
  BY <1>a, <1>1, RefuseKeepsComplete
<1>2. ASSUME NEW found \in SUBSET Notes,
             eval' = [eval EXCEPT !.at = "confirming", !.todo = found \cap eval.eligible]
      PROVE  LiveComplete'
  <2>1. /\ eval'.at = "confirming" /\ eval'.looked = eval.looked
        /\ eval'.states = eval.states /\ eval'.listed = eval.listed
        /\ eval'.matches = eval.matches /\ eval'.eligible = eval.eligible
    BY <1>a, <1>2 DEF Evaluations
  <2> QED
    BY <1>a, <2>1, MeaningKept DEF LiveComplete, OthersKept
<1> QED
  BY <1>1, <1>2 DEF Rank

LEMMA ConfirmKeepsComplete ==
    ASSUME TruthInv, LiveComplete, ConfirmMatch
    PROVE  LiveComplete'
<1>a. /\ QueryTyped /\ eval \in Evaluations /\ query.limit \in Nat
  BY QueryAssumption DEF TruthInv, QueryTyped
<1>b. /\ eval.at = "confirming" /\ OthersKept /\ eval'.looked = eval.looked
      /\ eval'.states = eval.states /\ eval'.listed = eval.listed /\ eval'.eligible = eval.eligible
  BY <1>a, Confirmed
<1>c. IsFiniteSet(eval.matches) /\ Cardinality(eval.matches) \in Nat
  BY <1>a, QueryAssumption, FS_Subset, FS_CardinalityType DEF Evaluations
<1>d. IsFiniteSet(Right) /\ Cardinality(Right) \in Nat
  <2>1. Right \subseteq Notes
    BY DEF Right, Existing
  <2> QED
    BY <2>1, QueryAssumption, FS_Subset, FS_CardinalityType
<1>1. ASSUME eval.todo = {} \/ Cardinality(eval.matches) >= query.limit,
             eval'.at = "answered", eval'.matches = eval.matches
      PROVE  LiveComplete'
  <2>1. eval.matches \subseteq Right
    BY DEF TruthInv, JudgedWell, LiveComplete, Right
  <2>2. Cardinality(eval.matches) <= Cardinality(Right)
    BY <1>d, <2>1, FS_Subset
  <2>3. ~query.semantic => Cardinality(eval.matches) <= query.limit /\ Right \subseteq eval.matches \cup eval.todo
    BY <1>b DEF LiveComplete
  <2>4. ~query.semantic => Cardinality(eval.matches) = IF Cardinality(Right) > query.limit THEN query.limit
                                                      ELSE Cardinality(Right)
    <3>1. CASE Cardinality(eval.matches) >= query.limit
      BY <1>a, <1>c, <1>d, <2>2, <2>3, <3>1
    <3>2. CASE eval.todo = {}
      <4>1. ~query.semantic => eval.matches = Right
        BY <2>1, <2>3, <3>2
      <4> QED
        BY <1>a, <1>c, <1>d, <2>3, <4>1
    <3> QED
      BY <1>1, <3>1, <3>2
  <2> QED
    BY <1>1, <1>b, <2>4, MeaningKept DEF LiveComplete, OthersKept
<1>2. ASSUME NEW p \in eval.todo, ~(Cardinality(eval.matches) >= query.limit),
             eval'.at = "confirming", eval'.todo = eval.todo \ {p},
             eval'.matches = IF Exists(p) THEN eval.matches \cup {p} ELSE eval.matches
      PROVE  LiveComplete'
  <2>1. Cardinality(eval'.matches) <= query.limit
    <3>1. Cardinality(eval.matches \cup {p}) <= Cardinality(eval.matches) + 1
      BY <1>c, FS_AddElement
    <3>2. Cardinality(eval.matches \cup {p}) \in Nat
      BY <1>c, FS_AddElement, FS_CardinalityType
    <3> QED
      BY <1>2, <1>a, <1>c, <3>1, <3>2
  <2>2. ~query.semantic => Right \subseteq eval'.matches \cup eval'.todo
    BY <1>2, <1>b DEF LiveComplete, Right, Existing
  <2>3. eval'.matches \subseteq Existing
    BY <1>2 DEF LiveComplete, Existing, Exists
  <2> QED
    BY <1>2, <1>b, <2>1, <2>2, <2>3, MeaningKept DEF LiveComplete, OthersKept
<1> QED
  BY <1>a, <1>1, <1>2, Confirmed

(* What a scoped evaluation without a reason knows of the notes looked at. *)
Gathered(e) ==
    /\ e.looked \subseteq Existing
    /\ \A q \in e.looked :
          /\ MatchesText(files[q].text) => q \in e.eligible
          /\ Derives(q, files[q].text) => EdgesOf(q, files[q].text) \subseteq e.edges

LEMMA InspectionGathers ==
    ASSUME QueryTyped, eval.listed = Existing, \A q \in Existing : eval.states[q] = files[q],
           Gathered(eval), NEW p \in Notes, Inspected(p).reasons = {}
    PROVE  Gathered(Inspected(p))
<1> DEFINE e == Inspected(p)
           t == files[p].text
           unavailable == Because("note_unavailable", [eval EXCEPT !.looked = @ \cup {p}])
           eligible == IF MatchesText(t) THEN eval.eligible \cup {p} ELSE eval.eligible
           seen == [eval EXCEPT !.looked = @ \cup {p}, !.eligible = eligible]
           links == {<<p, l>> : l \in {l \in t.links : Exact(l[1]) = "resolved"}}
<1>a. eval \in Evaluations
  BY DEF QueryTyped
<1>1. CASE p \in eval.looked
  BY <1>1 DEF Inspected
<1>2. e # unavailable
  <2>1. "note_unavailable" \in unavailable.reasons
    BY <1>a DEF Because, Evaluations
  <2> QED
    BY <2>1
<1>3. CASE p \notin eval.looked
  <2>1. Unchanged(p) /\ e = IF ~Derives(p, t) THEN seen ELSE [seen EXCEPT !.edges = @ \cup links]
    BY <1>2, <1>3 DEF Inspected
  <2>2. Derives(p, t) => \A l \in t.links : Exact(l[1]) # "unavailable"
    BY <1>2, <1>3 DEF Inspected
  <2>3. Derives(p, t) => EdgesOf(p, t) \subseteq links
    <3>1. ASSUME Derives(p, t), NEW l \in t.links, l[1] \in eval.listed PROVE Exact(l[1]) = "resolved"
      <4>1. l[1] # Outside
        BY <1>a, <3>1, QueryAssumption DEF Evaluations
      <4> QED
        BY <2>2, <3>1, <4>1, ExactIs
    <3> QED
      BY <3>1 DEF EdgesOf
  <2>4. p \in Existing
    BY <2>1 DEF Unchanged, Exists, Existing
  <2> HIDE DEF e, links, eligible, t, unavailable
  <2>5. /\ e.looked = eval.looked \cup {p} /\ e.eligible = eligible
        /\ eval.edges \subseteq e.edges /\ (Derives(p, t) => links \subseteq e.edges)
    <3>1. CASE ~Derives(p, t)
      BY <1>a, <2>1, <3>1 DEF Evaluations
    <3>2. CASE Derives(p, t)
      BY <1>a, <2>1, <3>2 DEF Evaluations
    <3> QED
      BY <3>1, <3>2
  <2>6. \A q \in e.looked : /\ MatchesText(files[q].text) => q \in e.eligible
                            /\ Derives(q, files[q].text) => EdgesOf(q, files[q].text) \subseteq e.edges
    BY <2>3, <2>5 DEF Gathered, eligible, t
  <2>7. e.looked \subseteq Existing
    BY <2>4, <2>5 DEF Gathered
  <2>8. Gathered(e)
    BY <2>6, <2>7 DEF Gathered
  <2> QED
    BY <2>8 DEF e
<1> QED
  BY <1>1, <1>3

(* Action by action: a step of the scoped evaluator loses no note that fits. *)
LEMMA SupplyKeepsComplete ==
    ASSUME TruthInv, Supply, eval'.reasons = {}
    PROVE  ScopedComplete'
<1>a. eval \in Evaluations /\ eval.at = "start" /\ eval.by = "scoped" /\ OthersKept
  BY DEF TruthInv, QueryTyped, Supply, Scoped
<1>b. eval.matches = {} /\ eval.todo = {}
  BY <1>a DEF TruthInv, Early
<1>1. PICK subset \in SUBSET Existing :
         /\ eval'.at = (IF subset = Existing \/ query.relations = {} THEN "selecting" ELSE "answered")
         /\ eval'.listed = subset
         /\ eval'.states = [p \in Notes |-> IF p \in subset THEN files[p] ELSE Gone]
         /\ eval'.todo = eval.todo /\ eval'.matches = eval.matches
         /\ subset # Existing => eval'.reasons # {}
  BY Supplied DEF TruthInv
<1>2. subset = Existing
  BY <1>1
<1>3. eval'.at = "selecting" /\ \A p \in Existing : eval'.states[p] = files[p]
  BY <1>1, <1>2 DEF Existing
<1> QED
  BY <1>a, <1>b, <1>1, <1>2, <1>3, MeaningKept DEF ScopedComplete, OthersKept

(* An evaluation that ends early, over notes none of which fits. *)
LEMMA NoneFit ==
    ASSUME TruthInv, ScopedComplete, OthersKept, eval.at # "start", Right = {}, eval' = [eval EXCEPT !.at = "answered"]
    PROVE  ScopedComplete'
<1>1. /\ eval'.at = "answered" /\ eval'.listed = eval.listed /\ eval'.states = eval.states
      /\ eval'.matches = eval.matches /\ eval'.todo = eval.todo
  BY DEF TruthInv, QueryTyped, Evaluations
<1> QED
  BY <1>1, MeaningKept DEF ScopedComplete, OthersKept

LEMMA RefuseKeepsScopedComplete ==
    ASSUME TruthInv, ScopedComplete, OthersKept, eval.at # "start",
           NEW refusal \in {"unsafe", "unavailable"}, Refuse(refusal)
    PROVE  ScopedComplete'
<1>1. /\ eval'.at = refusal /\ eval'.listed = eval.listed /\ eval'.states = eval.states
      /\ eval'.matches = {} /\ eval'.todo = eval.todo
  BY DEF TruthInv, QueryTyped, Evaluations, Refuse
<1> QED
  BY <1>1, MeaningKept DEF ScopedComplete, OthersKept

LEMMA SelectKeepsComplete ==
    ASSUME TruthInv, ScopedComplete, SelectPaths, eval'.reasons = {}
    PROVE  ScopedComplete'
<1>a. eval \in Evaluations /\ QueryTyped /\ eval.at = "selecting" /\ OthersKept
  BY DEF TruthInv, QueryTyped, SelectPaths, Scoped
<1> DEFINE chosen == {p \in query.paths : Exact(p) = "resolved"}
           at == IF query.paths # {} /\ chosen = {} THEN "answered" ELSE "targets"
<1>1. CASE Refuse("unsafe")
  BY <1>a, <1>1, RefuseKeepsScopedComplete
<1>2. ASSUME NEW more \in SUBSET QueryReasons,
             eval' = [eval EXCEPT !.at = at, !.chosen = chosen, !.reasons = @ \cup more],
             (\E p \in query.paths : Exact(p) = "unavailable") => more # {},
             \A p \in query.paths : Exact(p) # "unsafe"
      PROVE  ScopedComplete'
  <2>1. /\ eval'.at = at /\ eval'.chosen = chosen /\ eval'.reasons = eval.reasons \cup more
        /\ eval'.listed = eval.listed /\ eval'.states = eval.states
        /\ eval'.matches = eval.matches /\ eval'.todo = eval.todo
    <3> HIDE DEF at, chosen
    <3> QED
      BY <1>a, <1>2 DEF Evaluations
  <2>2. chosen = query.paths \cap Existing
    <3>1. \A p \in query.paths : Exact(p) # "unavailable"
      BY <1>2, <2>1
    <3>2. eval.listed = Existing
      BY <1>a DEF ScopedComplete
    <3> QED
      BY <1>2, <3>1, <3>2, ExactIs
  <2>3. at = "answered" => Right = {}
    BY <2>2 DEF Right, Satisfies
  <2>4. at \in {"answered", "targets"}
    OBVIOUS
  <2> HIDE DEF at, chosen
  <2> QED
    BY <1>a, <2>1, <2>2, <2>3, <2>4, MeaningKept DEF ScopedComplete, OthersKept
<1> HIDE DEF at, chosen
<1> QED
  BY <1>a, <1>1, <1>2, Selected DEF at, chosen

LEMMA TargetsKeepComplete ==
    ASSUME TruthInv, Unedited, ScopedComplete, FindTargets
    PROVE  ScopedComplete'
<1>a. eval \in Evaluations /\ QueryTyped /\ eval.at = "targets" /\ eval.by = "scoped" /\ OthersKept
      /\ eval.looked = {} /\ eval.matches = {}
  BY DEF TruthInv, QueryTyped, FindTargets, Scoped, Early
<1>b. eval.listed = Existing /\ eval.chosen = query.paths \cap Existing
      /\ \A p \in Existing : eval.states[p] = files[p]
  BY <1>a DEF ScopedComplete
<1>1. CASE Refuse("unsafe") \/ Refuse("unavailable")
  BY <1>a, <1>1, RefuseKeepsScopedComplete
<1>2. CASE ~(Refuse("unsafe") \/ Refuse("unavailable")) /\ \E p \in LinkTargets : Exact(p) = "missing"
  <2>1. PICK r \in query.relations : r.other # Outside /\ r.other \notin Existing
    BY <1>2, <1>b, ExactIs DEF LinkTargets
  <2>2. r.other \in Notes /\ r.direction \in {"incoming", "outgoing"} /\ past[r.other] = {}
    BY <1>a, <2>1, QueryAssumption DEF QueryTyped, Unedited, Existing, Exists
  <2>3. Right = {}
    BY <2>2 DEF Right, Satisfies, Incoming, Outgoing
  <2>4. eval' = [eval EXCEPT !.at = "answered"]
    BY <1>2 DEF FindTargets
  <2> QED
    BY <1>a, <2>3, <2>4, NoneFit
<1> DEFINE sources == {r.other : r \in Incoming}
           todo == {p \in eval.listed : InScope(p)}
<1>3. CASE ~(Refuse("unsafe") \/ Refuse("unavailable")) /\ ~\E p \in LinkTargets : Exact(p) = "missing"
  <2>1. eval' = [eval EXCEPT !.at = "inspecting", !.sources = sources, !.todo = todo]
    BY <1>3 DEF FindTargets
  <2>2. /\ eval'.at = "inspecting" /\ eval'.sources = sources /\ eval'.todo = todo
        /\ eval'.listed = eval.listed /\ eval'.states = eval.states /\ eval'.chosen = eval.chosen
        /\ eval'.matches = eval.matches /\ eval'.looked = eval.looked
    <3> HIDE DEF sources, todo
    <3> QED
      BY <1>a, <2>1 DEF Evaluations
  <2>3. Right \subseteq todo
    BY <1>b DEF Right, Satisfies, InScope
  <2>4. \A r \in Incoming : r.other \in sources
    OBVIOUS
  <2>5. todo \subseteq eval.listed
    OBVIOUS
  <2> HIDE DEF sources, todo
  <2> QED
    BY <1>a, <1>b, <2>2, <2>3, <2>4, <2>5, MeaningKept DEF ScopedComplete, OthersKept
<1> QED
  BY <1>1, <1>2, <1>3

LEMMA GatheredNow ==
    ASSUME eval.at = "inspecting", ScopedComplete
    PROVE  Gathered(eval)
  BY DEF ScopedComplete, Gathered, LinksKnown, Exists, Existing

(* An inspection keeps the evaluation complete, if a note that fits is matched *)
(* when it is crossed off.                                                      *)
LEMMA InspectionKeepsComplete ==
    ASSUME TruthInv, ScopedComplete, OthersKept, eval.at = "inspecting", NEW p \in Notes,
           NEW todo \in SUBSET eval.todo, NEW sources \in SUBSET eval.sources,
           \A q \in eval.sources : q \in sources \/ q = p,
           NEW matches \in SUBSET Existing, Right \subseteq todo \cup matches,
           eval' = [Inspected(p) EXCEPT !.todo = todo, !.sources = sources, !.matches = matches],
           eval'.reasons = {}
    PROVE  ScopedComplete'
<1> DEFINE e == Inspected(p)
<1>a. QueryTyped /\ eval \in Evaluations
  BY DEF TruthInv, QueryTyped
<1>b. /\ e \in Evaluations
      /\ e.at = eval.at /\ e.listed = eval.listed /\ e.states = eval.states /\ e.chosen = eval.chosen
      /\ e.looked = eval.looked \cup {p}
  BY <1>a, InspectionAdds
<1>c. /\ eval'.at = eval.at /\ eval'.listed = eval.listed /\ eval'.states = eval.states
      /\ eval'.chosen = eval.chosen /\ eval'.todo = todo /\ eval'.sources = sources /\ eval'.matches = matches
      /\ eval'.eligible = e.eligible /\ eval'.edges = e.edges /\ eval'.looked = e.looked
      /\ eval'.reasons = e.reasons
  <2>1. eval' = [e EXCEPT !.todo = todo, !.sources = sources, !.matches = matches]
    OBVIOUS
  <2> HIDE DEF e
  <2> QED
    BY <1>b, <2>1 DEF Evaluations
<1>d. eval.listed = Existing /\ \A q \in Existing : eval.states[q] = files[q]
  BY DEF ScopedComplete
<1>1. Gathered(e)
  BY <1>a, <1>c, <1>d, GatheredNow, InspectionGathers
<1> HIDE DEF e
<1>2. \A q, t : EdgesOf(q, t)' = EdgesOf(q, t)
  BY <1>c DEF EdgesOf
<1>3. \A q \in eval'.looked : /\ (MatchesText(files[q].text) => q \in eval.eligible)'
                              /\ (Derives(q, files[q].text) => LinksKnown(q))'
  BY <1>1, <1>2, <1>c, MeaningKept DEF Gathered, LinksKnown, OthersKept
<1>4. eval'.looked \subseteq Existing
  BY <1>1, <1>c DEF Gathered
<1>5. \A r \in Incoming : r.other \in eval'.sources \cup eval'.looked
  BY <1>b, <1>c DEF ScopedComplete
<1>6. eval'.chosen = query.paths \cap Existing /\ eval'.todo \subseteq eval'.listed
  BY <1>c DEF ScopedComplete
<1> QED
  BY <1>c, <1>d, <1>3, <1>4, <1>5, <1>6, MeaningKept DEF ScopedComplete, OthersKept

LEMMA SourceKeepsComplete ==
    ASSUME TruthInv, ScopedComplete, NEW p \in Notes, InspectSource(p), eval'.reasons = {}
    PROVE  ScopedComplete'
<1>1. QueryTyped /\ eval.at = "inspecting" /\ OthersKept
  BY SourceInspected DEF TruthInv
<1>2. eval.matches \in SUBSET Existing /\ Right \subseteq eval.todo \cup eval.matches
  BY <1>1 DEF ScopedComplete
<1>3. /\ eval.todo \in SUBSET eval.todo /\ eval.sources \ {p} \in SUBSET eval.sources
      /\ \A q \in eval.sources : q \in eval.sources \ {p} \/ q = p
  OBVIOUS
<1> QED
  BY <1>1, <1>2, <1>3, SourceInspected, InspectionKeepsComplete

LEMMA NextKeepsComplete ==
    ASSUME TruthInv, TargetsInside, Unedited, ScopedComplete, InspectNext, eval'.reasons = {}
    PROVE  ScopedComplete'
<1> DEFINE p == First(eval.todo)
           e == Inspected(p)
           matches == IF p \in e.eligible /\ Matches(p, e.edges) THEN eval.matches \cup {p} ELSE eval.matches
<1>a. /\ QueryTyped /\ p \in eval.todo /\ p \in Notes /\ eval.at = "inspecting" /\ eval.sources = {}
      /\ OthersKept /\ e \in Evaluations
      /\ eval' = [e EXCEPT !.todo = eval.todo \ {p}, !.sources = {}, !.matches = matches]
  BY NextInspected DEF TruthInv
<1> HIDE DEF p
<1>b. e.listed = eval.listed /\ e.looked = eval.looked \cup {p}
  BY <1>a, InspectionAdds
<1>c. eval.listed = Existing /\ Outside \notin LinkTargets /\ \A q \in Existing : eval.states[q] = files[q]
  BY <1>a DEF ScopedComplete, TargetsInside
<1>d. e.reasons = {}
  <2> HIDE DEF e, matches
  <2> QED
    BY <1>a DEF Evaluations
<1>1. Gathered(e)
  BY <1>a, <1>c, <1>d, GatheredNow, InspectionGathers
<1>2. ASSUME p \in Right PROVE p \in e.eligible /\ Matches(p, e.edges)
  <2>1. Satisfies(p, past) /\ Exists(p)
    BY <1>2 DEF Right, Existing
  <2> HIDE DEF e
  <2>2. Outgoing # {} => EdgesOf(p, files[p].text) \subseteq e.edges
    BY <1>1, <1>b DEF Gathered, Derives
  <2>3. \A r \in Incoming : Exists(r.other) => EdgesOf(r.other, files[r.other].text) \subseteq e.edges
    BY <1>1, <1>a, <1>b DEF Gathered, Derives, ScopedComplete
  <2>4. MatchesText(files[p].text) /\ Matches(p, e.edges)
    BY <1>a, <1>c, <2>1, <2>2, <2>3, FitIsMatched
  <2> QED
    BY <1>1, <1>b, <2>4 DEF Gathered
<1>3. matches \in SUBSET Existing
  BY <1>a DEF ScopedComplete
<1>4. Right \subseteq (eval.todo \ {p}) \cup matches
  BY <1>a, <1>2 DEF ScopedComplete
<1>5. /\ eval.todo \ {p} \in SUBSET eval.todo /\ {} \in SUBSET eval.sources
      /\ \A q \in eval.sources : q \in {} \/ q = p
  BY <1>a
<1> HIDE DEF matches
<1> QED
  BY <1>a, <1>3, <1>4, <1>5, InspectionKeepsComplete

LEMMA EndKeepsScopedComplete ==
    ASSUME TruthInv, ScopedComplete, EndInspection
    PROVE  ScopedComplete'
<1>a. eval \in Evaluations /\ eval.at = "inspecting" /\ eval.todo = {} /\ OthersKept
  BY DEF TruthInv, QueryTyped, EndInspection, Scoped
<1>b. /\ eval'.at = "answered" /\ eval'.listed = eval.listed /\ eval'.states = eval.states
      /\ eval'.matches = eval.matches /\ eval'.todo = eval.todo
  BY <1>a DEF EndInspection, Evaluations
<1> QED
  BY <1>a, <1>b, MeaningKept DEF ScopedComplete, OthersKept

LEMMA LiveStaysComplete ==
    ASSUME TruthInv, TargetsInside, Unedited, LiveComplete, eval.by = "live", QueryNext, ~EditText
    PROVE  LiveComplete'
<1>1. ASSUME NEW p \in Notes, ReadIncoming(p) PROVE LiveComplete'
  BY <1>1, IncomingKeepsComplete
<1>2. CASE Resolve \/ List \/ StartCandidates \/ ReadCandidate \/ EndCandidates \/ Rank \/ ConfirmMatch
  BY <1>2, ResolveKeepsComplete, ListKeepsComplete, StartKeepsComplete, ReadKeepsComplete, EndKeepsComplete,
     RankKeepsComplete, ConfirmKeepsComplete
<1> QED
  BY <1>1, <1>2 DEF QueryNext, Supply, SelectPaths, FindTargets, InspectSource, InspectNext, Exhaust, EndInspection,
     Scoped

(* An evaluation stays the one it is. *)
LEMMA EvaluatorStays ==
    ASSUME QueryTyped, QueryNext
    PROVE  eval'.by = eval.by
<1>a. eval \in Evaluations
  BY DEF QueryTyped
<1>1. ASSUME NEW refusal, Refuse(refusal) PROVE eval'.by = eval.by
  BY <1>a, <1>1 DEF Refuse, Evaluations
<1>2. CASE Resolve
  BY <1>1, <1>2, Resolved
<1>3. CASE List \/ ReadCandidate \/ ConfirmMatch \/ Supply
  BY <1>3, Listed, CandidateRead, Confirmed, Supplied
<1>4. CASE StartCandidates \/ EndCandidates
  BY <1>a, <1>4 DEF StartCandidates, EndCandidates, Evaluations
<1>5. CASE Rank
  BY <1>a, <1>1, <1>5 DEF Rank, Evaluations
<1>6. CASE SelectPaths
  <2>1. ASSUME ~Refuse("unsafe") PROVE eval'.by = eval.by
    BY <1>a, <1>6, <2>1, Selected DEF Evaluations
  <2> QED
    BY <1>1, <2>1
<1>7. CASE FindTargets
  BY <1>a, <1>1, <1>7 DEF FindTargets, Evaluations
<1>8. CASE Exhaust \/ EndInspection
  BY <1>a, <1>8 DEF Exhaust, EndInspection, Because, Evaluations
<1>9. CASE InspectNext
  BY <1>9, NextInspected
<1>10. ASSUME NEW p \in Notes, ReadIncoming(p) \/ InspectSource(p) PROVE eval'.by = eval.by
  BY <1>10, IncomingRead, SourceInspected
<1>11. CASE EditText
  BY <1>11 DEF EditText
<1> QED
  BY <1>2, <1>3, <1>4, <1>5, <1>6, <1>7, <1>8, <1>9, <1>10, <1>11 DEF QueryNext

LEMMA ScopedStaysComplete ==
    ASSUME TruthInv, TargetsInside, Unedited, eval.by = "scoped", eval.reasons = {} => ScopedComplete,
           QueryNext, ~EditText, eval'.reasons = {}
    PROVE  ScopedComplete'
<1>a. QueryTyped /\ eval \in Evaluations
  BY DEF TruthInv, QueryTyped
<1>1. CASE Supply
  BY <1>1, SupplyKeepsComplete
<1>2. CASE SelectPaths
  <2>1. ASSUME Refuse("unsafe") PROVE eval'.reasons = eval.reasons
    BY <1>a, <2>1 DEF Refuse, Evaluations
  <2>2. ASSUME ~Refuse("unsafe") PROVE eval.reasons \subseteq eval'.reasons
    BY <1>a, <1>2, <2>2, Selected
  <2> QED
    BY <1>2, <2>1, <2>2, SelectKeepsComplete
<1>3. CASE FindTargets
  <2>1. eval'.reasons = eval.reasons
    BY <1>a, <1>3 DEF FindTargets, Refuse, Evaluations
  <2> QED
    BY <1>3, <2>1, TargetsKeepComplete
<1>4. ASSUME NEW p \in Notes, InspectSource(p) PROVE ScopedComplete'
  <2>1. eval.reasons = {}
    BY <1>a, <1>4, SourceInspected
  <2> QED
    BY <1>4, <2>1, SourceKeepsComplete
<1>5. CASE InspectNext
  <2>1. eval.reasons = {}
    BY <1>a, <1>5, NextInspected
  <2> QED
    BY <1>5, <2>1, NextKeepsComplete
<1>6. CASE Exhaust
  <2>1. eval'.reasons # {}
    <3>1. CASE eval' = Because("content_limit", [eval EXCEPT !.at = "answered"])
      BY <1>a, <3>1 DEF Because, Evaluations
    <3>2. CASE eval' = Because("relationship_limit", [eval EXCEPT !.at = "answered", !.matches = {}])
      BY <1>a, <3>2 DEF Because, Evaluations
    <3> QED
      BY <1>6, <3>1, <3>2 DEF Exhaust
  <2> QED
    BY <2>1
<1>7. CASE EndInspection
  <2>1. eval'.reasons = eval.reasons
    BY <1>a, <1>7 DEF EndInspection, Evaluations
  <2> QED
    BY <1>7, <2>1, EndKeepsScopedComplete
<1> QED
  BY <1>1, <1>2, <1>3, <1>4, <1>5, <1>6, <1>7
  DEF QueryNext, Resolve, List, StartCandidates, ReadCandidate, EndCandidates, Rank, ConfirmMatch, ReadIncoming, Live

(* The part about completeness, of the first state and of every step. *)
LEMMA CompleteStarts ==
    ASSUME QueryInit
    PROVE  CompleteInv
<1>1. PICK evaluator \in {"live", "scoped"} : eval = Fresh(evaluator)
  BY DEF QueryInit
<1>2. Unedited
  BY DEF QueryInit, Unedited
<1>3. LiveComplete /\ ScopedComplete
  BY <1>1 DEF Fresh, LiveComplete, ScopedComplete
<1> QED
  BY <1>2, <1>3 DEF CompleteInv

LEMMA CompleteIsKept ==
    ASSUME QueryInv, [QueryNext]_queryVars
    PROVE  CompleteInv'
<1>a. TruthInv /\ TargetsInside /\ CompleteInv /\ QueryTyped
  BY DEF QueryInv, TruthInv
<1>1. CASE UNCHANGED queryVars
  <2>1. OthersKept /\ eval' = eval
    BY <1>1 DEF queryVars, OthersKept
  <2>2. \A q : LinksKnown(q)' <=> LinksKnown(q)
    BY <2>1, MeaningKept DEF LinksKnown, EdgesOf, OthersKept
  <2>3. (LiveComplete => LiveComplete') /\ (ScopedComplete => ScopedComplete')
    BY <2>1, <2>2, MeaningKept DEF LiveComplete, ScopedComplete, OthersKept
  <2> QED
    BY <1>a, <2>1, <2>3 DEF CompleteInv, Unedited, OthersKept
<1>2. CASE EditText
  <2>1. edited' # 0
    BY <1>a, <1>2 DEF EditText, QueryTyped
  <2> QED
    BY <2>1 DEF CompleteInv
<1>3. CASE QueryNext /\ ~EditText
  <2>1. OthersKept
    BY <1>3 DEF QueryNext, Resolve, List, StartCandidates, ReadCandidate, EndCandidates, Rank, ConfirmMatch,
         ReadIncoming, InspectSource, Supply, SelectPaths, FindTargets, InspectNext, Exhaust, EndInspection
  <2>2. SUFFICES ASSUME edited = 0
                 PROVE  Unedited' /\ (eval.by = "live" => LiveComplete')
                        /\ (eval.by = "scoped" /\ eval'.reasons = {} => ScopedComplete')
    BY <1>a, <1>3, <2>1, EvaluatorStays DEF CompleteInv, OthersKept
  <2>3. Unedited /\ (eval.by = "live" => LiveComplete) /\ (eval.by = "scoped" /\ eval.reasons = {} => ScopedComplete)
    BY <1>a, <2>2 DEF CompleteInv
  <2> QED
    BY <1>a, <1>3, <2>1, <2>3, LiveStaysComplete, ScopedStaysComplete DEF Unedited, OthersKept
<1> QED
  BY <1>1, <1>2, <1>3

(* The invariant says of an answer what is promised of it. *)
LEMMA AnswersAreTrue ==
    ASSUME QueryInv
    PROVE  QueryAnswersTrue
<1>1. QueryTyped /\ eval \in Evaluations /\ \A p \in eval.matches : Satisfies(p, past)
  BY DEF QueryInv, TruthInv, QueryTyped, JudgedWell
<1>2. ASSUME eval.at = "answered", edited = 0, eval.reasons = {}, ~query.semantic
      PROVE  IF eval.by = "scoped" THEN eval.matches = Right
             ELSE /\ eval.matches \subseteq Right
                  /\ Cardinality(eval.matches) = IF Cardinality(Right) > query.limit
                                                 THEN query.limit ELSE Cardinality(Right)
  <2>1. eval.by = "live" => LiveComplete
    BY <1>2 DEF QueryInv, CompleteInv
  <2>2. eval.by = "scoped" => ScopedComplete
    BY <1>2 DEF QueryInv, CompleteInv
  <2>3. eval.matches \subseteq Right
    BY <1>1, <2>1, <2>2 DEF Evaluations, LiveComplete, ScopedComplete, Right
  <2>4. eval.by = "scoped" => Right \subseteq eval.matches
    BY <1>2, <2>2 DEF ScopedComplete
  <2>5. eval.by # "scoped" => eval.by = "live"
    BY <1>1 DEF Evaluations
  <2> QED
    BY <1>2, <2>1, <2>3, <2>4, <2>5 DEF LiveComplete
<1> QED
  BY <1>1, <1>2 DEF QueryAnswersTrue, Right

(* The inductive invariant of an evaluation.                               *)
THEOREM QueryInvariance == QuerySpec => []QueryInv
<1>1. QueryInit => QueryInv
  BY TruthStarts, CompleteStarts DEF QueryInv
<1>2. QueryInv /\ [QueryNext]_queryVars => QueryInv'
  BY TruthIsKept, CompleteIsKept DEF QueryInv
<1> QED
  BY <1>1, <1>2, PTL DEF QuerySpec

(* Every note a query answers fitted it at some moment, and over notes     *)
(* nobody edited the answer is all of those that fit, or says why not.     *)
THEOREM QueryAnswersAreTrue == QuerySpec => []QueryAnswersTrue
<1>1. QueryInv => QueryAnswersTrue
  BY AnswersAreTrue
<1> QED
  BY <1>1, QueryInvariance, PTL
==============================================================================
