----------------------------- MODULE NoteAppend -----------------------------
(***************************************************************************)
(* app/services/vault.py: append_promotion_once and append_note on one     *)
(* note, called concurrently and retried, while users edit the note and    *)
(* processes die.  Cooperating writers hold the lock of coordinated_write. *)
(*                                                                         *)
(* The text of a note is a base revision and, per key (a promotion id or a *)
(* dedupe key), how many whole and how many torn blocks it holds.  A torn  *)
(* promotion block still shows its opening marker (a shorter prefix is a   *)
(* changed text, which the preimage hash refuses); a torn append_note      *)
(* block lacks the marker, which comes last.                               *)
(***************************************************************************)
EXTENDS Integers

CONSTANTS Calls,
          Promotions,   \* promotion ids
          DedupeKeys,   \* dedupe keys of append_note
          NoCall, NoFile,
          MaxTries, MaxEdits, MaxFailures

ASSUME AppendAssumption ==
    /\ MaxTries \in Nat /\ MaxEdits \in Nat /\ MaxFailures \in Nat
    /\ NoCall \notin Calls

Keys == Promotions \cup DedupeKeys

VARIABLES
    keyOf,      \* the promotion id or dedupe key of each call
    note,       \* NoFile or [ino, text]
    writer,     \* the call that holds the note's lock
    pc,
    existing,   \* per call: the note it read under the lock
    fd,         \* per call: the inode it has opened for appending
    attempted, verdict, result,
    wrote,      \* per call: this execution wrote part of its block
    proved,     \* per call: during this execution the note held its block once, whole
    reviewed,   \* per promotion: the text the human decision was about
    tries, edits, failures

callVars == <<keyOf, writer, pc, existing, fd, attempted, verdict, result, wrote, tries>>
appendVars == <<note, callVars, proved, reviewed, edits, failures>>

Text == [base : 0..MaxEdits, whole : [Keys -> Nat], torn : [Keys -> Nat]]
Note == [ino : 0..MaxEdits, text : Text]
Refusals == {"conflict", "destination_changed", "destination_missing", "source_changed",
             "write_unavailable"}
AppendOutcomes == Refusals \cup {"none", "appended", "already_applied", "commit_unknown", "recover",
                         "failed", "lost"}
Inside == {"reading", "opening", "writing", "confirming", "leaving", "recovering"}

Blank == [base |-> 0, whole |-> [k \in Keys |-> 0], torn |-> [k \in Keys |-> 0]]

(* Types, and the writers' lock: exactly its holder is between acquiring   *)
(* and giving it back, in the second look as well.                         *)
AppendTyped ==
    /\ keyOf \in [Calls -> Keys]
    /\ note \in Note \cup {NoFile} /\ existing \in [Calls -> Note \cup {NoFile}]
    /\ writer \in Calls \cup {NoCall}
    /\ pc \in [Calls -> Inside \cup {"idle", "waiting", "recoverWait"}]
    /\ fd \in [Calls -> 0..MaxEdits]
    /\ attempted \in [Calls -> BOOLEAN] /\ wrote \in [Calls -> BOOLEAN]
    /\ proved \in [Calls -> BOOLEAN]
    /\ verdict \in [Calls -> AppendOutcomes] /\ result \in [Calls -> AppendOutcomes]
    /\ reviewed \in [Promotions -> Text]
    /\ tries \in [Calls -> 0..MaxTries] /\ edits \in 0..MaxEdits /\ failures \in 0..MaxFailures
    /\ \A c \in Calls : writer = c <=> pc[c] \in Inside

\* A promotion starts from a reviewed destination.
AppendInit ==
    /\ keyOf \in [Calls -> Keys]
    /\ note = [ino |-> 0, text |-> Blank] /\ writer = NoCall
    /\ pc = [c \in Calls |-> "idle"]
    /\ existing = [c \in Calls |-> NoFile] /\ fd = [c \in Calls |-> 0]
    /\ attempted = [c \in Calls |-> FALSE] /\ wrote = [c \in Calls |-> FALSE]
    /\ proved = [c \in Calls |-> FALSE]
    /\ verdict = [c \in Calls |-> "none"] /\ result = [c \in Calls |-> "none"]
    /\ reviewed = [k \in Promotions |-> Blank]
    /\ tries = [c \in Calls |-> 0] /\ edits = 0 /\ failures = 0

Promotes(c) == keyOf[c] \in Promotions
WithBlock(text, k) == [text EXCEPT !.whole[k] = @ + 1]
WithTornBlock(text, k) == [text EXCEPT !.torn[k] = @ + 1]

\* _promotion_block_proved, and the proof of an earlier append: one block, whole.
Once(n, k) == n # NoFile /\ n.text.whole[k] = 1 /\ n.text.torn[k] = 0

SetNote(n) ==
    /\ note' = n
    /\ proved' = [c \in Calls |-> proved[c] \/ Once(n, keyOf[c])]

Goto(c, place) == pc' = [pc EXCEPT ![c] = place]
Conclude(c, what) ==
    /\ verdict' = [verdict EXCEPT ![c] = what]
    /\ Goto(c, "leaving")

\* The call is over, and with it its local variables.
Forget(c) ==
    /\ Goto(c, "idle")
    /\ existing' = [existing EXCEPT ![c] = NoFile] /\ fd' = [fd EXCEPT ![c] = 0]
    /\ attempted' = [attempted EXCEPT ![c] = FALSE] /\ verdict' = [verdict EXCEPT ![c] = "none"]
-----------------------------------------------------------------------------
Begin(c) ==
    /\ pc[c] = "idle" /\ tries[c] < MaxTries
    /\ tries' = [tries EXCEPT ![c] = @ + 1]
    /\ Goto(c, "waiting")
    /\ wrote' = [wrote EXCEPT ![c] = FALSE]
    /\ result' = [result EXCEPT ![c] = "none"]
    /\ proved' = [proved EXCEPT ![c] = Once(note, keyOf[c])]
    /\ UNCHANGED <<note, keyOf, writer, existing, fd, attempted, verdict, reviewed, edits, failures>>

LockFree == writer = NoCall

\* coordinated_write.
AcquireLock(c) ==
    /\ pc[c] \in {"waiting", "recoverWait"} /\ LockFree
    /\ writer' = c
    /\ Goto(c, IF pc[c] = "waiting" THEN "reading" ELSE "recovering")
    /\ UNCHANGED <<note, keyOf, existing, fd, attempted, verdict, result, wrote, tries, proved,
                   reviewed, edits, failures>>

\* Mutant: the reviewed preimage is not compared.
PromotionVerdictUnreviewed(c) ==
    LET k == keyOf[c] IN
    IF note.text.whole[k] + note.text.torn[k] > 0
    THEN IF Once(note, k) THEN "already_applied" ELSE "conflict"
    ELSE "append"

\* The checks of append_promotion_once on what it has read.
PromotionVerdict(c) ==
    LET k == keyOf[c] IN
    IF note.text.whole[k] + note.text.torn[k] > 0
    THEN IF Once(note, k) THEN "already_applied" ELSE "conflict"
    ELSE IF note.text # reviewed[k] THEN "destination_changed" ELSE "append"

\* append_note looks for its marker only.
AppendVerdict(c) == IF note.text.whole[keyOf[c]] > 0 THEN "already_applied" ELSE "append"

Read(c) ==
    /\ pc[c] = "reading"
    /\ existing' = [existing EXCEPT ![c] = note]
    /\ LET v == IF note = NoFile THEN "destination_missing"
                ELSE IF Promotes(c) THEN PromotionVerdict(c) ELSE AppendVerdict(c)
       IN  IF v = "append" THEN Goto(c, "opening") /\ UNCHANGED verdict ELSE Conclude(c, v)
    /\ UNCHANGED <<note, keyOf, writer, fd, attempted, result, wrote, tries, proved, reviewed, edits,
                   failures>>

\* check_source: the capture is not the reviewed one any more.
SourceChanged(c) ==
    /\ pc[c] = "reading" /\ Promotes(c)
    /\ Conclude(c, "source_changed")
    /\ UNCHANGED <<note, keyOf, writer, existing, fd, attempted, result, wrote, tries, proved, reviewed,
                   edits, failures>>

\* The promotion opens the exact inode it has read and compares the size, which
\* an edit in place need not change.  Then it counts as attempted.
OpenReviewed(c) ==
    /\ pc[c] = "opening" /\ Promotes(c) /\ note # NoFile
    /\ \/ /\ note.ino = existing[c].ino
          /\ fd' = [fd EXCEPT ![c] = note.ino]
          /\ attempted' = [attempted EXCEPT ![c] = TRUE]
          /\ Goto(c, "writing")
          /\ UNCHANGED verdict
       \/ /\ note # existing[c]
          /\ Conclude(c, "destination_changed")
          /\ UNCHANGED <<fd, attempted>>
    /\ UNCHANGED <<note, keyOf, writer, existing, result, wrote, tries, proved, reviewed, edits, failures>>

\* append_note opens the path in mode "a": a missing note is created.
OpenPath(c) ==
    /\ pc[c] = "opening" /\ ~Promotes(c)
    /\ LET n == IF note = NoFile THEN [ino |-> edits, text |-> Blank] ELSE note IN
         /\ note' = n
         /\ fd' = [fd EXCEPT ![c] = n.ino]
    /\ Goto(c, "writing")
    /\ UNCHANGED <<keyOf, writer, existing, attempted, verdict, result, wrote, tries, proved, reviewed,
                   edits, failures>>

\* The descriptor may by now belong to a replaced file: nobody sees the block.
AppendsBlock(c, text) ==
    IF note # NoFile /\ note.ino = fd[c]
    THEN SetNote([note EXCEPT !.text = text]) ELSE UNCHANGED <<note, proved>>

Write(c) ==
    /\ pc[c] = "writing"
    /\ AppendsBlock(c, WithBlock(note.text, keyOf[c]))
    /\ wrote' = [wrote EXCEPT ![c] = TRUE]
    /\ IF Promotes(c) THEN Goto(c, "confirming") /\ UNCHANGED verdict
       ELSE Conclude(c, "appended")
    /\ UNCHANGED <<keyOf, writer, existing, fd, attempted, result, tries, reviewed, edits, failures>>

\* Only part of the block reaches the file: a full disk, or the process dies
\* between two write calls.
WriteTorn(c) ==
    /\ pc[c] = "writing" /\ failures < MaxFailures
    /\ failures' = failures + 1
    /\ AppendsBlock(c, WithTornBlock(note.text, keyOf[c]))
    /\ wrote' = [wrote EXCEPT ![c] = TRUE]
    /\ \/ /\ Conclude(c, IF Promotes(c) THEN "recover" ELSE "failed")
          /\ UNCHANGED <<result, writer, existing, fd, attempted>>
       \/ Forget(c) /\ writer' = NoCall /\ result' = [result EXCEPT ![c] = "lost"]
    /\ UNCHANGED <<keyOf, tries, reviewed, edits>>

\* The read-back: the same inode, the old bytes and the block, nothing else.
Confirm(c) ==
    /\ pc[c] = "confirming"
    /\ Conclude(c, IF /\ note # NoFile /\ note.ino = existing[c].ino
                      /\ note.text = WithBlock(existing[c].text, keyOf[c])
                   THEN "appended" ELSE "recover")
    /\ UNCHANGED <<note, keyOf, writer, existing, fd, attempted, result, wrote, tries, proved, reviewed,
                   edits, failures>>

\* Any failing call of the operating system.  "write_unavailable" stands also for
\* the other refusals before the write: an unsafe or oversized destination, and
\* a block of the other marker version, which check_destination finds.
Raises(c) ==
    /\ pc[c] \in {"reading", "opening", "writing", "confirming"}
    /\ Conclude(c, IF ~Promotes(c) THEN "failed"
                   ELSE IF attempted[c] THEN "recover" ELSE "write_unavailable")
    /\ UNCHANGED <<note, keyOf, writer, existing, fd, attempted, result, wrote, tries, proved, reviewed,
                   edits, failures>>

\* The lock is released; an uncertain promotion is looked at once more.
Leave(c) ==
    /\ pc[c] = "leaving"
    /\ writer' = IF writer = c THEN NoCall ELSE writer
    /\ IF verdict[c] = "recover"
       THEN Goto(c, "recoverWait") /\ UNCHANGED <<existing, fd, attempted, verdict, result>>
       ELSE Forget(c) /\ result' = [result EXCEPT ![c] = verdict[c]]
    /\ UNCHANGED <<note, keyOf, wrote, tries, proved, reviewed, edits, failures>>

\* Mutant: finding the opening marker is enough.
RecoveredByMarker(c) ==
    note # NoFile /\ note.text.whole[keyOf[c]] + note.text.torn[keyOf[c]] > 0

Recovered(c) == note # NoFile /\ note.ino = existing[c].ino /\ Once(note, keyOf[c])

Recover(c) ==
    /\ pc[c] = "recovering"
    /\ Conclude(c, IF Recovered(c) THEN "already_applied" ELSE "commit_unknown")
    /\ UNCHANGED <<note, keyOf, writer, existing, fd, attempted, result, wrote, tries, proved, reviewed,
                   edits, failures>>
-----------------------------------------------------------------------------
\* A user edits in place or by replacement (undoing blocks perhaps), or deletes.
UserChanges ==
    /\ edits < MaxEdits
    /\ edits' = edits + 1
    /\ note # NoFile
    /\ \/ \E ino \in {note.ino, edits + 1},
             text \in {[note.text EXCEPT !.base = edits + 1], [Blank EXCEPT !.base = edits + 1],
                       Blank} :
            SetNote([ino |-> ino, text |-> text])
       \/ note' = NoFile /\ UNCHANGED proved
    /\ UNCHANGED <<callVars, reviewed, failures>>

ProcessDies(c) ==
    /\ failures < MaxFailures /\ pc[c] # "idle"
    /\ failures' = failures + 1
    /\ Forget(c)
    /\ writer' = IF writer = c THEN NoCall ELSE writer
    /\ result' = [result EXCEPT ![c] = "lost"]
    /\ UNCHANGED <<note, keyOf, wrote, tries, proved, reviewed, edits>>

Step(c) ==
    \/ AcquireLock(c) \/ Read(c) \/ SourceChanged(c) \/ OpenReviewed(c) \/ OpenPath(c)
    \/ Write(c) \/ WriteTorn(c) \/ Confirm(c) \/ Raises(c) \/ Leave(c) \/ Recover(c)

AppendNext ==
    \/ \E c \in Calls : Begin(c) \/ Step(c) \/ ProcessDies(c)
    \/ UserChanges

AppendSpec == AppendInit /\ [][AppendNext]_appendVars
-----------------------------------------------------------------------------
(* A promotion never leaves a second block, whole or torn, in its note:    *)
(* not when two callers submit it at once, not on a retry after an unknown *)
(* outcome, not after a crash in the middle of the write.                  *)
PromotedAtMostOnce ==
    note # NoFile => \A k \in Promotions : note.text.whole[k] + note.text.torn[k] <= 1

(* A refused promotion has written nothing; only commit_unknown may hide a *)
(* write.                                                                  *)
RefusedMeansUnwritten ==
    \A c \in Calls : Promotes(c) /\ result[c] \in Refusals => ~wrote[c]

(* A promotion reported as applied stood in the note, once and whole, at   *)
(* some point of the call.                                                 *)
AppliedMeansWhole ==
    \A c \in Calls : Promotes(c) /\ result[c] \in {"appended", "already_applied"} => proved[c]

(* "appended" means the reviewed text and the block and nothing else, in   *)
(* spite of edits between the check and the write.                         *)
AppendsReviewed ==
    \A c \in Calls :
        Promotes(c) /\ pc[c] = "confirming" /\ pc'[c] = "leaving" /\ verdict'[c] = "appended"
          => note.text = WithBlock(reviewed[keyOf[c]], keyOf[c])

AppendedToReviewedText == [][AppendsReviewed]_appendVars

(* The content of a dedupe key and its marker are in the note at most once *)
(* however often and concurrently the key is submitted, even after a torn  *)
(* append.                                                                 *)
MarkedAtMostOnce ==
    note # NoFile => \A k \in DedupeKeys : note.text.whole[k] <= 1

(* However often and concurrently a promotion or a dedupe key is           *)
(* submitted, and whichever writes are torn, the note holds it once, and   *)
(* what the caller of a promotion is told is true: refused means nothing   *)
(* was written, applied that it stood in the note once and whole.          *)
AppendsHonest ==
    /\ PromotedAtMostOnce /\ MarkedAtMostOnce
    /\ AppendTyped /\ RefusedMeansUnwritten /\ AppliedMeansWhole

(* The content of a dedupe key, with or without its marker, is in the note *)
(* at most once.                                                           *)
AppendedAtMostOnce ==
    note # NoFile => \A k \in DedupeKeys : note.text.whole[k] + note.text.torn[k] <= 1
=============================================================================
