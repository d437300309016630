---------------------------- MODULE MCNoteAppend ----------------------------
(* TLC instance of NoteAppend.                                             *)
EXTENDS NoteAppend, TLC

CallSymmetry == Permutations(Calls)
=============================================================================
