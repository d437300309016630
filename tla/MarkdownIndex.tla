---------------------------- MODULE MarkdownIndex ----------------------------
(***************************************************************************)
(* What VaultBridge promises about its derived semantic index, with every  *)
(* queue, thread and failure hidden: Markdown files are authoritative and  *)
(* only writers change them; the index follows, each entry moving only     *)
(* forward, never past the note it was derived from, and only while the    *)
(* process that owns the index is serving.                                 *)
(***************************************************************************)
EXTENDS Integers

CONSTANTS Paths,       \* vault-relative note paths
          MaxVersion   \* bound: how often one note is written in a model

VARIABLES vault,       \* version of each note on disk
          index,       \* version each index row was derived from
          serving      \* the owner has started and has not finished stopping

absVars == <<vault, index, serving>>

Version == 0..MaxVersion

AbsInit ==
    /\ vault = [p \in Paths |-> 0]
    /\ index = [p \in Paths |-> 0]
    /\ serving = FALSE

\* A client or another editor commits a note, whether or not anyone serves.
AbsWrite(p) ==
    /\ vault[p] < MaxVersion
    /\ vault' = [vault EXCEPT ![p] = @ + 1]
    /\ UNCHANGED <<index, serving>>

\* A committed batch moves some entries forward, none beyond the vault.
AbsRefresh ==
    /\ serving
    /\ index' \in [Paths -> Version]
    /\ \A p \in Paths : index[p] <= index'[p] /\ index'[p] <= vault[p]
    /\ UNCHANGED <<vault, serving>>

AbsStartOrStop ==
    /\ serving' = ~serving
    /\ UNCHANGED <<vault, index>>

AbsNext == AbsRefresh \/ AbsStartOrStop \/ \E p \in Paths : AbsWrite(p)

AbsSpec == AbsInit /\ [][AbsNext]_absVars
=============================================================================
