-------------------------- MODULE ConnectionLeases ---------------------------
(***************************************************************************)
(* OwnedResources and SQLiteConnections of core/resource_cleanup.py: a     *)
(* registry of leases in which each connection owns a registry of cursors. *)
(* Closing a connection under an open cursor would leave SQLite's native   *)
(* locks with an object nobody tracks.                                     *)
(*                                                                         *)
(* A release runs under its lease's lock, so it is one step; releases of   *)
(* different leases, acquisitions and the owner's drain interleave.        *)
(***************************************************************************)
CONSTANTS Connections      \* connection slots; each has at most one cursor

VARIABLES
    opened,      \* what SQLite holds open: "connection" and "cursor" per slot
    leases,      \* _leases: "none", "active", or "failed" (retired, not released)
    cursors,     \* the slot's cursor registry, likewise
    drained      \* the last drain returned, and nothing was acquired since

leaseVars == <<opened, leases, cursors, drained>>

LeasesInit ==
    /\ opened = [c \in Connections |-> {}]
    /\ leases = [c \in Connections |-> "none"]
    /\ cursors = [c \in Connections |-> "none"]
    /\ drained = FALSE

(* check: after one failed disposal nothing new is acquired. *)
Fenced == \E c \in Connections : leases[c] = "failed"

(* acquire; a factory that raises is forgotten again and leaves no trace. *)
Connect(c) ==
    /\ ~Fenced /\ leases[c] = "none"
    /\ opened' = [opened EXCEPT ![c] = @ \cup {"connection"}]
    /\ leases' = [leases EXCEPT ![c] = "active"]
    /\ drained' = FALSE
    /\ UNCHANGED cursors

OpenCursor(c) ==
    /\ ~Fenced /\ leases[c] = "active" /\ cursors[c] = "none"
    /\ opened' = [opened EXCEPT ![c] = @ \cup {"cursor"}]
    /\ cursors' = [cursors EXCEPT ![c] = "active"]
    /\ UNCHANGED <<leases, drained>>

(* release of one lease: its closer may return or raise, with or without
   effect, and its probe may raise.  Only "gone" forgets the lease; what was
   closed before stays closed. *)
Outcomes == {"gone", "unseen", "stuck"}
Left(outcome) == IF outcome = "gone" THEN "none" ELSE "failed"
StillOpen(c, kind, outcome) ==
    IF outcome = "stuck" THEN opened[c] ELSE opened[c] \ {kind}

(* The end of a cursor's context. *)
CloseCursor(c) ==
    /\ leases[c] = "active" /\ cursors[c] = "active"
    /\ \E outcome \in Outcomes :
          /\ opened' = [opened EXCEPT ![c] = StillOpen(c, "cursor", outcome)]
          /\ cursors' = [cursors EXCEPT ![c] = Left(outcome)]
    /\ UNCHANGED <<leases, drained>>

(* Without retry a failed lease is refused, and so is its parent's disposal. *)
MayTry(state, retry) == state = "active" \/ (state = "failed" /\ retry)

(* A plausible bug: errors of the cursors' drain are swallowed. *)
CursorsClearAnyway(c, outcome) == TRUE

CursorsClear(c, outcome) == cursors[c] = "none" \/ outcome = "gone"

(* SQLiteConnections' closer: first its cursors, active ones included.  A
   cursor left in their registry raises, and the connection is not closed. *)
CloseConnection(c, retry) ==
    /\ MayTry(leases[c], retry)
    /\ \E outcome \in IF MayTry(cursors[c], retry) THEN Outcomes ELSE {"stuck"},
          last \in Outcomes :
          LET children == StillOpen(c, "cursor", outcome) IN
          /\ cursors' = [cursors EXCEPT ![c] = IF MayTry(@, retry) THEN Left(outcome) ELSE @]
          /\ IF CursorsClear(c, outcome)
             THEN /\ opened' = [opened EXCEPT ![c] = IF last = "stuck" THEN children ELSE children \ {"connection"}]
                  /\ leases' = [leases EXCEPT ![c] = Left(last)]
             ELSE /\ opened' = [opened EXCEPT ![c] = children]
                  /\ leases' = [leases EXCEPT ![c] = "failed"]
    /\ UNCHANGED drained

(* drain(retry=True): every retired lease is released again, one at a time;
   active ones belong to their users and only make the drain fail.  It
   returns when the registry is empty. *)
DrainOne(c) == leases[c] = "failed" /\ CloseConnection(c, TRUE)

DrainReturns ==
    /\ \A c \in Connections : leases[c] = "none"
    /\ drained' = TRUE
    /\ UNCHANGED <<opened, leases, cursors>>

LeasesNext ==
    \/ DrainReturns
    \/ \E c \in Connections :
          Connect(c) \/ OpenCursor(c) \/ CloseCursor(c) \/ CloseConnection(c, FALSE) \/ DrainOne(c)

LeasesSpec == LeasesInit /\ [][LeasesNext]_leaseVars

----------------------------------------------------------------------------
(* Whatever closes, probes and retries fail, a connection is never closed
   under an open cursor, and what SQLite still holds is never forgotten by
   the registries: a drain that returned left nothing open. *)
ConnectionsAccounted ==
    /\ \A c \in Connections : "cursor" \in opened[c] => "connection" \in opened[c]
    /\ \A c \in Connections : opened[c] # {} => leases[c] # "none"
    /\ drained => \A c \in Connections : opened[c] = {}
=============================================================================
