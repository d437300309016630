----------------------------- MODULE ReadTransport -----------------------------
(***************************************************************************)
(* One HTTP request to the MCP server that performs a read: the bounded    *)
(* look-ahead of mcp_read_input.StrictScopedHTTPInput, the lifetime that   *)
(* tells enrolled reads of a disconnect, and read_execution._drain, which  *)
(* cancels a read by its token and waits for it.  All but the work itself  *)
(* runs on one event loop, so control changes hands at awaits only.        *)
(***************************************************************************)
EXTENDS Integers, Sequences

CONSTANTS
    BodyParts,    \* bound: parts of the request's body
    MaxCancels    \* bound: cancellations of the request's task

ASSUME TransportAssumption == BodyParts \in Nat

VARIABLES
    unsent,    \* body parts the client has yet to send
    gone,      \* the client has left
    pump,      \* receive_pump: "none", "receiving", the item it puts, "ended"
    queue,     \* asyncio.Queue(maxsize=1)
    closed,    \* lifetime.closed
    token,     \* "none", "live", "cancelled"
    enrolled,  \* the token is in lifetime._reads
    app,       \* where the request's task stands
    work,      \* the read: "none", "running", "ok", "failed"
    seen,      \* _drain's connection_closed
    sent,      \* what the client was sent: "none", "result", "error"
    cancels

transportVars ==
    <<unsent, gone, pump, queue, closed, token, enrolled, app, work, seen, sent, cancels>>

Draining == {"waiting", "shielding"}
Items == {"part", "last", "disconnect"}

TransportInit ==
    /\ unsent \in 1..BodyParts /\ gone = FALSE
    /\ pump = "none" /\ queue = <<>> /\ closed = FALSE
    /\ token = "none" /\ enrolled = FALSE
    /\ app = "reading" /\ work = "none" /\ seen = FALSE
    /\ sent = "none" /\ cancels = 0

ClientLeaves ==
    /\ ~gone /\ gone' = TRUE
    /\ UNCHANGED <<unsent, pump, queue, closed, token, enrolled, app, work, seen, sent, cancels>>

(* disconnect(): every enrolled read is told at once. *)
Disconnects ==
    /\ closed' = TRUE
    /\ token' = IF enrolled THEN "cancelled" ELSE token

PumpReceives ==
    /\ pump = "receiving"
    /\ \/ /\ gone
          /\ pump' = "disconnect" /\ Disconnects /\ UNCHANGED unsent
       \/ /\ ~gone /\ unsent > 0
          /\ pump' = IF unsent = 1 THEN "last" ELSE "part"
          /\ unsent' = unsent - 1 /\ UNCHANGED <<closed, token>>
    /\ UNCHANGED <<gone, queue, enrolled, app, work, seen, sent, cancels>>

(* queue.put waits while the one place is taken. *)
PumpPuts ==
    /\ pump \in Items /\ queue = <<>>
    /\ queue' = <<pump>>
    /\ pump' = IF pump = "disconnect" THEN "ended" ELSE "receiving"
    /\ UNCHANGED <<unsent, gone, closed, token, enrolled, app, work, seen, sent, cancels>>

(* The request's task ends, and the pump with it. *)
RequestEnds ==
    /\ app' = "over"
    /\ pump' = IF pump = "none" THEN "none" ELSE "ended"

(* owned_receive: the first call starts the pump. *)
StartsPump ==
    /\ app = "reading" /\ pump = "none"
    /\ pump' = "receiving"
    /\ UNCHANGED <<unsent, gone, queue, closed, token, enrolled, app, work, seen, sent, cancels>>

(* checked_receive reads the whole body ahead; a client that has gone, or  *)
(* a body beyond the limit, ends the request without a read.               *)
ReadsBody ==
    /\ app = "reading" /\ pump # "none"
    /\ \/ /\ queue # <<>> /\ queue' = <<>>
          /\ \/ queue = <<"part">> /\ UNCHANGED <<app, pump>>
             \/ queue = <<"last">> /\ app' = "dispatch" /\ UNCHANGED pump
             \/ queue # <<"last">> /\ RequestEnds
       \/ queue = <<>> /\ closed /\ RequestEnds /\ UNCHANGED queue
    /\ UNCHANGED <<unsent, gone, closed, token, enrolled, work, seen, sent, cancels>>

(* A plausible bug: a read enrolled after the disconnect is not told.      *)
EnrolledUntold == "live"
Enrolled == IF closed THEN "cancelled" ELSE "live"

(* lifetime.read and create_task: the read starts on a thread of its own.  *)
BeginsRead ==
    /\ app = "dispatch"
    /\ enrolled' = TRUE /\ token' = Enrolled
    /\ work' = "running" /\ app' = "waiting"
    /\ UNCHANGED <<unsent, gone, pump, queue, closed, seen, sent, cancels>>

(* The read ends by itself or because it has looked at its token. *)
WorkEnds ==
    /\ work = "running" /\ work' \in {"ok", "failed"}
    /\ UNCHANGED <<unsent, gone, pump, queue, closed, token, enrolled, app, seen, sent, cancels>>

(* The SDK listens for the disconnect while the read runs. *)
Listens ==
    /\ app \in Draining /\ queue # <<>> /\ queue' = <<>>
    /\ UNCHANGED <<unsent, gone, pump, closed, token, enrolled, app, work, seen, sent, cancels>>

(* _drain's wait comes back, after its timeout or because the read is      *)
(* done, and the disconnect is looked for.  Done with a client that has    *)
(* gone, the outcome is dropped.                                           *)
Wakes ==
    /\ app = "waiting"
    /\ seen' = (seen \/ closed)
    /\ token' = IF closed THEN "cancelled" ELSE token
    /\ IF work = "running" THEN UNCHANGED <<app, pump, enrolled>>
       ELSE /\ enrolled' = FALSE
            /\ IF seen' THEN RequestEnds ELSE app' = "answering" /\ UNCHANGED pump
    /\ UNCHANGED <<unsent, gone, queue, closed, work, sent, cancels>>

(* connected_send *)
Sends ==
    /\ app = "answering" /\ RequestEnds
    /\ sent' = IF closed THEN "none" ELSE IF work = "ok" THEN "result" ELSE "error"
    /\ UNCHANGED <<unsent, gone, queue, closed, token, enrolled, work, seen, cancels>>

(* The request's task is cancelled, by its owner or by the server that     *)
(* shuts down: a read is told and waited for.                              *)
Cancelled ==
    /\ app # "over" /\ cancels < MaxCancels /\ cancels' = cancels + 1
    /\ IF app = "waiting"
       THEN app' = "shielding" /\ token' = "cancelled" /\ UNCHANGED <<pump, enrolled>>
       ELSE RequestEnds /\ enrolled' = FALSE /\ UNCHANGED token
    /\ UNCHANGED <<unsent, gone, queue, closed, work, seen, sent>>

(* asyncio.shield(work) has returned or raised. *)
Drained ==
    /\ app = "shielding" /\ work # "running"
    /\ RequestEnds /\ enrolled' = FALSE
    /\ UNCHANGED <<unsent, gone, queue, closed, token, work, seen, sent, cancels>>

TransportNext ==
    \/ ClientLeaves \/ PumpReceives \/ PumpPuts \/ StartsPump \/ ReadsBody \/ BeginsRead
    \/ WorkEnds \/ Listens \/ Wakes \/ Sends \/ Cancelled \/ Drained

TransportSpec == TransportInit /\ [][TransportNext]_transportVars

(* A read is stopped and waited for with its request: it learns of a       *)
(* disconnect even if it was enrolled too late for it, the look-ahead      *)
(* never hides one from it, it outlives its request only when the task is  *)
(* cancelled a second time, and then it has been told to stop; and what    *)
(* is sent is the outcome of a finished read nobody asked to stop.         *)
ReadsDrained ==
    /\ closed /\ enrolled => token = "cancelled"
    /\ enrolled => ~(pump \in {"part", "last"})
    /\ app = "over" /\ work = "running" => token = "cancelled" /\ cancels > 1
    /\ app = "over" => ~enrolled
    /\ sent # "none" => work # "running" /\ token = "live"
    /\ sent = "result" => work = "ok"
=============================================================================
