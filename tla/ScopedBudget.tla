----------------------------- MODULE ScopedBudget -----------------------------
(***************************************************************************)
(* The request-local counters of services/scoped_budget.py: charges, the   *)
(* probes set aside for cleanup when a descriptor is opened, and the parse *)
(* credit of relationship sources.  Counters only grow, so the state space *)
(* is as small as the ceilings.                                            *)
(***************************************************************************)
EXTENDS Integers, FiniteSets, FiniteSetsExt, Functions

CONSTANTS Ids,            \* selected spaces
          Credits,        \* cleanup credits that may be outstanding at once
          CreditSize,     \* probes set aside per credit (8 in the code)
          ProbeCeiling,   \* aggregate probes of the request
          SourceBytes,    \* bytes of one authored source
          Sources,        \* sources whose relationships are derived
          ParseFactor     \* parse probes per authored byte (16 in the code)

ASSUME BudgetAssumption ==
    /\ CreditSize \in Nat \ {0} /\ ProbeCeiling \in Nat
    /\ SourceBytes \in Nat /\ ParseFactor \in Nat \ {0}
    /\ IsFiniteSet(Ids) /\ Ids # {} /\ IsFiniteSet(Credits)

VARIABLES
    probes,       \* used probes of each space
    charged,      \* total: probes of all spaces
    reserved,     \* probes set aside for each space's credits
    credit,       \* outstanding credits: [sid, left]
    bytesRead,    \* used["bytes"], in whole sources
    derived,      \* relationship_sources
    parseLeft,    \* _parse_remaining of the space's view
    parsed        \* parse_probes of each space

budgetVars == <<probes, charged, reserved, credit, bytesRead, derived, parseLeft, parsed>>

NoCredit == [sid |-> "none", left |-> 0]

BudgetInit ==
    /\ probes = [sid \in Ids |-> 0] /\ charged = 0 /\ reserved = [sid \in Ids |-> 0]
    /\ credit = [c \in Credits |-> NoCredit]
    /\ bytesRead = [sid \in Ids |-> {}]
    /\ derived = [sid \in Ids |-> {}]
    /\ parseLeft = [sid \in Ids |-> 0]
    /\ parsed = [sid \in Ids |-> 0]

Share == ProbeCeiling \div Cardinality(Ids)

(* remaining: what is reserved for cleanup is not there to be charged. *)
RemainingProbes(sid) ==
    Min({ProbeCeiling - charged - SumFunction(reserved), Share - probes[sid] - reserved[sid]})

(* A plausible bug: a reservation is checked against the charges alone. *)
CreditFitsUsed(sid) == Share - probes[sid] >= CreditSize

CreditFits(sid) == RemainingProbes(sid) >= CreditSize

ReserveCleanup(sid, c) ==
    /\ credit[c] = NoCredit /\ CreditFits(sid)
    /\ credit' = [credit EXCEPT ![c] = [sid |-> sid, left |-> CreditSize]]
    /\ reserved' = [reserved EXCEPT ![sid] = @ + CreditSize]
    /\ UNCHANGED <<probes, charged, bytesRead, derived, parseLeft, parsed>>

ChargeProbe(sid) ==
    /\ RemainingProbes(sid) >= 1
    /\ probes' = [probes EXCEPT ![sid] = @ + 1] /\ charged' = charged + 1
    /\ UNCHANGED <<reserved, credit, bytesRead, derived, parseLeft, parsed>>

(* CleanupCredit.probe: the reservation is given back and charged at once. *)
CleanupProbe(c) ==
    /\ credit[c].left > 0
    /\ credit' = [credit EXCEPT ![c].left = @ - 1]
    /\ reserved' = [reserved EXCEPT ![credit[c].sid] = @ - 1]
    /\ probes' = [probes EXCEPT ![credit[c].sid] = @ + 1] /\ charged' = charged + 1
    /\ UNCHANGED <<bytesRead, derived, parseLeft, parsed>>

FinishCredit(c) ==
    /\ credit[c] # NoCredit
    /\ credit' = [credit EXCEPT ![c] = NoCredit]
    /\ reserved' = [reserved EXCEPT ![credit[c].sid] = @ - credit[c].left]
    /\ UNCHANGED <<probes, charged, bytesRead, derived, parseLeft, parsed>>

ReadSource(sid, source) ==
    /\ source \notin bytesRead[sid]
    /\ bytesRead' = [bytesRead EXCEPT ![sid] = @ \cup {source}]
    /\ UNCHANGED <<probes, charged, reserved, credit, derived, parseLeft, parsed>>

(* RelationshipBudgetView.source: each source once, and only content that was
   read and accounted; unused credit of the previous source lapses. *)
DeriveSource(sid, source) ==
    /\ source \notin derived[sid]
    /\ Cardinality(derived[sid]) < Cardinality(bytesRead[sid])
    /\ derived' = [derived EXCEPT ![sid] = @ \cup {source}]
    /\ parseLeft' = [parseLeft EXCEPT ![sid] = ParseFactor * SourceBytes]
    /\ UNCHANGED <<probes, charged, reserved, credit, bytesRead, parsed>>

ParseProbe(sid) ==
    /\ parseLeft[sid] > 0
    /\ parseLeft' = [parseLeft EXCEPT ![sid] = @ - 1]
    /\ parsed' = [parsed EXCEPT ![sid] = @ + 1]
    /\ UNCHANGED <<probes, charged, reserved, credit, bytesRead, derived>>

BudgetNext ==
    \/ \E sid \in Ids :
          \/ ChargeProbe(sid) \/ ParseProbe(sid)
          \/ \E c \in Credits : ReserveCleanup(sid, c)
          \/ \E source \in Sources : ReadSource(sid, source) \/ DeriveSource(sid, source)
    \/ \E c \in Credits : CleanupProbe(c) \/ FinishCredit(c)

BudgetSpec == BudgetInit /\ [][BudgetNext]_budgetVars

----------------------------------------------------------------------------
(* A resource opened under the budget can always be examined while it is
   disposed of: however the spaces spend, every outstanding cleanup probe
   still fits both its space's share and the aggregate ceiling.  Relationship
   parsing never exceeds the credit of the bytes that were really read. *)
CleanupCanPay ==
    \A c \in Credits : credit[c].left > 0 => RemainingProbes(credit[c].sid) >= 0

ParsingIsPaid ==
    \A sid \in Ids : parsed[sid] <= ParseFactor * SourceBytes * Cardinality(bytesRead[sid])

(* What is set aside for a space is what its credits may still spend, and the
   spaces' charges add up to the total. *)
LeftOf(sid) == [c \in Credits |-> IF credit[c].sid = sid THEN credit[c].left ELSE 0]
CountersAgree ==
    /\ \A sid \in Ids : reserved[sid] = SumFunction(LeftOf(sid))
    /\ charged = SumFunction(probes)

(* However the spaces spend, the counters agree, a reserved cleanup probe can be
   paid when it comes, and parsing is paid by bytes that were read. *)
BudgetHolds == CountersAgree /\ CleanupCanPay /\ ParsingIsPaid
=============================================================================
