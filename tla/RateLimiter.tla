------------------------------ MODULE RateLimiter ------------------------------
(***************************************************************************)
(* FixedWindowRateLimiter of services/rate_limiter.py: a bounded table of  *)
(* client windows that request threads share.  A thread reads the clock    *)
(* before it takes the lock, so windows are judged with readings that may  *)
(* be older than the ones that made them.                                  *)
(***************************************************************************)
EXTENDS Integers, FiniteSets

CONSTANTS
    Threads,         \* request threads
    Clients,         \* client identities
    Requests,        \* requests allowed in one window
    WindowSeconds,
    MaxClients,      \* windows kept
    LastSecond,      \* bound: the clock stops here
    MaxChecks        \* bound: checks begun

ASSUME RateAssumption ==
    Clients # {} /\ Requests \in Nat \ {0} /\ WindowSeconds \in Nat \ {0} /\ MaxClients \in Nat \ {0}

VARIABLES
    now,       \* the monotonic clock
    windows,   \* the table: {[client, startedAt, requestCount, id, used]}
    reading,   \* thread -> what it read of the clock, or Nothing
    asks,      \* thread -> the client it checks for
    answered,  \* what each window has answered: {[nth, window, client, read, retry]}; retry 0 allows
    begun      \* bound's counter

rateVars == <<now, windows, reading, asks, answered, begun>>

Nothing == 0 - 1

(* Checks are counted by their answers: a window is named by the answer that
   opens it, and bears the number of the last one that used it. *)
Answers == Cardinality(answered)

RateInit ==
    /\ now = 0 /\ windows = {} /\ answered = {} /\ begun = 0
    /\ reading = [t \in Threads |-> Nothing] /\ asks = [t \in Threads |-> CHOOSE c \in Clients : TRUE]

Tick == now < LastSecond /\ now' = now + 1 /\ UNCHANGED <<windows, reading, asks, answered, begun>>

(* check, before the lock. *)
ReadClock(t) ==
    \E c \in Clients :
       /\ reading[t] = Nothing /\ begun < MaxChecks
       /\ reading' = [reading EXCEPT ![t] = now] /\ asks' = [asks EXCEPT ![t] = c]
       /\ begun' = begun + 1
       /\ UNCHANGED <<now, windows, answered>>

(* A plausible bug: a window is kept through the second in which it ends. *)
LiveLonger(w, read) == read - w.startedAt <= WindowSeconds
Live(w, read) == read - w.startedAt < WindowSeconds

(* _make_capacity: the least recently used window goes. *)
LeastRecent(kept) == CHOOSE w \in kept : \A v \in kept : w.used <= v.used
WithRoom(kept) == IF Cardinality(kept) >= MaxClients THEN kept \ {LeastRecent(kept)} ELSE kept

Answer(w, t, retry) ==
    answered' = answered \cup
        {[nth |-> Answers, window |-> w.id, client |-> asks[t], read |-> reading[t], retry |-> retry]}

Opened(t) == [client |-> asks[t], startedAt |-> reading[t], requestCount |-> 1, id |-> Answers, used |-> Answers]
Used(w, count) == [w EXCEPT !.requestCount = count, !.used = Answers]

(* check, under the lock: stale windows go first, whoever asks. *)
Kept(t) == {w \in windows : Live(w, reading[t])}

OpensWindow(t) ==
    /\ \A w \in Kept(t) : w.client # asks[t]
    /\ windows' = WithRoom(Kept(t)) \cup {Opened(t)}
    /\ Answer(Opened(t), t, 0)

Allows(t, w) ==
    /\ w.requestCount < Requests
    /\ windows' = (Kept(t) \ {w}) \cup {Used(w, w.requestCount + 1)}
    /\ Answer(w, t, 0)

Refuses(t, w) ==
    LET remaining == WindowSeconds - (reading[t] - w.startedAt)
    IN /\ w.requestCount >= Requests
       /\ windows' = (Kept(t) \ {w}) \cup {Used(w, w.requestCount)}
       /\ Answer(w, t, IF remaining < 1 THEN 1 ELSE remaining)

Judge(t) ==
    /\ reading[t] # Nothing
    /\ \/ OpensWindow(t)
       \/ \E w \in Kept(t) : w.client = asks[t] /\ (Allows(t, w) \/ Refuses(t, w))
    /\ reading' = [reading EXCEPT ![t] = Nothing]
    /\ UNCHANGED <<now, asks, begun>>

RateNext == Tick \/ \E t \in Threads : ReadClock(t) \/ Judge(t)
RateSpec == RateInit /\ [][RateNext]_rateVars

-----------------------------------------------------------------------------
(* Whatever the order in which the threads reach the lock: the table keeps at
   most MaxClients windows and one per client; a window allows at most Requests
   checks of one client; and a refused client that waits as long as it was told,
   from when it asked or later, is not refused again by the window that told it. *)
RateHolds ==
    /\ Cardinality(windows) <= MaxClients /\ \A v, w \in windows : v.client = w.client => v = w
    /\ \A a \in answered :
          /\ Cardinality({b \in answered : b.window = a.window /\ b.retry = 0}) <= Requests
          /\ \A b \in answered :
                b.window = a.window =>
                   /\ b.client = a.client
                   /\ (a.retry > 0 /\ b.retry > 0) => b.read < a.read + a.retry
=============================================================================
