---------------------------- MODULE RateLimiter ----------------------------
(***************************************************************************)
(* The sliding-window rate limiter for one client address (rate_limit.py). *)
(* A request reads the clock before it takes the lock, so that requests    *)
(* may enter the deque in another order than the one their times have.     *)
(***************************************************************************)
EXTENDS Integers, Sequences, FiniteSets

CONSTANTS
    Clients,   \* request threads
    Limit,     \* limit_per_minute
    Window,    \* the 60 seconds, in ticks
    MaxTime    \* bound on the clock

ASSUME LimiterAssumption ==
    /\ Limit \in Nat \ {0}      \* config.py: RATE_LIMIT_PER_MINUTE is at least 1
    /\ Window \in Nat
    /\ MaxTime \in Nat

VARIABLES
    clock,     \* time.time()
    events,    \* the deque of the address
    pc,        \* per thread: "idle" or "decide"
    now,       \* per thread: what it read, until it has decided
    admitted,  \* history: the times of the requests admitted, in the order of the decisions
    refused,   \* history: the time the request just refused had read, or -1
    latest,    \* history: the latest time of a request decided
    overtaken  \* history: has a request been decided after a later one?

history == <<latest, overtaken>>
vars == <<clock, events, pc, now, admitted, refused, history>>

Times == 0..MaxTime

Larger(a, b) == IF a >= b THEN a ELSE b

Init ==
    /\ clock = 0
    /\ events = <<>>
    /\ pc = [c \in Clients |-> "idle"]
    /\ now = [c \in Clients |-> 0]
    /\ admitted = <<>>
    /\ refused = -1
    /\ latest = 0
    /\ overtaken = FALSE

Tick ==
    /\ clock < MaxTime
    /\ clock' = clock + 1
    /\ refused' = -1
    /\ UNCHANGED <<events, pc, now, admitted, history>>

\* now = time.time()
Read(c) ==
    /\ pc[c] = "idle"
    /\ pc' = [pc EXCEPT ![c] = "decide"]
    /\ now' = [now EXCEPT ![c] = clock]
    /\ refused' = -1
    /\ UNCHANGED <<clock, events, admitted, history>>

\* Mutant: an event of exactly a window ago is dropped, too.
HastyKept(cutoff) ==
    LET stale == {i \in DOMAIN events : \A j \in 1..i : events[j] <= cutoff}
    IN SubSeq(events, Cardinality(stale) + 1, Len(events))

\* Mutant: events are never dropped.
HoardingKept(cutoff) == events

\* The deque without the events at its head that are before the cutoff.
Kept(cutoff) ==
    LET stale == {i \in DOMAIN events : \A j \in 1..i : events[j] < cutoff}
    IN SubSeq(events, Cardinality(stale) + 1, Len(events))

\* The history of a decision.
Overtakes(c) ==
    /\ latest' = Larger(latest, now[c])
    /\ overtaken' = (overtaken \/ now[c] < latest)

\* Mutant: one too many.
LaxDecide(c) ==
    /\ pc[c] = "decide"
    /\ pc' = [pc EXCEPT ![c] = "idle"]
    /\ IF Len(Kept(now[c] - Window)) > Limit
       THEN /\ events' = Kept(now[c] - Window)
            /\ refused' = now[c]
            /\ UNCHANGED admitted
       ELSE /\ events' = Append(Kept(now[c] - Window), now[c])
            /\ admitted' = Append(admitted, now[c])
            /\ refused' = -1
    /\ Overtakes(c)
    /\ now' = [now EXCEPT ![c] = 0]
    /\ UNCHANGED clock

\* The locked section of allow.
Decide(c) ==
    /\ pc[c] = "decide"
    /\ pc' = [pc EXCEPT ![c] = "idle"]
    /\ LET kept == Kept(now[c] - Window)
       IN IF Len(kept) >= Limit
          THEN /\ events' = kept
               /\ refused' = now[c]
               /\ UNCHANGED admitted
          ELSE /\ events' = Append(kept, now[c])
               /\ admitted' = Append(admitted, now[c])
               /\ refused' = -1
    /\ Overtakes(c)
    /\ now' = [now EXCEPT ![c] = 0]
    /\ UNCHANGED clock

Next == Tick \/ \E c \in Clients : Read(c) \/ Decide(c)

Spec == Init /\ [][Next]_vars

-----------------------------------------------------------------------------
(***************************************************************************)
(* Properties.                                                             *)
(***************************************************************************)

\* Requests admitted with times from `from` to `to`.
AdmittedIn(from, to) == Cardinality({i \in DOMAIN admitted : admitted[i] \in from..to})

\* Every field in its range; the deque, however it was filled, holds no more
\* than the limit, so an address costs bounded memory.
TypeOK ==
    /\ clock \in Times
    /\ events \in Seq(Times) /\ Len(events) <= Limit
    /\ pc \in [Clients -> {"idle", "decide"}]
    /\ now \in [Clients -> Times]
    /\ admitted \in Seq(Times)
    /\ refused \in Times \cup {-1}
    /\ latest \in Times
    /\ overtaken \in BOOLEAN

\* "Request rate limiting", RATE_LIMIT_PER_MINUTE: in no window are more
\* requests admitted than the limit, as long as no request overtakes another
\* between reading the clock and taking the lock.
WindowLimit == ~overtaken => \A t \in Times : AdmittedIn(t, t + Window) <= Limit

\* Requests that overtake each other may pass the limit, by less than one for
\* each thread.
OvershootIsBounded ==
    \A t \in Times : AdmittedIn(t, t + Window) < Limit + Cardinality(Clients)

\* A request is refused only when the window that ends with it is full, as
\* long as no request overtakes another.
RefusedWhenFull ==
    refused # -1 /\ ~overtaken => AdmittedIn(refused - Window, refused) >= Limit
=============================================================================
