--------------------------- MODULE SessionLedger ---------------------------
(***************************************************************************)
(* What the session service promises of one conversation at a time: a turn *)
(* takes effect as a whole; what it did becomes durable before its row     *)
(* enters the turn history, and that before the caller gets the answer; a  *)
(* crash goes back to the durable state and to nothing else.               *)
(***************************************************************************)
EXTENDS SessionRecord

CONSTANTS
    Sessions,   \* session ids
    NoRecord    \* a session nobody has opened

VARIABLES
    value,    \* the session as the next turn will find it
    durable,  \* the session as a restart will find it
    logged,   \* rows of the turn history
    acked     \* turns answered

vars == <<value, durable, logged, acked>>

Init ==
    /\ value = [s \in Sessions |-> NoRecord]
    /\ durable = [s \in Sessions |-> NoRecord]
    /\ logged = [s \in Sessions |-> 0]
    /\ acked = [s \in Sessions |-> 0]

Open(s) ==
    /\ value[s] = NoRecord
    /\ value' = [value EXCEPT ![s] = Fresh]
    /\ UNCHANGED <<durable, logged, acked>>

Apply(s, u) ==
    /\ value[s] # NoRecord
    /\ value' = [value EXCEPT ![s] = Advanced(value[s], u)]
    /\ UNCHANGED <<durable, logged, acked>>

Persist(s) ==
    /\ value[s] # NoRecord
    /\ durable' = [durable EXCEPT ![s] = value[s]]
    /\ UNCHANGED <<value, logged, acked>>

Log(s) ==
    /\ durable[s] # NoRecord
    /\ logged[s] < durable[s].turns
    /\ logged' = [logged EXCEPT ![s] = logged[s] + 1]
    /\ UNCHANGED <<value, durable, acked>>

Acknowledge(s) ==
    /\ acked[s] < logged[s]
    /\ acked' = [acked EXCEPT ![s] = acked[s] + 1]
    /\ UNCHANGED <<value, durable, logged>>

Crash ==
    /\ value' = durable
    /\ UNCHANGED <<durable, logged, acked>>

Next ==
    \/ \E s \in Sessions : Open(s) \/ Persist(s) \/ Log(s) \/ Acknowledge(s)
    \/ \E s \in Sessions, u \in Utterances : Apply(s, u)
    \/ Crash

Spec == Init /\ [][Next]_vars
=============================================================================
