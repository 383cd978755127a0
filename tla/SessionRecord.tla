--------------------------- MODULE SessionRecord ---------------------------
(***************************************************************************)
(* The part of a SessionState that a turn reads and writes and that later  *)
(* turns depend on, and the three moments at which handle_turn writes it:  *)
(* the counters before the reply is composed, the turn count and the       *)
(* outcome after.                                                          *)
(***************************************************************************)
EXTENDS Integers

CONSTANTS
    MaxClarifications,  \* settings.max_clarifications
    MaxRetries          \* settings.max_retries_before_transfer

ASSUME LimitsAssumption ==
    MaxClarifications \in Nat \ {0} /\ MaxRetries \in Nat \ {0}

Record == [turns : Nat, clarifications : Nat, retries : Nat, escalated : BOOLEAN]

Fresh == [turns |-> 0, clarifications |-> 0, retries |-> 0, escalated |-> FALSE]

\* What a turn is about: was its intent understood, does the policy's
\* decision for it (or three negative turns) call for a human being?
Utterances == [understood : BOOLEAN, wantsHuman : BOOLEAN]

\* Mutant: the turn is counted together with the counters, too.
TwiceCounted(r, u) == [r EXCEPT !.turns = r.turns + 1]

\* The counters, as handle_turn leaves them before composing the reply.
Counted(r, u) ==
    LET asked == r.clarifications + (IF u.understood THEN 0 ELSE 1)
    IN IF asked > MaxClarifications
       THEN [r EXCEPT !.clarifications = 0, !.retries = r.retries + 1]
       ELSE [r EXCEPT !.clarifications = asked]

\* The decision, taken on the counters just written.
MustEscalate(r, u) == u.wantsHuman \/ r.retries >= MaxRetries

\* The rest of the session, written once the reply is composed: the turn is
\* counted ...
Tallied(r) == [r EXCEPT !.turns = r.turns + 1]

\* Mutant: the flag says whether any turn of the session was escalated.
StickyMarked(r, escalate) == [r EXCEPT !.escalated = r.escalated \/ escalate]

\* ... and the outcome noted.
Marked(r, escalate) == [r EXCEPT !.escalated = escalate]

\* A whole turn, as nobody else in between would see it.
Advanced(r, u) == Marked(Tallied(Counted(r, u)), MustEscalate(Counted(r, u), u))
=============================================================================
