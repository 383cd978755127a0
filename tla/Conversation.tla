---------------------------- MODULE Conversation ----------------------------
(***************************************************************************)
(* One session's conversation, turn by turn: what handle_turn decides and  *)
(* how it moves the counters and the journey state machine of the session  *)
(* (assistant.py, brain.py, policy.py, flows.py).  A turn is one step; the *)
(* interleavings of turns are the subject of other modules.                *)
(*                                                                         *)
(* An utterance is what the NLU engine, the knowledge lookup and the       *)
(* regular expressions make of the customer's text.  A reply is the name   *)
(* of the template it was built from and what its text does: asks a        *)
(* question, mentions the account, names a product.                        *)
(***************************************************************************)
EXTENDS NluThresholds, Sequences

CONSTANTS
    Products,             \* product names in the knowledge base
    NoProduct,            \* no product matched, no product named
    Campaigns,            \* campaign names, "default" and "retention" among them
    Allowed,              \* [Campaigns -> SUBSET Products], CAMPAIGN_FLOWS
    ConfidenceThreshold,  \* settings.confidence_threshold, hundredths
    MaxNegativeTurns,     \* settings.negative_sentiment_escalation_turns
    MaxClarifications,    \* settings.max_clarifications
    MaxRetries,           \* settings.max_retries_before_transfer
    UnsafeTemplates,      \* knowledge templates whose text the safety governor refuses
    RestrictedTemplates,  \* knowledge templates with a restricted phrase
    Utterances,           \* the utterances a customer may make
    MaxTurns              \* bound on the length of a conversation

Sentiments == {"positive", "neutral", "negative"}

JourneyStates == {"start", "clarify", "verify_account", "resolve", "offer_upsell", "transfer"}

Journeys == {"sell", "upsell", "complaint", "refund", "general"}

Utterance ==
    [intent : Intents, sentiment : Sentiments, confidence : 0..100, language : Languages,
     faqMatch : BOOLEAN,             \* a FAQ entry scored above the threshold
     product : Products \cup {NoProduct},  \* the product that did
     objection : BOOLEAN,            \* "expensive", "later", ...
     preference : BOOLEAN,           \* "cheap", "fast", ...
     retention : BOOLEAN]            \* mentions "retention"

KnowledgeTemplates == {"faq", "order_offer", "finalize_offer"}

ASSUME CountersAssumption ==
    /\ MaxNegativeTurns \in Nat \ {0}
    /\ MaxClarifications \in Nat \ {0}
    /\ MaxRetries \in Nat \ {0}
    /\ MaxTurns \in Nat

ASSUME DataAssumption ==
    /\ {"default", "retention"} \subseteq Campaigns
    /\ Allowed \in [Campaigns -> SUBSET Products]
    /\ NoProduct \notin Products
    /\ ConfidenceThreshold \in 0..100
    /\ UnsafeTemplates \subseteq KnowledgeTemplates
    /\ RestrictedTemplates \subseteq KnowledgeTemplates
    /\ Utterances \subseteq Utterance

VARIABLES
    account,         \* is account_id set?
    campaign,        \* state.campaign
    journey,         \* state.journey
    journeyState,    \* state.journey_state
    negatives,       \* state.consecutive_negative_turns
    clarifications,  \* state.clarification_count
    retries,         \* state.retry_count
    turns,           \* state.turns
    escalated,       \* state.escalated
    preference,      \* the brain memory's preferences, not persisted
    response,        \* what the last turn answered
    misunderstood    \* history: turns whose intent was not understood

vars == <<account, campaign, journey, journeyState, negatives, clarifications,
          retries, turns, escalated, preference, response, misunderstood>>

(***************************************************************************)
(* Templates and what their texts contain.                                 *)
(***************************************************************************)
AnnouncingTemplates == {"specialist_transfer", "human_agent", "campaign_specialist", "safety_transfer"}
AskingTemplates == {"faq", "order_offer", "finalize_offer", "clarify"}
AccountTemplates == {"refund_account", "refund_reference"}
RefundTemplates == {"refund_account", "refund_reference", "generic"}
UpgradeTemplates == {"upsell_compare"}
OfferTemplates == {"order_offer", "finalize_offer"}

Templates ==
    AnnouncingTemplates \cup AskingTemplates \cup AccountTemplates \cup UpgradeTemplates
        \cup {"generic", "objection_answer", "preference_answer", "support_help",
              "upsell_bundle", "verified_details", "greeting"}

Reply == [template : Templates, escalate : BOOLEAN, understood : BOOLEAN,
          asksQuestion : BOOLEAN, asksAccount : BOOLEAN,
          product : Products \cup {NoProduct}, campaign : Campaigns]

(***************************************************************************)
(* The brain: context, plan and candidates.                                *)
(***************************************************************************)
ConfidentIn(u) == Understood(u.intent, u.language, u.confidence)

\* _extract_context: the account number is not among what it looks for.
CampaignAfter(u) == IF u.retention THEN "retention" ELSE campaign

\* MemoryManager.update_from_turn: a preference once heard stays.
PreferenceAfter(u) == preference \/ u.preference

\* Mutant: the planner wants the account for refunds only.
RefundOnlyTopAction(u) ==
    CASE ~ConfidentIn(u) -> "clarify_request"
      [] ConfidentIn(u) /\ u.intent = "refund" /\ ~account -> "verify_account"
      [] OTHER -> "other"

\* The plan's step of highest priority.
TopAction(u) ==
    CASE ~ConfidentIn(u) -> "clarify_request"
      [] ConfidentIn(u) /\ u.intent \in {"support", "refund"} /\ ~account -> "verify_account"
      [] OTHER -> "other"

When(condition, template) == IF condition THEN <<template>> ELSE <<>>

\* Mutant: the campaign is looked at before the context is extracted.
StaleCampaignCandidates(u) ==
    IF u.intent = "sales" /\ u.product # NoProduct
    THEN <<IF u.product \in Allowed[campaign] THEN "order_offer" ELSE "campaign_specialist">>
    ELSE <<>>

SalesCandidates(u) ==
    IF u.intent = "sales" /\ u.product # NoProduct
    THEN <<IF u.product \in Allowed[CampaignAfter(u)] THEN "order_offer" ELSE "campaign_specialist">>
         \o When(u.objection, "objection_answer")
         \o When(PreferenceAfter(u), "preference_answer")
         \o <<"finalize_offer">>
    ELSE <<>>

\* decide_response's candidates, in the order it appends them.
Candidates(u) ==
    When(u.intent = "faq" /\ u.faqMatch, "faq")
    \o SalesCandidates(u)
    \o When(u.intent = "support", "support_help")
    \o When(u.intent = "refund", "refund_account")
    \o (IF u.intent = "upsell" THEN <<"upsell_bundle", "upsell_compare">> ELSE <<>>)
    \o When(u.intent = "refund", "refund_reference")
    \o When(u.confidence < ConfidenceThreshold, "clarify")
    \o <<"generic">>

\* PolicyReranker's score in tenths, without the confidence term, which is
\* the same for every candidate.
Score(template, u) ==
    (IF template = "campaign_specialist" THEN (IF u.sentiment = "negative" THEN 9 ELSE -2) ELSE 0)
    + (IF template \in RefundTemplates /\ u.intent = "refund" THEN 7 ELSE 0)
    + (IF template \in UpgradeTemplates /\ u.intent = "upsell" THEN 6 ELSE 0)
    + (IF template \in AccountTemplates /\ journeyState = "verify_account" THEN 8 ELSE 0)

\* The first candidate with the highest score.
Picked(u) ==
    LET c == Candidates(u)
        best == CHOOSE i \in DOMAIN c :
                    \A j \in DOMAIN c : /\ Score(c[j], u) <= Score(c[i], u)
                                        /\ j < i => Score(c[j], u) < Score(c[i], u)
    IN c[best]

DecisionTemplate(u) == IF u.intent = "escalation" THEN "specialist_transfer" ELSE Picked(u)

DecisionEscalates(u) == DecisionTemplate(u) \in {"specialist_transfer", "campaign_specialist"}

(***************************************************************************)
(* Counters and the decision to hand over.                                 *)
(***************************************************************************)
NegativesAfter(u) == IF u.sentiment = "negative" THEN negatives + 1 ELSE 0

Asked(u) == clarifications + (IF ConfidentIn(u) THEN 0 ELSE 1)

GivesUp(u) == Asked(u) > MaxClarifications

\* Mutant: giving up does not start a new round.
UnendingClarifications(u) == Asked(u)

ClarificationsAfter(u) == IF GivesUp(u) THEN 0 ELSE Asked(u)

\* Mutants: the retries do not survive a turn that needs none, or one that is
\* understood.
ForgottenRetries(u) == IF GivesUp(u) THEN retries + 1 ELSE 0

ForgivenRetries(u) ==
    IF GivesUp(u) THEN retries + 1 ELSE IF ConfidentIn(u) THEN 0 ELSE retries

RetriesAfter(u) == IF GivesUp(u) THEN retries + 1 ELSE retries

ForceEscalation(u) == NegativesAfter(u) >= MaxNegativeTurns

PolicyEscalation(u) == RetriesAfter(u) >= MaxRetries

Draft(u) == IF ForceEscalation(u) THEN "human_agent" ELSE DecisionTemplate(u)

Unsafe(u) == Draft(u) \in UnsafeTemplates

\* Mutant: the decision's own flag is overlooked.
OverlookedEscalates(u) == ForceEscalation(u) \/ PolicyEscalation(u) \/ Unsafe(u)

Escalates(u) ==
    DecisionEscalates(u) \/ ForceEscalation(u) \/ PolicyEscalation(u) \/ Unsafe(u)

(***************************************************************************)
(* The reply: reflection may append a question and an account request, the *)
(* safety governor and the compliance filter replace the text.             *)
(***************************************************************************)
FinalTemplate(u) ==
    IF Unsafe(u) THEN "safety_transfer"
    ELSE IF Draft(u) \in RestrictedTemplates THEN "verified_details" ELSE Draft(u)

Replaced(u) == FinalTemplate(u) # Draft(u)

\* Mutant: reflection asks below the lowest floor of the thresholds only.
TimidUncertain(u) == u.confidence < 30

\* The confidence below which reflection adds a question of its own.
Uncertain(u) == u.confidence < 45

ReplyTo(u) ==
    [template |-> FinalTemplate(u),
     escalate |-> Escalates(u),
     understood |-> ConfidentIn(u),
     asksQuestion |-> ~Replaced(u) /\ (Draft(u) \in AskingTemplates \/ Uncertain(u)),
     asksAccount |-> ~Replaced(u) /\ (Draft(u) \in AccountTemplates \/ TopAction(u) = "verify_account"),
     product |-> IF FinalTemplate(u) \in OfferTemplates THEN u.product ELSE NoProduct,
     campaign |-> CampaignAfter(u)]

Greeting == [template |-> "greeting", escalate |-> FALSE, understood |-> TRUE,
             asksQuestion |-> FALSE, asksAccount |-> FALSE, product |-> NoProduct,
             campaign |-> "default"]

(***************************************************************************)
(* The journey state machine.                                              *)
(***************************************************************************)
JourneyFor(intent) ==
    CASE intent = "sales" -> "sell"
      [] intent = "upsell" -> "upsell"
      [] intent = "refund" -> "refund"
      [] intent \in {"support", "escalation"} -> "complaint"
      [] OTHER -> "general"

\* Mutant: confidence is tested before the escalation.
ClarifyFirstStateAfter(u) ==
    CASE ~ConfidentIn(u) -> "clarify"
      [] ConfidentIn(u) /\ Escalates(u) -> "transfer"
      [] OTHER -> "resolve"

JourneyStateAfter(u) ==
    CASE Escalates(u) -> "transfer"
      [] ~Escalates(u) /\ ~ConfidentIn(u) -> "clarify"
      [] ~Escalates(u) /\ ConfidentIn(u) ->
            IF ~account /\ JourneyFor(u.intent) \in {"refund", "complaint"} THEN "verify_account"
            ELSE IF JourneyFor(u.intent) = "upsell" THEN "offer_upsell" ELSE "resolve"

\* A session as POST /v1/sessions creates it (no account, default campaign)
\* or as the start of a SIP call leaves it (what the headers said).
Init ==
    /\ account \in BOOLEAN
    /\ campaign \in Campaigns
    /\ journey = "general"
    /\ journeyState = "start"
    /\ negatives = 0
    /\ clarifications = 0
    /\ retries = 0
    /\ turns = 0
    /\ escalated = FALSE
    /\ preference = FALSE
    /\ response = Greeting
    /\ misunderstood = 0

\* handle_turn on utterance u.
Turn(u) ==
    /\ turns < MaxTurns
    /\ campaign' = CampaignAfter(u)
    /\ preference' = PreferenceAfter(u)
    /\ negatives' = NegativesAfter(u)
    /\ clarifications' = ClarificationsAfter(u)
    /\ retries' = RetriesAfter(u)
    /\ turns' = turns + 1
    /\ journey' = JourneyFor(u.intent)
    /\ journeyState' = JourneyStateAfter(u)
    /\ escalated' = Escalates(u)
    /\ response' = ReplyTo(u)
    /\ misunderstood' = misunderstood + (IF ConfidentIn(u) THEN 0 ELSE 1)
    /\ UNCHANGED account

\* The process restarts between two turns: the session comes back from the
\* database, the brain memory does not.
Restart ==
    /\ preference' = FALSE
    /\ UNCHANGED <<account, campaign, journey, journeyState, negatives, clarifications,
                   retries, turns, escalated, response, misunderstood>>

Next == (\E u \in Utterances : Turn(u)) \/ Restart

Spec == Init /\ [][Next]_vars

-----------------------------------------------------------------------------
(***************************************************************************)
(* Properties.                                                             *)
(***************************************************************************)

\* Every session field stays in its range; the clarification counter never
\* passes its cap, because the turn that would pass it resets it.
TypeOK ==
    /\ account \in BOOLEAN
    /\ campaign \in Campaigns
    /\ journey \in Journeys
    /\ journeyState \in JourneyStates
    /\ negatives \in Nat
    /\ clarifications \in 0..MaxClarifications
    /\ retries \in Nat
    /\ turns \in 0..MaxTurns
    /\ escalated \in BOOLEAN
    /\ preference \in BOOLEAN
    /\ response \in Reply
    /\ misunderstood \in Nat

\* The deterministic transfer policy: the two counters of clarifications and
\* retries, one of which is reset on the way, count every misunderstood turn,
\* so the session is with a human once MaxRetries rounds of MaxClarifications
\* questions and one more have failed, and, whatever else happened in between,
\* once MaxNegativeTurns turns in a row were negative.
PatienceRunsOut ==
    /\ misunderstood >= MaxRetries * (MaxClarifications + 1) => escalated
    /\ negatives >= MaxNegativeTurns => escalated

\* The journey is in transfer exactly when the session and the last answer say
\* it was escalated: the three are written at different places of a turn.
TransferAgrees ==
    /\ journeyState = "transfer" <=> escalated
    /\ escalated = response.escalate

\* A reply that tells the customer of a human being is a reply of a turn that
\* does escalate: no candidate text promises a transfer that is not made.
HandoffIsKept == response.template \in AnnouncingTemplates => escalated

\* A turn that was not understood never goes by without a question, although
\* the question comes from a different test (confidence below 0.45) than the
\* one that finds the turn not understood (the calibrated threshold).
UnsureReplyAsks ==
    ~response.understood /\ response.template \notin {"safety_transfer", "verified_details"}
        => response.asksQuestion

\* The journey machine waits for the account exactly because the reply asked
\* for it: planner and journey machine use different conditions.
VerifyAccountIsAsked ==
    journeyState = "verify_account" /\ response.template # "verified_details"
        => response.asksAccount

\* An order is only offered for a product the session's campaign allows.
OrderIsEligible ==
    response.template = "order_offer" => response.product \in Allowed[response.campaign]

\* Once the retries are used up every further turn is a transfer: no turn that
\* goes well brings the session back to the bot.
StickyTransfer ==
    [][retries >= MaxRetries => turns' = turns \/ journeyState' = "transfer"]_vars

(***************************************************************************)
(* What the documentation says and the code does not do.                   *)
(***************************************************************************)

\* "Campaign-aware flow constraints": no reply offers a product that the
\* campaign does not allow.
CampaignRespected ==
    response.product # NoProduct => response.product \in Allowed[response.campaign]
=============================================================================
