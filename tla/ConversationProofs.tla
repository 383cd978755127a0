------------------------- MODULE ConversationProofs -------------------------
(***************************************************************************)
(* Theorems about Conversation.  The inductive invariant adds to the       *)
(* properties the law of the two counters: every misunderstood turn is     *)
(* either a pending clarification or one of the MaxClarifications + 1      *)
(* turns that a retry stands for.                                          *)
(***************************************************************************)
EXTENDS Conversation, WellFoundedInduction, TLAPS

\* A set of natural numbers that is not empty has a least element.
LEMMA LeastNatural ==
    ASSUME NEW T, T \subseteq Nat, T # {}
    PROVE  \E x \in T : \A y \in T : x <= y
<1>1. PICK x \in T : \A y \in T : ~ (<<y, x>> \in OpToRel(<, Nat))
    BY WFMin, NatLessThanWellFounded
<1>2. \A y \in T : ~ (y < x)
    BY <1>1 DEF OpToRel
<1> QED
    BY <1>2

\* The templates that decide_response may offer for u.
Eligible(u) ==
    {t \in Templates : /\ t \notin {"specialist_transfer", "human_agent", "safety_transfer"}
                       /\ t = "order_offer" => u.product \in Allowed[CampaignAfter(u)]}

\* Every candidate is eligible, and there is at least one.
LEMMA CandidatesEligible ==
    ASSUME NEW u \in Utterances
    PROVE  /\ Candidates(u) \in Seq(Eligible(u))
           /\ Candidates(u) # <<>>
<1> DEFINE E == Eligible(u)
<1>1. \A b \in BOOLEAN : \A t \in E : When(b, t) \in Seq(E)
    BY DEF When
<1>2. SalesCandidates(u) \in Seq(E)
  <2>1. CASE u.intent = "sales" /\ u.product # NoProduct
    <3> DEFINE head == IF u.product \in Allowed[CampaignAfter(u)] THEN "order_offer" ELSE "campaign_specialist"
    <3>1. head \in E
        BY DEF Eligible, Templates, AnnouncingTemplates, AskingTemplates
    <3>2. {"objection_answer", "preference_answer", "finalize_offer"} \subseteq E
        BY DEF Eligible, Templates, AnnouncingTemplates, AskingTemplates
    <3>3. <<head>> \in Seq(E) /\ <<"finalize_offer">> \in Seq(E)
        BY <3>1, <3>2
    <3>4. When(u.objection, "objection_answer") \in Seq(E) /\ When(PreferenceAfter(u), "preference_answer") \in Seq(E)
        BY <3>2 DEF When
    <3> HIDE DEF head, E
    <3> QED
        BY <2>1, <3>3, <3>4 DEF SalesCandidates, head
  <2>2. CASE ~(u.intent = "sales" /\ u.product # NoProduct)
    BY <2>2 DEF SalesCandidates
  <2> QED
    BY <2>1, <2>2
<1>3. {"faq", "support_help", "refund_account", "upsell_bundle", "upsell_compare",
       "refund_reference", "clarify", "generic"} \subseteq E
    BY DEF Eligible, Templates, AnnouncingTemplates, AskingTemplates, AccountTemplates, UpgradeTemplates
<1>4. /\ When(u.intent = "faq" /\ u.faqMatch, "faq") \in Seq(E)
      /\ When(u.intent = "support", "support_help") \in Seq(E)
      /\ When(u.intent = "refund", "refund_account") \in Seq(E)
      /\ (IF u.intent = "upsell" THEN <<"upsell_bundle", "upsell_compare">> ELSE <<>>) \in Seq(E)
      /\ When(u.intent = "refund", "refund_reference") \in Seq(E)
      /\ When(u.confidence < ConfidenceThreshold, "clarify") \in Seq(E)
      /\ <<"generic">> \in Seq(E)
    BY <1>3 DEF When
<1> DEFINE front == When(u.intent = "faq" /\ u.faqMatch, "faq") \o SalesCandidates(u)
                      \o When(u.intent = "support", "support_help")
                      \o When(u.intent = "refund", "refund_account")
                      \o (IF u.intent = "upsell" THEN <<"upsell_bundle", "upsell_compare">> ELSE <<>>)
                      \o When(u.intent = "refund", "refund_reference")
                      \o When(u.confidence < ConfidenceThreshold, "clarify")
<1>5. Candidates(u) = front \o <<"generic">>
    BY DEF Candidates
<1> HIDE DEF E
<1>6. front \in Seq(E)
    BY <1>2, <1>4
<1> HIDE DEF front
<1>7. front \o <<"generic">> \in Seq(E) /\ front \o <<"generic">> # <<>>
    BY <1>4, <1>6
<1> QED
    BY <1>5, <1>7 DEF E

\* Scores are integers of at most 30 tenths.
LEMMA ScoreRange ==
    ASSUME NEW t, NEW u
    PROVE  Score(t, u) \in Int /\ Score(t, u) <= 30
BY DEF Score

\* The reranker finds a best candidate: what it picks is one of them.
LEMMA PickedEligible ==
    ASSUME NEW u \in Utterances
    PROVE  Picked(u) \in Eligible(u)
<1> DEFINE c == Candidates(u)
           Cost(j) == 30 - Score(c[j], u)
           Best(i) == \A j \in DOMAIN c : /\ Score(c[j], u) <= Score(c[i], u)
                                          /\ j < i => Score(c[j], u) < Score(c[i], u)
<1>1. c \in Seq(Eligible(u)) /\ DOMAIN c # {} /\ DOMAIN c \subseteq Nat
  <2>1. \A S : \A s \in Seq(S) : s # <<>> => 1 \in DOMAIN s /\ DOMAIN s \subseteq Nat
    OBVIOUS
  <2> HIDE DEF c
  <2>2. c \in Seq(Eligible(u)) /\ c # <<>>
    BY CandidatesEligible DEF c
  <2> QED
    BY <2>1, <2>2
<1>2. \A j \in DOMAIN c : Cost(j) \in Nat /\ Score(c[j], u) \in Int
    BY ScoreRange
<1> HIDE DEF c
<1>3. PICK m \in {Cost(j) : j \in DOMAIN c} : \A n \in {Cost(j) : j \in DOMAIN c} : m <= n
    BY <1>1, <1>2, LeastNatural
<1>4. PICK i \in {j \in DOMAIN c : Cost(j) = m} : \A k \in {j \in DOMAIN c : Cost(j) = m} : i <= k
  <2>1. {j \in DOMAIN c : Cost(j) = m} # {} /\ {j \in DOMAIN c : Cost(j) = m} \subseteq Nat
    BY <1>1, <1>3
  <2> QED
    BY <2>1, LeastNatural
<1>5. \E k \in DOMAIN c : Best(k)
  <2>1. ASSUME NEW j \in DOMAIN c
        PROVE  Score(c[j], u) <= Score(c[i], u) /\ (j < i => Score(c[j], u) < Score(c[i], u))
    <3>1. Cost(i) <= Cost(j) /\ (j < i => Cost(j) # Cost(i))
        BY <1>1, <1>3, <1>4
    <3> QED
        BY <1>2, <1>4, <3>1
  <2> QED
    BY <1>4, <2>1
<1>6. PICK k \in DOMAIN c : Picked(u) = c[k]
    BY <1>5 DEF Picked, c
<1> QED
    BY <1>1, <1>6

-----------------------------------------------------------------------------
\* What a turn's template is, and that its reply is a reply.
LEMMA ReplyType ==
    ASSUME TypeOK, NEW u \in Utterances
    PROVE  /\ ReplyTo(u) \in Reply
           /\ CampaignAfter(u) \in Campaigns
           /\ Escalates(u) \in BOOLEAN
           /\ ConfidentIn(u) \in BOOLEAN
<1>1. u \in Utterance
    BY DataAssumption
<1>2. CampaignAfter(u) \in Campaigns
    BY DataAssumption DEF TypeOK, CampaignAfter
<1>3. DecisionTemplate(u) \in Templates
    BY PickedEligible DEF DecisionTemplate, Eligible, Templates, AnnouncingTemplates
<1>4. FinalTemplate(u) \in Templates
    BY <1>3 DEF FinalTemplate, Draft, Templates, AnnouncingTemplates
<1>5. /\ Escalates(u) \in BOOLEAN
      /\ ConfidentIn(u) \in BOOLEAN
      /\ Replaced(u) \in BOOLEAN
    BY DEF Escalates, DecisionEscalates, ForceEscalation, PolicyEscalation, Unsafe,
           ConfidentIn, Understood, Replaced
<1>6. (u.confidence < 45) \in BOOLEAN
    BY <1>1 DEF Utterance
<1>7. /\ u.product \in Products \cup {NoProduct}
    BY <1>1 DEF Utterance
<1> QED
    BY <1>2, <1>4, <1>5, <1>6, <1>7 DEF ReplyTo, Reply, Uncertain

\* Type correctness of every session, for all values of the limits.
LEMMA TypeInit == Init => TypeOK
<1>1. Greeting \in Reply
    BY DataAssumption DEF Greeting, Reply, Templates
<1>2. ASSUME Init
      PROVE  /\ account \in BOOLEAN /\ campaign \in Campaigns
             /\ journey \in Journeys /\ journeyState \in JourneyStates
             /\ escalated \in BOOLEAN /\ preference \in BOOLEAN
    BY <1>2 DEF Init, Journeys, JourneyStates
<1>3. ASSUME Init
      PROVE  /\ negatives \in Nat /\ retries \in Nat /\ misunderstood \in Nat
             /\ clarifications \in 0..MaxClarifications /\ turns \in 0..MaxTurns
    BY <1>3, CountersAssumption DEF Init
<1>4. Init => response \in Reply
    BY <1>1 DEF Init
<1> QED
    BY <1>2, <1>3, <1>4 DEF TypeOK

LEMMA TypeStep == TypeOK /\ [Next]_vars => TypeOK'
<1> SUFFICES ASSUME TypeOK, [Next]_vars
             PROVE  TypeOK'
    OBVIOUS
<1>1. CASE \E u \in Utterances : Turn(u)
  <2>1. PICK u \in Utterances : Turn(u)
    BY <1>1
  <2>2. account' \in BOOLEAN /\ campaign' \in Campaigns /\ escalated' \in BOOLEAN /\ response' \in Reply
    BY <2>1, ReplyType DEF Turn, TypeOK
  <2>3. journey' \in Journeys
    BY <2>1 DEF Turn, JourneyFor, Journeys
  <2>4. journeyState' \in JourneyStates
    BY <2>1, ReplyType DEF Turn, JourneyStateAfter, JourneyStates
  <2>5. negatives' \in Nat /\ retries' \in Nat /\ misunderstood' \in Nat
    BY <2>1 DEF Turn, TypeOK, NegativesAfter, RetriesAfter
  <2>6. clarifications' \in 0..MaxClarifications
    BY <2>1, CountersAssumption DEF Turn, TypeOK, ClarificationsAfter, GivesUp, Asked
  <2>7. turns' \in 0..MaxTurns
    BY <2>1, CountersAssumption DEF Turn, TypeOK
  <2>8. preference' \in BOOLEAN
    BY <2>1, DataAssumption DEF Turn, TypeOK, PreferenceAfter, Utterance
  <2> QED
    BY <2>2, <2>3, <2>4, <2>5, <2>6, <2>7, <2>8 DEF TypeOK
<1>2. CASE Restart
    BY <1>2 DEF Restart, TypeOK
<1>3. CASE UNCHANGED vars
    BY <1>3 DEF vars, TypeOK
<1> QED
    BY <1>1, <1>2, <1>3 DEF Next

\* Every field of a session stays in its range and the clarification counter
\* never passes its cap (models.py, handle_turn).
THEOREM TypeCorrect == Spec => []TypeOK
    BY TypeInit, TypeStep, PTL DEF Spec

-----------------------------------------------------------------------------
\* The law of the counters.
CounterLaw == misunderstood = retries * (MaxClarifications + 1) + clarifications

\* What a turn leaves behind, for every property at once.
TransferInv ==
    /\ CounterLaw
    /\ retries >= MaxRetries => escalated
    /\ negatives >= MaxNegativeTurns => escalated
    /\ TransferAgrees
    /\ HandoffIsKept

LEMMA TransferInit == Init => TransferInv
<1> SUFFICES ASSUME Init
             PROVE  TransferInv
    OBVIOUS
<1>1. CounterLaw
    BY CountersAssumption DEF Init, CounterLaw
<1>2. ~(retries >= MaxRetries) /\ ~(negatives >= MaxNegativeTurns)
    BY CountersAssumption DEF Init
<1>3. TransferAgrees /\ HandoffIsKept
    BY DEF Init, TransferAgrees, HandoffIsKept, Greeting, AnnouncingTemplates
<1> QED
    BY <1>1, <1>2, <1>3 DEF TransferInv

LEMMA TransferStep == TypeOK /\ TransferInv /\ [Next]_vars => TransferInv'
<1> SUFFICES ASSUME TypeOK, TransferInv, [Next]_vars
             PROVE  TransferInv'
    OBVIOUS
<1>1. CASE \E u \in Utterances : Turn(u)
  <2>1. PICK u \in Utterances : Turn(u)
    BY <1>1
  <2>2. CounterLaw'
    <3>1. CASE GivesUp(u)
      <4>1. clarifications = MaxClarifications /\ ~ConfidentIn(u)
        BY <3>1, CountersAssumption DEF TypeOK, GivesUp, Asked
      <4>2. misunderstood' = misunderstood + 1 /\ retries' = retries + 1 /\ clarifications' = 0
        BY <2>1, <3>1, <4>1 DEF Turn, RetriesAfter, ClarificationsAfter
      <4>3. (retries + 1) * (MaxClarifications + 1) = retries * (MaxClarifications + 1) + MaxClarifications + 1
        BY CountersAssumption DEF TypeOK
      <4> QED
        BY <4>1, <4>2, <4>3 DEF CounterLaw, TransferInv
    <3>2. CASE ~GivesUp(u)
      <4>1. /\ misunderstood' = misunderstood + (IF ConfidentIn(u) THEN 0 ELSE 1)
            /\ retries' = retries
            /\ clarifications' = clarifications + (IF ConfidentIn(u) THEN 0 ELSE 1)
        BY <2>1, <3>2 DEF Turn, RetriesAfter, ClarificationsAfter, Asked
      <4>2. retries * (MaxClarifications + 1) \in Int
        BY CountersAssumption DEF TypeOK
      <4> QED
        BY <4>1, <4>2 DEF CounterLaw, TransferInv, TypeOK
    <3> QED
        BY <3>1, <3>2
  <2>3. (retries >= MaxRetries => escalated)' /\ (negatives >= MaxNegativeTurns => escalated)'
    BY <2>1 DEF Turn, Escalates, PolicyEscalation, ForceEscalation
  <2>4. TransferAgrees'
    BY <2>1, ReplyType DEF Turn, TransferAgrees, JourneyStateAfter, ReplyTo
  <2>5. HandoffIsKept'
    <3>1. response'.template = FinalTemplate(u) /\ escalated' = Escalates(u)
        BY <2>1 DEF Turn, ReplyTo
    <3>2. FinalTemplate(u) \in AnnouncingTemplates => Unsafe(u) \/ Draft(u) \in AnnouncingTemplates
        BY DEF FinalTemplate, AnnouncingTemplates
    <3>3. Draft(u) \in AnnouncingTemplates => ForceEscalation(u) \/ DecisionEscalates(u)
        BY PickedEligible DEF Draft, DecisionEscalates, DecisionTemplate, AnnouncingTemplates, Eligible
    <3> QED
        BY <3>1, <3>2, <3>3 DEF HandoffIsKept, Escalates
  <2> QED
    BY <2>2, <2>3, <2>4, <2>5 DEF TransferInv
<1>2. CASE Restart
    BY <1>2 DEF Restart, TransferInv, CounterLaw, TransferAgrees, HandoffIsKept
<1>3. CASE UNCHANGED vars
    BY <1>3 DEF vars, TransferInv, CounterLaw, TransferAgrees, HandoffIsKept
<1> QED
    BY <1>1, <1>2, <1>3 DEF Next

\* Enough misunderstood turns mean that the retries are used up.
LEMMA PatienceFromLaw ==
    ASSUME TypeOK, TransferInv
    PROVE  PatienceRunsOut
<1>1. SUFFICES ASSUME misunderstood >= MaxRetries * (MaxClarifications + 1)
               PROVE  retries >= MaxRetries
    BY DEF TransferInv, PatienceRunsOut
<1>2. SUFFICES ASSUME retries + 1 <= MaxRetries
               PROVE  FALSE
    BY CountersAssumption DEF TypeOK
<1> DEFINE n == MaxClarifications + 1
<1>3. n \in Nat /\ clarifications < n /\ MaxRetries - retries - 1 \in Nat
    BY <1>2, CountersAssumption DEF TypeOK
<1>4. MaxRetries * n = (retries + 1) * n + (MaxRetries - retries - 1) * n
    BY <1>3, CountersAssumption DEF TypeOK
<1>5. (MaxRetries - retries - 1) * n >= 0 /\ (retries + 1) * n = retries * n + n
    BY <1>3 DEF TypeOK
<1>6. misunderstood = retries * n + clarifications
    BY DEF TransferInv, CounterLaw
<1> QED
    BY <1>1, <1>3, <1>4, <1>5, <1>6 DEF TypeOK

\* The deterministic transfer policy, for all limits and all utterances.
THEOREM TransferPolicy == Spec => []PatienceRunsOut
<1>1. Spec => [](TypeOK /\ TransferInv)
    BY TypeInit, TypeStep, TransferInit, TransferStep, PTL DEF Spec
<1>2. TypeOK /\ TransferInv => PatienceRunsOut
    BY PatienceFromLaw
<1> QED
    BY <1>1, <1>2, PTL

\* Journey, session flag and answer agree on the transfer.
THEOREM TransferConsistent == Spec => []TransferAgrees
<1>1. Spec => [](TypeOK /\ TransferInv)
    BY TypeInit, TypeStep, TransferInit, TransferStep, PTL DEF Spec
<1>2. TransferInv => TransferAgrees
    BY DEF TransferInv
<1> QED
    BY <1>1, <1>2, PTL

\* No reply promises a human being who is not called.
THEOREM HandoffsAreMade == Spec => []HandoffIsKept
<1>1. Spec => [](TypeOK /\ TransferInv)
    BY TypeInit, TypeStep, TransferInit, TransferStep, PTL DEF Spec
<1>2. TransferInv => HandoffIsKept
    BY DEF TransferInv
<1> QED
    BY <1>1, <1>2, PTL

\* After the last retry every turn is a transfer.
THEOREM TransferSticks == Spec => StickyTransfer
<1>1. ASSUME TypeOK, [Next]_vars
      PROVE  [retries >= MaxRetries => turns' = turns \/ journeyState' = "transfer"]_vars
  <2> SUFFICES ASSUME retries >= MaxRetries, NEW u \in Utterances, Turn(u)
               PROVE  journeyState' = "transfer"
    BY <1>1 DEF Next, Restart, vars
  <2>1. RetriesAfter(u) >= MaxRetries
    BY <1>1, CountersAssumption DEF TypeOK, RetriesAfter
  <2> QED
    BY <2>1, ReplyType DEF Turn, JourneyStateAfter, Escalates, PolicyEscalation
<1> QED
    BY <1>1, TypeCorrect, PTL DEF Spec, StickyTransfer

-----------------------------------------------------------------------------
\* A property of the last answer that every turn establishes is invariant.
LEMMA FromEveryTurn ==
    ASSUME TypeOK, [Next]_vars, response' # response
    PROVE  \E u \in Utterances : Turn(u)
BY DEF Next, Restart, vars

\* An order is only offered for a product of the session's campaign, whatever
\* the campaigns allow.
THEOREM OrdersEligible == Spec => []OrderIsEligible
<1>1. Init => OrderIsEligible
    BY DEF Init, OrderIsEligible, Greeting
<1>2. ASSUME TypeOK, OrderIsEligible, [Next]_vars
      PROVE  OrderIsEligible'
  <2>1. CASE response' = response
    BY <1>2, <2>1 DEF OrderIsEligible
  <2>2. CASE response' # response
    <3>1. PICK u \in Utterances : Turn(u)
        BY <1>2, <2>2, FromEveryTurn
    <3>2. response' = ReplyTo(u)
        BY <3>1 DEF Turn
    <3>3. FinalTemplate(u) = "order_offer" => Picked(u) = "order_offer"
        BY DEF FinalTemplate, Draft, DecisionTemplate
    <3>4. Picked(u) = "order_offer" => u.product \in Allowed[CampaignAfter(u)]
        BY PickedEligible DEF Eligible
    <3> QED
        BY <3>2, <3>3, <3>4 DEF OrderIsEligible, ReplyTo, OfferTemplates
  <2> QED
    BY <2>1, <2>2
<1> QED
    BY <1>1, <1>2, TypeCorrect, PTL DEF Spec

\* When the journey waits for the account, the last reply asked for it.
THEOREM AccountAsked == Spec => []VerifyAccountIsAsked
<1>1. Init => VerifyAccountIsAsked
    BY DEF Init, VerifyAccountIsAsked
<1>2. ASSUME TypeOK, VerifyAccountIsAsked, [Next]_vars
      PROVE  VerifyAccountIsAsked'
  <2>1. CASE \E u \in Utterances : Turn(u)
    <3>1. PICK u \in Utterances : Turn(u)
        BY <2>1
    <3>2. SUFFICES ASSUME journeyState' = "verify_account", response'.template # "verified_details"
                   PROVE  response'.asksAccount
        BY DEF VerifyAccountIsAsked
    <3>3. ~Escalates(u) /\ ConfidentIn(u) /\ ~account /\ JourneyFor(u.intent) \in {"refund", "complaint"}
        BY <1>2, <3>1, <3>2, ReplyType DEF Turn, JourneyStateAfter
    <3>4. u.intent \in {"support", "refund"}
      <4>1. u.intent # "escalation"
        BY <3>3 DEF Escalates, DecisionEscalates, DecisionTemplate
      <4>2. u.intent \in {"support", "refund", "escalation"}
        BY <3>3 DEF JourneyFor
      <4> QED
        BY <4>1, <4>2
    <3>5. TopAction(u) = "verify_account"
        BY <3>3, <3>4 DEF TopAction
    <3>6. ~Replaced(u)
        BY <3>1, <3>2, <3>3 DEF Turn, ReplyTo, Replaced, FinalTemplate, Escalates
    <3> QED
        BY <3>1, <3>5, <3>6 DEF Turn, ReplyTo
  <2>2. CASE UNCHANGED <<journeyState, response>>
    BY <1>2, <2>2 DEF VerifyAccountIsAsked
  <2> QED
    BY <1>2, <2>1, <2>2 DEF Next, Restart, vars
<1> QED
    BY <1>1, <1>2, TypeCorrect, PTL DEF Spec

\* Thresholds that the reflection loop's fixed 0.45 covers.
Calibrated == \A i \in Intents : BaseThreshold[i] <= 45

\* No adjustment raises a covered threshold above 0.45.
LEMMA ThresholdCovered ==
    ASSUME Calibrated, NEW i \in Intents, NEW l \in Languages
    PROVE  Threshold(i, l) \in Int /\ Threshold(i, l) <= 45
<1>1. BaseThreshold[i] \in Int /\ BaseThreshold[i] <= 45
    BY BaseThresholdAssumption DEF Calibrated
<1>2. Adjustment[l] \in Int /\ Adjustment[l] <= 0 /\ Floor[l] \in Int /\ Floor[l] <= 45
    BY DEF Languages, Adjustment, Floor
<1> QED
    BY <1>1, <1>2 DEF Threshold, Larger, Smaller

\* As long as no calibrated threshold passes 0.45, a turn that was not
\* understood is answered with a question.
THEOREM UnsureAsked == ASSUME Calibrated PROVE Spec => []UnsureReplyAsks
<1>1. Init => UnsureReplyAsks
    BY DEF Init, UnsureReplyAsks, Greeting
<1>2. ASSUME TypeOK, UnsureReplyAsks, [Next]_vars
      PROVE  UnsureReplyAsks'
  <2>1. CASE response' = response
    BY <1>2, <2>1 DEF UnsureReplyAsks
  <2>2. CASE response' # response
    <3>1. PICK u \in Utterances : Turn(u)
        BY <1>2, <2>2, FromEveryTurn
    <3>2. response' = ReplyTo(u)
        BY <3>1 DEF Turn
    <3>3. SUFFICES ASSUME ~ConfidentIn(u), FinalTemplate(u) \notin {"safety_transfer", "verified_details"}
                   PROVE  ReplyTo(u).asksQuestion
        BY <3>2 DEF UnsureReplyAsks, ReplyTo
    <3>4. u.confidence < 45
      <4>1. u.confidence \in Int /\ u.intent \in Intents /\ u.language \in Languages
        BY DataAssumption DEF Utterance
      <4> QED
        BY <3>3, <4>1, ThresholdCovered DEF ConfidentIn, Understood
    <3>5. ~Replaced(u)
        BY <3>3 DEF Replaced, FinalTemplate
    <3> QED
        BY <3>4, <3>5 DEF ReplyTo, Uncertain
  <2> QED
    BY <2>1, <2>2
<1> QED
    BY <1>1, <1>2, TypeCorrect, PTL DEF Spec
=============================================================================
