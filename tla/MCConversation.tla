--------------------------- MODULE MCConversation ---------------------------
(***************************************************************************)
(* A small instance of Conversation: two products, one of them not allowed *)
(* in the retention campaign, the calibrated thresholds, and utterances    *)
(* that take every branch of a turn.                                       *)
(***************************************************************************)
EXTENDS Conversation

MCProducts == {"broadband", "security"}

MCCampaigns == {"default", "retention"}

MCAllowed == [default |-> MCProducts, retention |-> {"broadband"}]

\* What calibration chooses on the validation set kept in the repository.
MCBaseThreshold == [i \in Intents |-> IF i = "sales" THEN 40 ELSE 35]

Plain(intent, sentiment, confidence) ==
    [intent |-> intent, sentiment |-> sentiment, confidence |-> confidence, language |-> "en",
     faqMatch |-> FALSE, product |-> NoProduct, objection |-> FALSE, preference |-> FALSE,
     retention |-> FALSE]

\* Below every threshold, below the English sales threshold only, below and
\* above the confidence threshold.
MCConfidences == {25, 38, 50, 80}

SalesTalk ==
    {[Plain("sales", s, c) EXCEPT !.product = p, !.objection = o, !.preference = q] :
        s \in {"neutral", "negative"}, c \in {38, 80}, p \in MCProducts,
        o \in BOOLEAN, q \in BOOLEAN}

MCUtterances ==
    {Plain(i, s, c) : i \in Intents, s \in {"neutral", "negative"}, c \in MCConfidences}
    \cup SalesTalk
    \cup {[Plain("sales", "positive", 38) EXCEPT !.language = l] : l \in Languages}
    \cup {[Plain("faq", "neutral", c) EXCEPT !.faqMatch = TRUE] : c \in {25, 80}}
    \cup {[Plain("unknown", "neutral", 50) EXCEPT !.retention = TRUE]}
    \cup {[Plain("sales", "neutral", 80) EXCEPT !.retention = TRUE, !.product = p] : p \in MCProducts}
=============================================================================
