--------------------------- MODULE NluThresholds ---------------------------
(***************************************************************************)
(* When the NLU engine takes an intent as understood: the confidence it    *)
(* reports is compared with the threshold calibrated for that intent,      *)
(* lowered for the language of the utterance but never below the           *)
(* language's floor (src/callcentre_bot/nlu.py).  Confidences and          *)
(* thresholds are hundredths.                                              *)
(***************************************************************************)
EXTENDS Integers

CONSTANT BaseThreshold  \* [Intents -> 0..100], what calibration chose

\* The labels the intent classifier is trained on.
Intents == {"sales", "faq", "support", "escalation", "refund", "upsell", "unknown"}

\* What detect_language answers.
Languages == {"en", "hinglish", "hi", "mr"}

ASSUME BaseThresholdAssumption == BaseThreshold \in [Intents -> 0..100]

Adjustment == [en |-> 0, hinglish |-> -5, hi |-> -7, mr |-> -10]

Floor == [en |-> 35, hinglish |-> 33, hi |-> 32, mr |-> 30]

Larger(a, b) == IF a >= b THEN a ELSE b

Smaller(a, b) == IF a <= b THEN a ELSE b

\* The adjusted threshold, capped at 0.95 and then raised to the floor.
Threshold(intent, language) ==
    Larger(Floor[language], Smaller(95, BaseThreshold[intent] + Adjustment[language]))

Understood(intent, language, confidence) == confidence >= Threshold(intent, language)
=============================================================================
