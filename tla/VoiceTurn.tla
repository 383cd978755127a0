----------------------------- MODULE VoiceTurn -----------------------------
(***************************************************************************)
(* The voice pipeline (voice.py, handle_voice_turn of assistant.py): what  *)
(* a request for a voice turn goes through in its thread.  The engines are *)
(* chosen once, when the service is built.  The local ones are programs    *)
(* that may fail or disappear later; a failing program gives the           *)
(* recogniser an empty transcript, a missing one an exception, and         *)
(* whatever goes wrong with the synthesizer is caught.  Audio is           *)
(* represented by what the stages make of it.                              *)
(***************************************************************************)
CONSTANTS
    Clients   \* request threads

VARIABLES
    engines,     \* [asr, tts], each "local" or "offline"
    phase,       \* per thread: the stage it is in, or "none"
    reason,      \* per thread: fallback_reason, "" without a fallback
    missed       \* history, per thread: the stages that did not deliver

perTurn == <<phase, reason, missed>>
voiceVars == <<engines, perTurn>>

Modes == {"auto", "production", "fallback"}   \* settings.voice_engine_mode

\* build_asr_adapter and build_tts_adapter: the engine that comes out, or
\* "raises", which ends the start of the service.
Built(mode, fallbackEnabled, there) ==
    CASE mode \in {"auto", "production"} /\ there -> "local"
      [] mode \in {"auto", "production"} /\ ~there /\ ~fallbackEnabled -> "raises"
      [] OTHER -> "offline"

\* The services that come up, whatever is configured and installed.
Deployments ==
    {e \in {[asr |-> Built(mode, enabled, whisper), tts |-> Built(mode, enabled, piper)] :
                mode \in Modes, enabled \in BOOLEAN, whisper \in BOOLEAN, piper \in BOOLEAN} :
        "raises" \notin {e.asr, e.tts}}

VoiceInit ==
    /\ engines \in Deployments
    /\ phase = [c \in Clients |-> "none"]
    /\ reason = [c \in Clients |-> ""]
    /\ missed = [c \in Clients |-> {}]

\* A thread enters the pipeline with its audio ...
Enter(c) == phase' = [phase EXCEPT ![c] = "listen"] /\ UNCHANGED <<engines, reason, missed>>

\* ... and leaves it with an answer or an exception.
Drop(c) ==
    /\ phase' = [phase EXCEPT ![c] = "none"]
    /\ reason' = [reason EXCEPT ![c] = ""]
    /\ missed' = [missed EXCEPT ![c] = {}]
    /\ UNCHANGED engines

Advance(c, from, to) == phase[c] = from /\ phase' = [phase EXCEPT ![c] = to]

\* A stage does not deliver; its reason is the answer's if it is the first.
Miss(c, why) ==
    /\ missed' = [missed EXCEPT ![c] = missed[c] \cup {phase[c]}]
    /\ reason' = [reason EXCEPT ![c] = why]

\* The voice activity detector hears speech, or no speech.
Listen(c) ==
    \/ Advance(c, "listen", "transcribe") /\ UNCHANGED <<engines, reason, missed>>
    \/ /\ Advance(c, "listen", "speak")
       /\ Miss(c, "no_speech_detected")
       /\ UNCHANGED engines

\* The recogniser finds words, or none.
Transcribe(c) ==
    \/ Advance(c, "transcribe", "turn") /\ UNCHANGED <<engines, reason, missed>>
    \/ /\ Advance(c, "transcribe", "speak")
       /\ Miss(c, "asr_unintelligible")
       /\ UNCHANGED engines

\* handle_turn returns a reply.
TakeTurn(c) == Advance(c, "turn", "speak") /\ UNCHANGED <<engines, reason, missed>>

\* Mutant: the last failure names the reason.
OverridingSpeak(c) ==
    \/ Advance(c, "speak", "answer") /\ UNCHANGED <<engines, reason, missed>>
    \/ /\ Advance(c, "speak", "answer")
       /\ engines.tts = "local"
       /\ Miss(c, "tts_failure")
       /\ UNCHANGED engines

\* The reply, or the request to repeat, is spoken; the local synthesizer may
\* fail, and the answer goes out without audio.
Speak(c) ==
    \/ Advance(c, "speak", "answer") /\ UNCHANGED <<engines, reason, missed>>
    \/ /\ Advance(c, "speak", "answer")
       /\ engines.tts = "local"
       /\ Miss(c, IF reason[c] = "" THEN "tts_failure" ELSE reason[c])
       /\ UNCHANGED engines

Pipeline(c) == Listen(c) \/ Transcribe(c) \/ TakeTurn(c) \/ Speak(c)

\* Where an exception may leave the pipeline: base64 text that is none, the
\* local recogniser, the turn.
MayRaise(c) ==
    \/ phase[c] \in {"listen", "turn"}
    \/ phase[c] = "transcribe" /\ engines.asr = "local"

-----------------------------------------------------------------------------
\* Every field in its range.
VoiceTypeOK ==
    /\ engines \in Deployments
    /\ phase \in [Clients -> {"none", "listen", "transcribe", "turn", "speak", "answer"}]
    /\ reason \in [Clients -> {"", "no_speech_detected", "asr_unintelligible", "tts_failure"}]
    /\ missed \in [Clients -> SUBSET {"listen", "transcribe", "speak"}]

\* The first stage that did not deliver is the one the answer names, also when
\* a later one fails on top of it; and a fallback is reported for no other
\* cause.
FirstFailureNamed ==
    \A c \in Clients :
        reason[c] = CASE "listen" \in missed[c] -> "no_speech_detected"
                      [] "transcribe" \in missed[c] -> "asr_unintelligible"
                      [] missed[c] = {"speak"} -> "tts_failure"
                      [] missed[c] = {} -> ""
=============================================================================
