----------------------------- MODULE SipProofs -----------------------------
(***************************************************************************)
(* The invariants of SipCalls, for any number of call ids, call objects,   *)
(* threads and requests.  Each property gets the facts it needs as an      *)
(* inductive invariant of its own; all of them rest on the types.          *)
(***************************************************************************)
EXTENDS SipCalls, FiniteSetTheorems, TLAPS

\* The steps of one thread.
ThreadStep(c) ==
    \/ \E i \in CallIds, o \in Calls : Start(c, i, o)
    \/ \E i \in CallIds, op \in Operations : Lookup(c, i, op)
    \/ StartStep(c) \/ MediaStep(c) \/ ControlStep(c)

LEMMA StepOfAThread == Next => Restart \/ \E c \in Clients : ThreadStep(c)
BY DEF Next, ThreadStep

-----------------------------------------------------------------------------
(***************************************************************************)
(* Types.                                                                  *)
(***************************************************************************)

LEMMA TypeInit == Init => TypeOK
<1> SUFFICES ASSUME Init
             PROVE  TypeOK
    OBVIOUS
<1>1. VoiceTypeOK
    BY DEF Init, VoiceInit, VoiceTypeOK
<1>2. target \in [Clients -> CallIds]
    BY CallsAssumption DEF Init
<1>3. /\ registry \in [CallIds -> Calls \cup {NoCall}]
      /\ status \in [Calls -> {"active", "on_hold", "transferred"}]
      /\ hold \in [Calls -> BOOLEAN]
      /\ retries \in [Calls -> Nat] /\ failed \in [Calls -> Nat]
      /\ gateway \in [Calls -> {"primary", "secondary"}]
      /\ row \in [Calls -> {"none", "bare", "context"}]
    BY DEF Init
<1>4. /\ object \in [Clients -> Calls \cup {NoCall}]
      /\ paused \in [Clients -> BOOLEAN]
      /\ requested \in 0..MaxRequests
    BY CallsAssumption DEF Init
<1>5. pc = [c \in Clients |-> "idle"] /\ object = [c \in Clients |-> NoCall]
      /\ phase = [c \in Clients |-> "none"]
    BY DEF Init, VoiceInit
<1> QED
    BY <1>1, <1>2, <1>3, <1>4, <1>5 DEF TypeOK

\* The pipeline's own variables, in each of the ways a step treats them.
LEMMA VoiceStages ==
    ASSUME VoiceTypeOK, NEW c \in Clients, Enter(c) \/ Pipeline(c) \/ Drop(c)
    PROVE  VoiceTypeOK'
<1> USE DEF VoiceTypeOK
<1>1. CASE Enter(c)
    BY <1>1 DEF Enter
<1>2. CASE Drop(c)
    BY <1>2 DEF Drop
<1>3. ASSUME NEW from, NEW to \in {"transcribe", "turn", "speak", "answer"}, Advance(c, from, to),
             UNCHANGED <<engines, reason, missed>>
      PROVE  VoiceTypeOK'
    BY <1>3 DEF Advance
<1>4. ASSUME NEW from \in {"listen", "transcribe", "speak"}, NEW to \in {"speak", "answer"},
             Advance(c, from, to),
             NEW why \in {"no_speech_detected", "asr_unintelligible", "tts_failure"},
             Miss(c, why), UNCHANGED engines
      PROVE  VoiceTypeOK'
    BY <1>4 DEF Advance, Miss
<1>5. CASE Listen(c)
    BY <1>3, <1>4, <1>5 DEF Listen
<1>6. CASE Transcribe(c)
    BY <1>3, <1>4, <1>6 DEF Transcribe
<1>7. CASE TakeTurn(c)
    BY <1>3, <1>7 DEF TakeTurn
<1>8. CASE Speak(c)
  <2>1. CASE reason[c] = ""
      BY <1>3, <1>4, <1>8, <2>1 DEF Speak
  <2>2. CASE reason[c] # ""
      BY <1>3, <1>4, <1>8, <2>2 DEF Speak
  <2> QED
      BY <2>1, <2>2
<1> QED
    BY <1>1, <1>2, <1>5, <1>6, <1>7, <1>8 DEF Pipeline

\* Every step either leaves the pipeline alone, is a stage of it, or drops it.
LEMMA VoiceStep == TypeOK /\ [Next]_vars => VoiceTypeOK'
<1> SUFFICES ASSUME TypeOK, [Next]_vars
             PROVE  VoiceTypeOK'
    OBVIOUS
<1>1. CASE UNCHANGED voiceVars
    BY <1>1 DEF TypeOK, VoiceTypeOK, voiceVars, perTurn
<1>2. CASE Restart
    BY <1>2 DEF TypeOK, VoiceTypeOK, Restart
<1>3. ASSUME NEW c \in Clients, Enter(c) \/ Pipeline(c) \/ Drop(c)
      PROVE  VoiceTypeOK'
    BY <1>3, VoiceStages DEF TypeOK
<1>4. ASSUME NEW c \in Clients, MediaStep(c)
      PROVE  VoiceTypeOK'
    BY <1>1, <1>3, <1>4
    DEF MediaStep, CheckHold, Bridge, Turn, TurnFails, Plain, mediaVars
<1>5. ASSUME NEW c \in Clients, ThreadStep(c), ~MediaStep(c)
      PROVE  VoiceTypeOK'
    BY <1>1, <1>5 DEF ThreadStep, Start, Lookup, StartStep, ControlStep, Plain, Resume, mediaVars
<1> QED
    BY <1>1, <1>2, <1>4, <1>5, StepOfAThread DEF vars, mediaVars

\* A thread that ends its request, and one that goes on with it.
LEMMA TypeStep == TypeOK /\ [Next]_vars => TypeOK'
<1> SUFFICES ASSUME TypeOK, [Next]_vars, VoiceTypeOK'
             PROVE  TypeOK'
    BY VoiceStep
<1> DEFINE Stages == {"none", "listen", "transcribe", "turn", "speak", "answer"}
<1>0. phase \in [Clients -> Stages]
    BY DEF TypeOK, VoiceTypeOK
<1> HIDE DEF Stages
<1> USE CallsAssumption DEF TypeOK, callVars, threadVars
<1>1. CASE UNCHANGED vars
    BY <1>1 DEF vars, mediaVars, voiceVars, perTurn
<1>2. CASE Restart
    BY <1>2 DEF Restart
<1>3. ASSUME NEW c \in Clients, ThreadStep(c)
      PROVE  TypeOK'
  <2> USE DEF GoTo, Leave
  <2>1. ASSUME NEW i \in CallIds, NEW o \in Calls, Start(c, i, o)
        PROVE  TypeOK'
      BY <2>1 DEF Start, Accepts, mediaVars, voiceVars, perTurn
  <2>2. ASSUME NEW i \in CallIds, NEW op \in Operations, Lookup(c, i, op)
        PROVE  TypeOK'
    <3>1. CASE registry[i] = NoCall
        BY <2>2, <3>1 DEF Lookup, Accepts, voiceVars, perTurn, Operations
    <3>2. CASE registry[i] # NoCall
        BY <2>2, <3>2 DEF Lookup, Accepts, voiceVars, perTurn, Operations
    <3> QED
        BY <3>1, <3>2
  <2>3. CASE Plain(Create(c))
      BY <2>3 DEF Plain, Create, mediaVars, voiceVars, perTurn
  <2>4. CASE Plain(ApplyContext(c))
      BY <2>4 DEF Plain, ApplyContext, mediaVars, voiceVars, perTurn
  <2>5. CASE Plain(StoreFails(c))
      BY <2>5 DEF Plain, StoreFails, mediaVars, voiceVars, perTurn
  <2>6. CASE Plain(Register(c))
      BY <2>6 DEF Plain, Register, mediaVars, voiceVars, perTurn
  <2>7. CASE CheckHold(c)
    <3>1. UNCHANGED <<registry, callVars, row, target, requested, failed>> /\ pc[c] = "media"
        BY <2>7 DEF CheckHold
    <3>2. CASE Leave(c) /\ paused' = [paused EXCEPT ![c] = FALSE] /\ UNCHANGED voiceVars
        BY <3>1, <3>2 DEF voiceVars, perTurn
    <3>3. CASE GoTo(c, "bridge") /\ phase' = [phase EXCEPT ![c] = "listen"]
               /\ UNCHANGED <<object, paused>>
        BY <3>1, <3>3, <1>0
    <3> QED
        BY <2>7, <3>2, <3>3 DEF CheckHold, Enter
  <2>8. CASE Bridge(c)
    <3>1. \A d \in Clients : phase'[d] # "none" <=> phase[d] # "none"
      <4>1. ASSUME NEW from \in {"listen", "transcribe", "turn", "speak"},
                   NEW to \in {"transcribe", "turn", "speak", "answer"}, Advance(c, from, to)
            PROVE  \A d \in Clients : phase'[d] # "none" <=> phase[d] # "none"
          BY <4>1, <1>0 DEF Advance
      <4> QED
          BY <2>8, <4>1 DEF Bridge, Pipeline, Listen, Transcribe, TakeTurn, Speak
    <3> QED
        BY <2>8, <3>1 DEF Bridge
  <2>9. CASE Turn(c)
    <3>1. phase' = [phase EXCEPT ![c] = "none"]
        BY <2>9 DEF Turn, Drop
    <3> QED
        BY <2>9, <3>1, <1>0 DEF Turn
  <2>10. CASE TurnFails(c)
    <3>1. phase' = [phase EXCEPT ![c] = "none"] /\ phase[c] # "none"
        BY <2>10 DEF TurnFails, Drop, MayRaise
    <3> QED
        BY <2>10, <3>1, <1>0 DEF TurnFails
  <2>11. CASE Plain(Record(c))
      BY <2>11 DEF Plain, Record, mediaVars, voiceVars, perTurn
  <2>12. CASE Plain(Judge(c))
      BY <2>12 DEF Plain, Judge, mediaVars, voiceVars, perTurn
  <2>13. CASE Plain(Hold(c))
      BY <2>13 DEF Plain, Hold, mediaVars, voiceVars, perTurn
  <2>14. CASE Plain(Transfer(c))
      BY <2>14 DEF Plain, Transfer, mediaVars, voiceVars, perTurn
  <2>15. CASE Resume(c)
      BY <2>15 DEF Resume, Unpause, voiceVars, perTurn
  <2> QED
      BY <1>3, <2>1, <2>2, <2>3, <2>4, <2>5, <2>6, <2>7, <2>8, <2>9, <2>10, <2>11, <2>12, <2>13,
         <2>14, <2>15
      DEF ThreadStep, StartStep, MediaStep, ControlStep, Plain
<1> QED
    BY <1>1, <1>2, <1>3, StepOfAThread

\* Every field stays in its range; only a thread at work holds a call object,
\* and it is in the voice pipeline exactly while it bridges media.
THEOREM SipTypeCorrect == Spec => []TypeOK
BY TypeInit, TypeStep, PTL DEF Spec

-----------------------------------------------------------------------------
(***************************************************************************)
(* Hold: what is shown, and what is obeyed.                                *)
(***************************************************************************)

\* A media request that saw its call on hold finds it on hold at the test.
HoldSeen == \A c \in Clients : pc[c] = "media" /\ paused[c] => hold[object[c]]

HoldInv == HoldIsShown /\ HoldIsObeyed /\ HoldSeen

LEMMA HoldInit == Init => HoldInv
BY DEF Init, HoldInv, HoldIsShown, HoldIsObeyed, HoldSeen

LEMMA HoldStep == TypeOK /\ HoldInv /\ [Next]_vars => HoldInv'
<1> SUFFICES ASSUME TypeOK, HoldInv, [Next]_vars
             PROVE  HoldInv'
    OBVIOUS
<1> USE DEF HoldInv, HoldIsShown, HoldIsObeyed, HoldSeen
<1>0. /\ hold \in [Calls -> BOOLEAN] /\ status \in [Calls -> {"active", "on_hold", "transferred"}]
      /\ DOMAIN pc = Clients /\ DOMAIN object = Clients
      /\ paused \in [Clients -> BOOLEAN]
      /\ \A c \in Clients : object[c] # NoCall => object[c] \in Calls
      /\ \A c \in Clients : pc[c] # "idle" => object[c] \in Calls
    BY DEF TypeOK
<1>1. CASE UNCHANGED <<status, hold, pc, object, paused>>
    BY <1>1
<1>2. CASE Restart
    BY <1>2 DEF Restart
<1>3. ASSUME NEW c \in Clients, ThreadStep(c)
      PROVE  HoldInv'
  <2> USE DEF GoTo, Leave
  <2>1. ASSUME NEW i \in CallIds, NEW op \in Operations, Lookup(c, i, op)
        PROVE  HoldInv'
      BY <2>1, <1>0 DEF Lookup, Accepts, callVars, Operations
  <2>2. ASSUME UNCHANGED <<status, hold, paused>>, pc' = [pc EXCEPT ![c] = pc'[c]],
               pc'[c] \notin {"media", "bridge"}, \A d \in Clients : d = c \/ object'[d] = object[d]
        PROVE  HoldInv'
      BY <2>2, <1>0
  <2>3. CASE \/ \E i \in CallIds, o \in Calls : Start(c, i, o)
             \/ StartStep(c) \/ Plain(Record(c) \/ Judge(c))
      BY <2>2, <2>3, <1>0
      DEF Start, StartStep, Plain, Create, ApplyContext, StoreFails, Register, Record, Judge,
          callVars, mediaVars
  <2>4. CASE CheckHold(c)
    <3>1. CASE hold[object[c]]
        BY <2>4, <3>1, <1>0 DEF CheckHold, callVars
    <3>2. CASE ~hold[object[c]]
        BY <2>4, <3>2, <1>0 DEF CheckHold, callVars
    <3> QED
        BY <3>1, <3>2
  <2>5. CASE Bridge(c)
      BY <2>5 DEF Bridge, callVars, threadVars
  <2>6. CASE Turn(c) \/ TurnFails(c)
      BY <2>6, <1>0 DEF Turn, TurnFails, callVars
  <2>7. CASE Plain(Hold(c))
      BY <2>7, <1>0 DEF Plain, Hold, mediaVars
  <2>8. CASE Plain(Transfer(c))
      BY <2>8, <1>0 DEF Plain, Transfer, mediaVars
  <2>9. CASE Resume(c)
      BY <2>9, <1>0 DEF Resume, Unpause
  <2> QED
      BY <1>3, <2>1, <2>3, <2>4, <2>5, <2>6, <2>7, <2>8, <2>9
      DEF ThreadStep, MediaStep, ControlStep, Plain
<1> QED
    BY <1>1, <1>2, <1>3, StepOfAThread DEF vars, callVars, threadVars, mediaVars

\* The status a caller sees and the flag process_media tests agree, however
\* hold, resume and transfer interleave.
THEOREM HoldShown == Spec => []HoldIsShown
<1>1. HoldInv => HoldIsShown
    BY DEF HoldInv
<1> QED
    BY TypeInit, TypeStep, HoldInit, HoldStep, <1>1, PTL DEF Spec

\* Media that arrived on hold is not processed before a resume.
THEOREM HoldObeyed == Spec => []HoldIsObeyed
<1>1. HoldInv => HoldIsObeyed
    BY DEF HoldInv
<1> QED
    BY TypeInit, TypeStep, HoldInit, HoldStep, <1>1, PTL DEF Spec

-----------------------------------------------------------------------------
(***************************************************************************)
(* Failures: counted, and answered by a failover.                          *)
(***************************************************************************)

\* The threads that have seen a failure of call o and not counted it yet.
Recording(o) == {c \in Clients : pc[c] = "record" /\ object[c] = o}

FailureInv == FailoverAtTwo /\ FailuresCounted

LEMMA FailureInit == Init => FailureInv
<1> SUFFICES ASSUME Init
             PROVE  FailureInv
    OBVIOUS
<1>1. ASSUME NEW o \in Calls
      PROVE  Recording(o) = {}
    BY DEF Init, Recording
<1>2. FailuresCounted
    BY <1>1, FS_EmptySet DEF Init, FailuresCounted, Recording
<1>3. FailoverAtTwo
    BY DEF Init, FailoverAtTwo
<1> QED
    BY <1>2, <1>3 DEF FailureInv

\* A step that leaves the counts and everybody who records or judges as they
\* were.
LEMMA FailuresApart ==
    ASSUME TypeOK, FailureInv, NEW c \in Clients, UNCHANGED <<retries, gateway, failed>>,
           pc[c] \notin {"record", "judge"}, pc'[c] \notin {"record", "judge"},
           \A d \in Clients \ {c} : pc'[d] = pc[d] /\ object'[d] = object[d]
    PROVE  FailureInv'
<1>1. \A o \in Calls : Recording(o)' = Recording(o)
    BY DEF Recording
<1>2. FailuresCounted'
    BY <1>1 DEF FailureInv, FailuresCounted, Recording
<1>3. FailoverAtTwo'
    BY DEF FailureInv, FailoverAtTwo
<1> QED
    BY <1>2, <1>3 DEF FailureInv

LEMMA FailureStep == TypeOK /\ FailureInv /\ [Next]_vars => FailureInv'
<1> SUFFICES ASSUME TypeOK, FailureInv, [Next]_vars
             PROVE  FailureInv'
    OBVIOUS
<1>0. /\ retries \in [Calls -> Nat] /\ failed \in [Calls -> Nat]
      /\ gateway \in [Calls -> {"primary", "secondary"}]
      /\ DOMAIN pc = Clients /\ DOMAIN object = Clients
      /\ \A d \in Clients : pc[d] # "idle" => object[d] \in Calls
    BY DEF TypeOK
<1>1. CASE UNCHANGED <<retries, gateway, failed, pc, object>>
    BY <1>1 DEF FailureInv, FailoverAtTwo, FailuresCounted
<1>2. CASE Restart
  <2>1. FailuresCounted'
    <3>1. ASSUME NEW o \in Calls
          PROVE  Recording(o)' = {}
        BY <1>2 DEF Restart, Recording
    <3> QED
      <4>1. \A o \in Calls : failed'[o] = 0 /\ retries'[o] = 0
          BY <1>2 DEF Restart
      <4> QED
          BY <3>1, <4>1, FS_EmptySet DEF FailuresCounted, Recording
  <2>2. FailoverAtTwo'
    <3>1. \A o \in Calls : gateway'[o] = "primary" /\ retries'[o] = 0
        BY <1>2 DEF Restart
    <3> QED
        BY <3>1 DEF FailoverAtTwo
  <2> QED
      BY <2>1, <2>2 DEF FailureInv
<1>3. ASSUME NEW c \in Clients, ThreadStep(c)
      PROVE  FailureInv'
  <2> USE DEF GoTo, Leave, callVars, threadVars
  <2>0. \A o \in Calls : IsFiniteSet(Recording(o)) /\ Cardinality(Recording(o)) \in Nat
    <3>1. \A o \in Calls : Recording(o) \subseteq Clients
        BY DEF Recording
    <3> QED
        BY <3>1, CallsAssumption, FS_Subset, FS_CardinalityType
  <2>1. CASE \/ \E i \in CallIds, o \in Calls : Start(c, i, o)
             \/ \E i \in CallIds, op \in Operations : Lookup(c, i, op)
             \/ StartStep(c) \/ ControlStep(c)
    <3>1. \A d \in Clients \ {c} : pc'[d] = pc[d] /\ object'[d] = object[d]
        BY <2>1, <1>0
        DEF Start, Lookup, Accepts, StartStep, ControlStep, Plain, Create, ApplyContext,
            StoreFails, Register, Hold, Transfer, Resume
    <3>2. pc[c] \notin {"record", "judge"} /\ pc'[c] \notin {"record", "judge"}
        BY <2>1, <1>0
        DEF Start, Lookup, Accepts, StartStep, ControlStep, Plain, Create, ApplyContext,
            StoreFails, Register, Hold, Transfer, Resume, Operations
    <3>3. UNCHANGED <<retries, gateway, failed>>
        BY <2>1
        DEF Start, Lookup, StartStep, ControlStep, Plain, Create, ApplyContext,
            StoreFails, Register, Hold, Transfer, Resume
    <3> QED
        BY <3>1, <3>2, <3>3, FailuresApart
  <2>2. CASE CheckHold(c) \/ Bridge(c) \/ Turn(c)
    <3>1. /\ \A d \in Clients \ {c} : pc'[d] = pc[d] /\ object'[d] = object[d]
          /\ pc[c] \notin {"record", "judge"} /\ pc'[c] \notin {"record", "judge"}
          /\ UNCHANGED <<retries, gateway, failed>>
        BY <2>2, <1>0 DEF CheckHold, Bridge, Turn
    <3> QED
        BY <3>1, FailuresApart
  <2>3. CASE TurnFails(c)
    <3>1. /\ object[c] \in Calls /\ failed' = [failed EXCEPT ![object[c]] = failed[object[c]] + 1]
          /\ pc' = [pc EXCEPT ![c] = "record"] /\ UNCHANGED <<retries, gateway, object>>
          /\ pc[c] = "bridge"
        BY <2>3, <1>0 DEF TurnFails
    <3>2. ASSUME NEW o \in Calls
          PROVE  failed'[o] = retries'[o] + Cardinality(Recording(o)')
      <4>1. CASE o = object[c]
        <5>1. Recording(o)' = Recording(o) \cup {c} /\ c \notin Recording(o)
            BY <3>1, <4>1, <1>0 DEF Recording
        <5>2. Cardinality(Recording(o)') = Cardinality(Recording(o)) + 1
            BY <5>1, <2>0, FS_AddElement
        <5>3. failed[o] = retries[o] + Cardinality(Recording(o))
            BY DEF FailureInv, FailuresCounted, Recording
        <5>4. failed'[o] = failed[o] + 1 /\ retries'[o] = retries[o]
            BY <4>1, <3>1, <1>0
        <5> QED
            BY <5>2, <5>3, <5>4, <2>0, <1>0
      <4>2. CASE o # object[c]
        <5>1. Recording(o)' = Recording(o)
            BY <3>1, <4>2, <1>0 DEF Recording
        <5> QED
            BY <5>1, <4>2, <3>1, <1>0 DEF FailureInv, FailuresCounted, Recording
      <4> QED
          BY <4>1, <4>2
    <3>3. FailoverAtTwo'
        BY <3>1, <1>0 DEF FailureInv, FailoverAtTwo
    <3> QED
        BY <3>2, <3>3 DEF FailureInv, FailuresCounted, Recording
  <2>4. CASE Plain(Record(c))
    <3>1. /\ object[c] \in Calls /\ retries' = [retries EXCEPT ![object[c]] = retries[object[c]] + 1]
          /\ pc' = [pc EXCEPT ![c] = "judge"] /\ UNCHANGED <<failed, gateway, object>>
          /\ pc[c] = "record"
        BY <2>4, <1>0 DEF Plain, Record
    <3>2. ASSUME NEW o \in Calls
          PROVE  failed'[o] = retries'[o] + Cardinality(Recording(o)')
      <4>1. CASE o = object[c]
        <5>1. Recording(o)' = Recording(o) \ {c} /\ c \in Recording(o)
            BY <3>1, <4>1, <1>0 DEF Recording
        <5>2. Cardinality(Recording(o)') = Cardinality(Recording(o)) - 1
            BY <5>1, <2>0, FS_RemoveElement
        <5>3. failed[o] = retries[o] + Cardinality(Recording(o))
            BY DEF FailureInv, FailuresCounted, Recording
        <5>4. failed'[o] = failed[o] /\ retries'[o] = retries[o] + 1
            BY <4>1, <3>1, <1>0
        <5> QED
            BY <5>2, <5>3, <5>4, <2>0, <1>0
      <4>2. CASE o # object[c]
        <5>1. Recording(o)' = Recording(o)
            BY <3>1, <4>2, <1>0 DEF Recording
        <5> QED
            BY <5>1, <4>2, <3>1, <1>0 DEF FailureInv, FailuresCounted, Recording
      <4> QED
          BY <4>1, <4>2
    <3>3. FailoverAtTwo'
      <4> SUFFICES ASSUME NEW o \in Calls
                   PROVE  /\ gateway'[o] = "secondary" => retries'[o] >= 2
                          /\ retries'[o] >= 2 /\ gateway'[o] = "primary" =>
                                \E d \in Clients : pc'[d] = "judge" /\ object'[d] = o
          BY DEF FailoverAtTwo
      <4>1. CASE o = object[c]
          BY <4>1, <3>1, <1>0 DEF FailureInv, FailoverAtTwo
      <4>2. CASE o # object[c]
          BY <4>2, <3>1, <1>0 DEF FailureInv, FailoverAtTwo
      <4> QED
          BY <4>1, <4>2
    <3> QED
        BY <3>2, <3>3 DEF FailureInv, FailuresCounted, Recording
  <2>5. CASE Plain(Judge(c))
    <3>1. /\ object[c] \in Calls
          /\ gateway' = [gateway EXCEPT ![object[c]] =
                            IF retries[object[c]] >= 2 THEN "secondary" ELSE gateway[object[c]]]
          /\ pc' = [pc EXCEPT ![c] = "idle"] /\ object' = [object EXCEPT ![c] = NoCall]
          /\ UNCHANGED <<failed, retries>> /\ pc[c] = "judge"
        BY <2>5, <1>0 DEF Plain, Judge
    <3>2. \A o \in Calls : Recording(o)' = Recording(o)
        BY <3>1, <1>0 DEF Recording
    <3>3. FailuresCounted'
        BY <3>1, <3>2 DEF FailureInv, FailuresCounted, Recording
    <3>4. FailoverAtTwo'
      <4> SUFFICES ASSUME NEW o \in Calls
                   PROVE  /\ gateway'[o] = "secondary" => retries'[o] >= 2
                          /\ retries'[o] >= 2 /\ gateway'[o] = "primary" =>
                                \E d \in Clients : pc'[d] = "judge" /\ object'[d] = o
          BY DEF FailoverAtTwo
      <4>1. CASE o = object[c]
          BY <4>1, <3>1, <1>0 DEF FailureInv, FailoverAtTwo
      <4>2. CASE o # object[c]
          BY <4>2, <3>1, <1>0 DEF FailureInv, FailoverAtTwo
      <4> QED
          BY <4>1, <4>2
    <3> QED
        BY <3>3, <3>4 DEF FailureInv
  <2> QED
      BY <1>3, <2>1, <2>2, <2>3, <2>4, <2>5 DEF ThreadStep, MediaStep, Plain
<1> QED
    BY <1>1, <1>2, <1>3, StepOfAThread DEF vars, callVars, threadVars

\* The second failure of a call switches its gateway, or is about to; nothing
\* else does.
THEOREM FailoverInTime == Spec => []FailoverAtTwo
<1>1. FailureInv => FailoverAtTwo
    BY DEF FailureInv
<1> QED
    BY TypeInit, TypeStep, FailureInit, FailureStep, <1>1, PTL DEF Spec

\* No failure of a call is lost or counted twice, however requests overlap.
THEOREM FailuresAreCounted == Spec => []FailuresCounted
<1>1. FailureInv => FailuresCounted
    BY DEF FailureInv
<1> QED
    BY TypeInit, TypeStep, FailureInit, FailureStep, <1>1, PTL DEF Spec

-----------------------------------------------------------------------------
(***************************************************************************)
(* The session of a call that can be found.                                *)
(***************************************************************************)

Starting(c) == pc[c] \in {"create", "context", "register"}

\* A call that is being started is known to its thread alone.
StartIsAlone ==
    \A c \in Clients : Starting(c) =>
        /\ object[c] \in Calls
        /\ \A d \in Clients \ {c} : object[d] # object[c]
        /\ \A i \in CallIds : registry[i] # object[c]

\* It is registered only when its context is in the database.
ContextFirst == \A c \in Clients : pc[c] = "register" => row[object[c]] = "context"

ContextInv == StartIsAlone /\ ContextFirst /\ FoundCallHasContext

LEMMA ContextInit == Init => ContextInv
BY DEF Init, ContextInv, StartIsAlone, ContextFirst, FoundCallHasContext, Starting

\* A step that starts nothing and takes no new call.
LEMMA StartsApart ==
    ASSUME TypeOK, ContextInv, NEW c \in Clients, UNCHANGED <<registry, row>>, ~Starting(c)',
           object'[c] \in {object[c], NoCall} \cup {registry[i] : i \in CallIds},
           \A d \in Clients \ {c} : pc'[d] = pc[d] /\ object'[d] = object[d]
    PROVE  ContextInv'
<1> USE DEF ContextInv, Starting
<1>1. FoundCallHasContext' /\ ContextFirst'
    BY DEF FoundCallHasContext, ContextFirst
<1>2. ASSUME NEW d \in Clients, Starting(d)'
      PROVE  /\ object'[d] \in Calls
             /\ \A e \in Clients \ {d} : object'[e] # object'[d]
             /\ \A i \in CallIds : registry'[i] # object'[d]
  <2>1. d # c /\ Starting(d) /\ object'[d] = object[d]
      BY <1>2
  <2>2. object'[c] # object[d]
      BY <2>1, CallsAssumption DEF StartIsAlone
  <2> QED
      BY <2>1, <2>2 DEF StartIsAlone
<1> QED
    BY <1>1, <1>2 DEF StartIsAlone

LEMMA ContextStep == TypeOK /\ ContextInv /\ [Next]_vars => ContextInv'
<1> SUFFICES ASSUME TypeOK, ContextInv, [Next]_vars
             PROVE  ContextInv'
    OBVIOUS
<1>0. /\ row \in [Calls -> {"none", "bare", "context"}]
      /\ registry \in [CallIds -> Calls \cup {NoCall}]
      /\ DOMAIN pc = Clients /\ DOMAIN object = Clients
      /\ \A d \in Clients : object[d] \in Calls \cup {NoCall}
      /\ \A d \in Clients : pc[d] # "idle" => object[d] \in Calls
      /\ NoCall \notin Calls
    BY CallsAssumption DEF TypeOK
<1> USE DEF ContextInv, Starting
<1>1. CASE UNCHANGED <<registry, row, pc, object>>
    BY <1>1 DEF StartIsAlone, ContextFirst, FoundCallHasContext
<1>2. CASE Restart
    BY <1>2 DEF Restart, StartIsAlone, ContextFirst, FoundCallHasContext
<1>3. ASSUME NEW c \in Clients, ThreadStep(c)
      PROVE  ContextInv'
  <2> USE DEF GoTo, Leave, callVars, threadVars
  <2>1. ASSUME NEW i \in CallIds, NEW o \in Calls, Start(c, i, o)
        PROVE  ContextInv'
    <3>1. /\ row[o] = "none" /\ \A d \in Clients : object[d] # o
          /\ pc' = [pc EXCEPT ![c] = "create"] /\ object' = [object EXCEPT ![c] = o]
          /\ UNCHANGED <<registry, row>>
        BY <2>1 DEF Start
    <3>2. \A j \in CallIds : registry[j] # o
        BY <3>1, <1>0 DEF FoundCallHasContext
    <3>3. StartIsAlone'
        BY <3>1, <3>2, <1>0 DEF StartIsAlone
    <3> QED
        BY <3>1, <3>3, <1>0 DEF ContextFirst, FoundCallHasContext
  <2>2. CASE \/ \E i \in CallIds, op \in Operations : Lookup(c, i, op)
             \/ Plain(StoreFails(c)) \/ MediaStep(c) \/ ControlStep(c)
    <3>0. UNCHANGED <<registry, row>>
        BY <2>2
        DEF Lookup, Plain, StoreFails, MediaStep, CheckHold, Bridge, Turn, TurnFails, Record,
            Judge, ControlStep, Hold, Transfer, Resume
    <3>1. \A d \in Clients \ {c} : pc'[d] = pc[d] /\ object'[d] = object[d]
        BY <2>2, <1>0
        DEF Lookup, Plain, StoreFails, MediaStep, CheckHold, Bridge, Turn, TurnFails, Record,
            Judge, ControlStep, Hold, Transfer, Resume
    <3>2. ~Starting(c)'
        BY <2>2, <1>0
        DEF Lookup, Operations, Plain, StoreFails, MediaStep, CheckHold, Bridge, Turn, TurnFails,
            Record, Judge, ControlStep, Hold, Transfer, Resume
    <3>3. object'[c] \in {object[c], NoCall} \cup {registry[i] : i \in CallIds}
        BY <2>2, <1>0
        DEF Lookup, Plain, StoreFails, MediaStep, CheckHold, Bridge, Turn, TurnFails, Record,
            Judge, ControlStep, Hold, Transfer, Resume
    <3> QED
        BY <3>0, <3>1, <3>2, <3>3, StartsApart
  <2>3. CASE Plain(Create(c))
      BY <2>3, <1>0 DEF Plain, Create, StartIsAlone, ContextFirst, FoundCallHasContext
  <2>4. CASE Plain(ApplyContext(c))
      BY <2>4, <1>0 DEF Plain, ApplyContext, StartIsAlone, ContextFirst, FoundCallHasContext
  <2>5. CASE Plain(Register(c))
    <3>1. /\ pc[c] = "register" /\ row[object[c]] = "context"
          /\ registry' = [registry EXCEPT ![target[c]] = object[c]]
          /\ pc' = [pc EXCEPT ![c] = "idle"] /\ object' = [object EXCEPT ![c] = NoCall]
          /\ row' = row
        BY <2>5 DEF Plain, Register, ContextFirst
    <3>2. FoundCallHasContext' /\ ContextFirst'
        BY <3>1, <1>0 DEF FoundCallHasContext, ContextFirst
    <3>3. StartIsAlone'
        BY <3>1, <1>0 DEF StartIsAlone
    <3> QED
        BY <3>2, <3>3
  <2> QED
      BY <1>3, <2>1, <2>2, <2>3, <2>4, <2>5 DEF ThreadStep, StartStep, Plain
<1> QED
    BY <1>1, <1>2, <1>3, StepOfAThread DEF vars, threadVars

\* A call that can be found has its session, with the headers' context, in the
\* database, whatever failed or was restarted on the way.
THEOREM ContextIsThere == Spec => []FoundCallHasContext
<1>1. ContextInv => FoundCallHasContext
    BY DEF ContextInv
<1> QED
    BY TypeInit, TypeStep, ContextInit, ContextStep, <1>1, PTL DEF Spec

-----------------------------------------------------------------------------
(***************************************************************************)
(* The reason a voice answer gives.                                        *)
(***************************************************************************)

\* A stage can only have been missed when it was passed, and no words are
\* looked for where no speech was heard.
MissedBehind ==
    \A c \in Clients :
        /\ phase[c] \in {"none", "listen", "transcribe", "turn"} => missed[c] = {}
        /\ phase[c] = "speak" => missed[c] \in {{}, {"listen"}, {"transcribe"}}

ReasonInv == FirstFailureNamed /\ MissedBehind

LEMMA ReasonInit == Init => ReasonInv
BY DEF Init, VoiceInit, ReasonInv, FirstFailureNamed, MissedBehind

\* One thread's variables change to values for which both hold.
LEMMA OneReason ==
    ASSUME TypeOK, ReasonInv, NEW c \in Clients, NEW p, NEW w, NEW ms,
           phase' = [phase EXCEPT ![c] = p],
           reason' = [reason EXCEPT ![c] = w],
           missed' = [missed EXCEPT ![c] = ms],
           p \in {"none", "listen", "transcribe", "turn"} => ms = {},
           p = "speak" => ms \in {{}, {"listen"}, {"transcribe"}},
           w = CASE "listen" \in ms -> "no_speech_detected"
                 [] "transcribe" \in ms -> "asr_unintelligible"
                 [] ms = {"speak"} -> "tts_failure"
                 [] ms = {} -> ""
    PROVE  ReasonInv'
<1>1. DOMAIN phase = Clients /\ DOMAIN reason = Clients /\ DOMAIN missed = Clients
    BY DEF TypeOK, VoiceTypeOK
<1>2. MissedBehind'
    BY <1>1 DEF ReasonInv, MissedBehind
<1>3. ASSUME NEW d \in Clients
      PROVE  reason'[d] = CASE "listen" \in missed'[d] -> "no_speech_detected"
                            [] "transcribe" \in missed'[d] -> "asr_unintelligible"
                            [] missed'[d] = {"speak"} -> "tts_failure"
                            [] missed'[d] = {} -> ""
  <2>1. CASE d = c
      BY <2>1, <1>1
  <2>2. CASE d # c
      BY <2>2, <1>1 DEF ReasonInv, FirstFailureNamed
  <2> QED
      BY <2>1, <2>2
<1> QED
    BY <1>2, <1>3 DEF ReasonInv, FirstFailureNamed

\* The stages of the pipeline, and its end.
LEMMA ReasonStages ==
    ASSUME TypeOK, ReasonInv, NEW c \in Clients, Pipeline(c)
    PROVE  ReasonInv'
<1>0. /\ reason = [reason EXCEPT ![c] = reason[c]] /\ missed = [missed EXCEPT ![c] = missed[c]]
    BY DEF TypeOK, VoiceTypeOK
<1>1. reason[c] = CASE "listen" \in missed[c] -> "no_speech_detected"
                    [] "transcribe" \in missed[c] -> "asr_unintelligible"
                    [] missed[c] = {"speak"} -> "tts_failure"
                    [] missed[c] = {} -> ""
    BY DEF ReasonInv, FirstFailureNamed
<1>2. ASSUME NEW from, NEW to \in {"transcribe", "turn", "speak", "answer"}, Advance(c, from, to),
             UNCHANGED <<reason, missed>>, to = "answer" \/ missed[c] = {}
      PROVE  ReasonInv'
    BY <1>0, <1>1, <1>2, OneReason DEF Advance
<1>3. CASE Listen(c)
  <2>1. phase[c] = "listen" /\ missed[c] = {}
      BY <1>3 DEF Listen, Advance, ReasonInv, MissedBehind
  <2>2. CASE Advance(c, "listen", "speak") /\ Miss(c, "no_speech_detected")
    <3>1. /\ phase' = [phase EXCEPT ![c] = "speak"]
          /\ reason' = [reason EXCEPT ![c] = "no_speech_detected"]
          /\ missed' = [missed EXCEPT ![c] = {"listen"}]
        BY <2>1, <2>2 DEF Advance, Miss
    <3> QED
        BY <3>1, OneReason
  <2> QED
      BY <1>2, <1>3, <2>1, <2>2 DEF Listen
<1>4. CASE Transcribe(c)
  <2>1. phase[c] = "transcribe" /\ missed[c] = {}
      BY <1>4 DEF Transcribe, Advance, ReasonInv, MissedBehind
  <2>2. CASE Advance(c, "transcribe", "speak") /\ Miss(c, "asr_unintelligible")
    <3>1. /\ phase' = [phase EXCEPT ![c] = "speak"]
          /\ reason' = [reason EXCEPT ![c] = "asr_unintelligible"]
          /\ missed' = [missed EXCEPT ![c] = {"transcribe"}]
        BY <2>1, <2>2 DEF Advance, Miss
    <3> QED
        BY <3>1, OneReason
  <2> QED
      BY <1>2, <1>4, <2>1, <2>2 DEF Transcribe
<1>5. CASE TakeTurn(c)
    BY <1>2, <1>5 DEF TakeTurn, Advance, ReasonInv, MissedBehind
<1>6. CASE Speak(c)
  <2>1. phase[c] = "speak" /\ missed[c] \in {{}, {"listen"}, {"transcribe"}}
      BY <1>6 DEF Speak, Advance, ReasonInv, MissedBehind
  <2>2. CASE Advance(c, "speak", "answer")
             /\ Miss(c, IF reason[c] = "" THEN "tts_failure" ELSE reason[c])
    <3>1. /\ phase' = [phase EXCEPT ![c] = "answer"]
          /\ reason' = [reason EXCEPT ![c] = IF reason[c] = "" THEN "tts_failure" ELSE reason[c]]
          /\ missed' = [missed EXCEPT ![c] = missed[c] \cup {"speak"}]
        BY <2>1, <2>2 DEF Advance, Miss
    <3>2. CASE missed[c] = {}
      <4>1. missed[c] \cup {"speak"} = {"speak"} /\ reason[c] = ""
          BY <3>2, <1>1
      <4> QED
          BY <3>1, <4>1, OneReason
    <3>3. CASE missed[c] = {"listen"}
      <4>1. missed[c] \cup {"speak"} = {"listen", "speak"} /\ reason[c] = "no_speech_detected"
          BY <3>3, <1>1
      <4>2. reason' = [reason EXCEPT ![c] = "no_speech_detected"]
            /\ missed' = [missed EXCEPT ![c] = {"listen", "speak"}]
          BY <3>1, <4>1
      <4> DEFINE ms == {"listen", "speak"}
      <4>3. "no_speech_detected" = CASE "listen" \in ms -> "no_speech_detected"
                 [] "transcribe" \in ms -> "asr_unintelligible"
                 [] ms = {"speak"} -> "tts_failure"
                 [] ms = {} -> ""
          OBVIOUS
      <4>4. missed' = [missed EXCEPT ![c] = ms]
          BY <4>2
      <4> HIDE DEF ms
      <4> QED
          BY <3>1, <4>2, <4>3, <4>4, OneReason
    <3>4. CASE missed[c] = {"transcribe"}
      <4>1. missed[c] \cup {"speak"} = {"transcribe", "speak"} /\ reason[c] = "asr_unintelligible"
          BY <3>4, <1>1
      <4>2. reason' = [reason EXCEPT ![c] = "asr_unintelligible"]
            /\ missed' = [missed EXCEPT ![c] = {"transcribe", "speak"}]
          BY <3>1, <4>1
      <4> DEFINE ms == {"transcribe", "speak"}
      <4>3. "asr_unintelligible" = CASE "listen" \in ms -> "no_speech_detected"
                 [] "transcribe" \in ms -> "asr_unintelligible"
                 [] ms = {"speak"} -> "tts_failure"
                 [] ms = {} -> ""
          OBVIOUS
      <4>4. missed' = [missed EXCEPT ![c] = ms]
          BY <4>2
      <4> HIDE DEF ms
      <4> QED
          BY <3>1, <4>2, <4>3, <4>4, OneReason
    <3> QED
        BY <2>1, <3>2, <3>3, <3>4
  <2> QED
      BY <1>2, <1>6, <2>2 DEF Speak
<1> QED
    BY <1>3, <1>4, <1>5, <1>6 DEF Pipeline

LEMMA ReasonStep == TypeOK /\ ReasonInv /\ [Next]_vars => ReasonInv'
<1> SUFFICES ASSUME TypeOK, ReasonInv, [Next]_vars
             PROVE  ReasonInv'
    OBVIOUS
<1>1. CASE UNCHANGED voiceVars
    BY <1>1 DEF ReasonInv, FirstFailureNamed, MissedBehind, voiceVars, perTurn
<1>2. CASE Restart
    BY <1>2 DEF Restart, ReasonInv, FirstFailureNamed, MissedBehind
<1>3. ASSUME NEW c \in Clients, Drop(c)
      PROVE  ReasonInv'
    BY <1>3, OneReason DEF Drop
<1>4. ASSUME NEW c \in Clients, CheckHold(c)
      PROVE  ReasonInv'
  <2>1. CASE Enter(c)
    <3>1. phase[c] = "none" /\ missed[c] = {}
        BY <1>4 DEF CheckHold, TypeOK, ReasonInv, MissedBehind
    <3>2. reason[c] = ""
        BY <3>1 DEF ReasonInv, FirstFailureNamed
    <3>3. missed' = [missed EXCEPT ![c] = {}] /\ reason' = [reason EXCEPT ![c] = ""]
      <4>1. missed = [missed EXCEPT ![c] = missed[c]]
          BY DEF TypeOK, VoiceTypeOK
      <4>2. reason = [reason EXCEPT ![c] = reason[c]]
          BY DEF TypeOK, VoiceTypeOK
      <4> QED
          BY <2>1, <3>1, <3>2, <4>1, <4>2 DEF Enter
    <3> QED
        BY <2>1, <3>3, OneReason DEF Enter
  <2> QED
      BY <1>1, <1>4, <2>1 DEF CheckHold
<1>5. ASSUME NEW c \in Clients, ThreadStep(c)
      PROVE  ReasonInv'
    BY <1>1, <1>3, <1>4, <1>5, ReasonStages
    DEF ThreadStep, Start, Lookup, StartStep, MediaStep, Bridge, Turn, TurnFails, ControlStep,
        Resume, Plain, mediaVars
<1> QED
    BY <1>1, <1>2, <1>5, StepOfAThread DEF vars, mediaVars

\* The first stage that did not deliver is the one the answer names.
THEOREM FirstReason == Spec => []FirstFailureNamed
<1>1. ReasonInv => FirstFailureNamed
    BY DEF ReasonInv
<1> QED
    BY TypeInit, TypeStep, ReasonInit, ReasonStep, <1>1, PTL DEF Spec
=============================================================================
