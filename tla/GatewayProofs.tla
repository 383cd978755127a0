--------------------------- MODULE GatewayProofs ---------------------------
(***************************************************************************)
(* The gateway and the limiter behind it, for any number of callers,       *)
(* handler threads and requests and every limit: bounded memory per        *)
(* address, the limit itself and how far overtaking requests can pass it,  *)
(* refusals that are due, answers that tell what was done, and one request *)
(* per caller at a time until one gives up.                                *)
(***************************************************************************)
EXTENDS HttpGateway, FiniteSetTheorems, SequenceTheorems, TLAPS

\* Every step of the gateway but Later is a step of a thread or of a caller.
ThreadStep(c) == Gates(c) \/ Operation(c) \/ Respond(c) \/ RespondToNobody(c)

-----------------------------------------------------------------------------
(***************************************************************************)
(* The limiter.                                                            *)
(***************************************************************************)

\* What is left of the deque: all but those at its head that are before the
\* cutoff.
LEMMA KeptIs ==
    ASSUME events \in Seq(Times), NEW cutoff \in Int
    PROVE  \E n \in 0..Len(events) :
               /\ Kept(cutoff) \in Seq(Times) /\ Len(Kept(cutoff)) = Len(events) - n
               /\ \A i \in 1..(Len(events) - n) : Kept(cutoff)[i] = events[n + i]
               /\ \A i \in 1..n : events[i] < cutoff
               /\ n < Len(events) => events[n + 1] >= cutoff
<1> DEFINE stale == {i \in DOMAIN events : \A j \in 1..i : events[j] < cutoff}
           n == Cardinality(stale)
<1>1. DOMAIN events = 1..Len(events) /\ Len(events) \in Nat
      /\ \A i \in 1..Len(events) : events[i] \in Times /\ events[i] \in Int
    BY LimiterAssumption DEF Times
<1>2. IsFiniteSet(1..Len(events)) /\ Cardinality(1..Len(events)) = Len(events)
    BY <1>1, FS_Interval
<1>3. stale \in SUBSET (1..Len(events))
    BY <1>1
<1>4. IsFiniteSet(stale) /\ n \in Nat /\ n <= Len(events)
    BY <1>2, <1>3, FS_Subset, FS_CardinalityType
\* The stale ones are as many as there are up to the last of them.
<1>5. stale = 1..n
  <2>1. ASSUME NEW i \in stale
        PROVE  i \in 1..n
    <3>1. i \in 1..Len(events) /\ 1..i \subseteq stale
        BY <1>1, <1>3
    <3>2. Cardinality(1..i) = i
        BY <3>1, FS_Interval
    <3>3. i <= n
        BY <1>4, <3>1, <3>2, FS_Subset
    <3> QED
        BY <1>4, <3>1, <3>3
  <2>2. IsFiniteSet(1..n) /\ Cardinality(1..n) = n
      BY <1>4, FS_Interval
  <2>3. stale \in SUBSET (1..n)
      BY <2>1
  <2> QED
      BY <2>2, <2>3, FS_Subset
<1>6. \A i \in 1..n : events[i] < cutoff
  <2>1. \A i \in stale : i \in 1..i /\ events[i] < cutoff
      BY <1>1, <1>3
  <2> QED
      BY <1>5, <2>1
<1>7. ASSUME n < Len(events)
      PROVE  events[n + 1] >= cutoff
  <2>1. n + 1 \in 1..Len(events) /\ n + 1 \notin 1..n
      BY <1>1, <1>4, <1>7
  <2>2. n + 1 \notin stale
      BY <1>5, <2>1
  <2>3. PICK j \in 1..(n + 1) : ~(events[j] < cutoff)
      BY <1>1, <2>1, <2>2
  <2>4. j = n + 1
      BY <1>4, <1>6, <2>3
  <2>5. events[n + 1] \in Int
      BY <1>1, <2>1
  <2> QED
      BY <2>3, <2>4, <2>5
<1>8. Kept(cutoff) = SubSeq(events, n + 1, Len(events))
    BY DEF Kept
<1> HIDE DEF n, stale
<1>9. /\ SubSeq(events, n + 1, Len(events)) \in Seq(Times)
      /\ Len(SubSeq(events, n + 1, Len(events))) = Len(events) - n
      /\ \A i \in 1..(Len(events) - n) : SubSeq(events, n + 1, Len(events))[i] = events[n + i]
  <2>1. n + 1 \in Int /\ Len(events) \in Int /\ \A i \in (n + 1)..Len(events) : events[i] \in Times
      BY <1>1, <1>4
  <2>2. /\ SubSeq(events, n + 1, Len(events)) \in Seq(Times)
        /\ Len(SubSeq(events, n + 1, Len(events))) =
               IF n + 1 <= Len(events) THEN Len(events) - (n + 1) + 1 ELSE 0
        /\ \A i \in 1..(Len(events) - (n + 1) + 1) :
               SubSeq(events, n + 1, Len(events))[i] = events[(n + 1) + i - 1]
      BY <2>1, SubSeqProperties
  <2>3. Len(SubSeq(events, n + 1, Len(events))) = Len(events) - n
    <3>1. CASE n + 1 <= Len(events)
      <4>1. Len(events) - (n + 1) + 1 = Len(events) - n
          BY <1>1, <1>4
      <4> QED
          BY <2>2, <3>1, <4>1
    <3>2. CASE ~(n + 1 <= Len(events))
      <4>1. n \in Nat /\ Len(events) \in Nat /\ n <= Len(events) /\ ~(n + 1 <= Len(events))
          BY <1>1, <1>4, <3>2
      <4>2. n = Len(events)
          BY <4>1
      <4>3. Len(events) - n = 0
          BY <4>1, <4>2
      <4> QED
          BY <2>2, <3>2, <4>3
    <3> QED
        BY <3>1, <3>2
  <2>4. ASSUME NEW i \in 1..(Len(events) - n)
        PROVE  SubSeq(events, n + 1, Len(events))[i] = events[n + i]
    <3>1. i \in 1..(Len(events) - (n + 1) + 1) /\ (n + 1) + i - 1 = n + i
        BY <1>1, <1>4
    <3>2. SubSeq(events, n + 1, Len(events))[i] = events[(n + 1) + i - 1]
        BY <2>2, <3>1
    <3> QED
        BY <3>1, <3>2
  <2> QED
      BY <2>2, <2>3, <2>4
<1>10. n \in 0..Len(events)
    BY <1>1, <1>4
<1> QED
    BY <1>6, <1>7, <1>8, <1>9, <1>10

LEMMA LimiterInit == Init => TypeOK
<1> SUFFICES ASSUME Init
             PROVE  TypeOK
    OBVIOUS
<1>1. 0 \in Times /\ Limit \in Nat
    BY LimiterAssumption DEF Times
<1>2. events \in Seq(Times) /\ Len(events) = 0
    BY EmptySeq DEF Init
<1>3. events \in Seq(Times) /\ Len(events) <= Limit
    BY <1>1, <1>2
<1>4. /\ clock = 0 /\ latest = 0 /\ overtaken = FALSE /\ refused = -1
      /\ pc = [c \in Clients |-> "idle"] /\ now = [c \in Clients |-> 0]
      /\ admitted = <<>>
    BY DEF Init
<1>5. admitted \in Seq(Times)
    BY <1>4, EmptySeq
<1> QED
    BY <1>1, <1>3, <1>4, <1>5 DEF TypeOK

LEMMA LimiterStep == TypeOK /\ [Next]_limiterVars => TypeOK'
<1> SUFFICES ASSUME TypeOK, [Next]_limiterVars
             PROVE  TypeOK'
    OBVIOUS
<1>1. CASE UNCHANGED limiterVars
    BY <1>1 DEF limiterVars, vars, history, TypeOK
<1>2. CASE Tick
    BY <1>2, LimiterAssumption DEF Tick, TypeOK, Times, history
<1>3. ASSUME NEW c \in Clients, Read(c)
      PROVE  TypeOK'
    BY <1>3 DEF Read, TypeOK, history
<1>4. ASSUME NEW c \in Clients, Decide(c)
      PROVE  TypeOK'
  <2> DEFINE kept == Kept(now[c] - Window)
  <2>1. kept \in Seq(Times) /\ Len(kept) <= Limit /\ now[c] \in Times /\ Len(kept) \in Nat
    <3>1. now[c] \in Times /\ now[c] - Window \in Int
        BY LimiterAssumption DEF TypeOK, Times
    <3>2. kept \in Seq(Times) /\ Len(kept) <= Len(events)
        BY <3>1, KeptIs DEF TypeOK
    <3> QED
        BY <3>1, <3>2, LimiterAssumption DEF TypeOK
  <2>2. /\ pc' = [pc EXCEPT ![c] = "idle"] /\ now' = [now EXCEPT ![c] = 0]
        /\ latest' = Larger(latest, now[c]) /\ overtaken' = (overtaken \/ now[c] < latest)
        /\ clock' = clock
        /\ \/ Len(kept) >= Limit /\ events' = kept /\ refused' = now[c] /\ admitted' = admitted
           \/ /\ Len(kept) < Limit /\ events' = Append(kept, now[c]) /\ refused' = -1
              /\ admitted' = Append(admitted, now[c])
      BY <1>4, <2>1, LimiterAssumption DEF Decide, Overtakes
  <2> HIDE DEF kept
  <2>3. events' \in Seq(Times) /\ Len(events') <= Limit
    <3>1. CASE events' = kept
        BY <2>1, <3>1
    <3>2. CASE Len(kept) < Limit /\ events' = Append(kept, now[c])
      <4>1. events' \in Seq(Times) /\ Len(events') = Len(kept) + 1
          BY <2>1, <3>2, AppendProperties
      <4> QED
          BY <2>1, <3>2, <4>1, LimiterAssumption
    <3> QED
        BY <2>2, <3>1, <3>2
  <2>4. latest' \in Times /\ overtaken' \in BOOLEAN
      BY <2>1, <2>2 DEF TypeOK, Larger
  <2>5. refused' \in Times \cup {-1} /\ admitted' \in Seq(Times)
    <3>1. admitted \in Seq(Times) /\ Append(admitted, now[c]) \in Seq(Times)
        BY <2>1, AppendProperties DEF TypeOK
    <3> QED
        BY <2>1, <2>2, <3>1
  <2>6. 0 \in Times
      BY LimiterAssumption DEF Times
  <2> QED
      BY <2>2, <2>3, <2>4, <2>5, <2>6 DEF TypeOK
<1> QED
    BY <1>1, <1>2, <1>3, <1>4 DEF Next

\* What the gateway does to the limiter is a step of the limiter.
LEMMA GatewayLimits == [GatewayNext]_gatewayVars => [Next]_limiterVars
<1> SUFFICES ASSUME [GatewayNext]_gatewayVars
             PROVE  [Next]_limiterVars
    OBVIOUS
<1> USE DEF Next
<1>1. CASE UNCHANGED gatewayVars
    BY <1>1 DEF gatewayVars
<1>2. ASSUME NEW c \in Clients, ThreadStep(c)
      PROVE  [Next]_limiterVars
    BY <1>2
    DEF ThreadStep, Gates, Get, Tls, Arrive, Limit429, Check, Operation, NotFound, Work, Raise,
        Respond, RespondToNobody
<1> QED
    BY <1>1, <1>2 DEF GatewayNext, ThreadStep, Send, Timeout, Later

\* Types of the limiter; above all, the deque of an address never holds more
\* than the limit, whatever order its requests are judged in.
THEOREM DequeIsBounded == GatewaySpec => []TypeOK
<1>1. GatewayInit => TypeOK
    BY LimiterInit DEF GatewayInit
<1> QED
    BY <1>1, LimiterStep, GatewayLimits, PTL DEF GatewaySpec

-----------------------------------------------------------------------------
(***************************************************************************)
(* The limit.                                                              *)
(***************************************************************************)

\* Admitted requests that the deque no longer has.
Dropped == Len(admitted) - Len(events)

\* The deque is the end of the history, ...
Suffix ==
    /\ Len(events) <= Len(admitted)
    /\ \A i \in 1..Len(events) : events[i] = admitted[Dropped + i]

\* ... a thread has read the clock before, ...
ReadBefore == \A c \in Clients : now[c] <= clock

\* ... and unless requests overtook each other, the history is in the order of
\* time, and what was dropped is older than the last window.
InOrder ==
    ~overtaken =>
        /\ \A i \in 1..Len(admitted) : admitted[i] <= latest
        /\ \A i, j \in 1..Len(admitted) : i <= j => admitted[i] <= admitted[j]
        /\ \A i \in 1..Dropped : admitted[i] < latest - Window

OrderInv == TypeOK /\ Suffix /\ ReadBefore /\ InOrder

\* What the limiter's types say of the history.
LEMMA HistoryTyped ==
    ASSUME TypeOK
    PROVE  /\ Len(admitted) \in Nat /\ DOMAIN admitted = 1..Len(admitted)
           /\ \A i \in 1..Len(admitted) : admitted[i] \in Times /\ admitted[i] \in Nat
<1>1. admitted \in Seq(Times)
    BY DEF TypeOK
<1>2. \A i \in 1..Len(admitted) : admitted[i] \in Times
    BY <1>1, ElementOfSeq
<1> QED
    BY <1>1, <1>2, LenProperties DEF Times

LEMMA OrderInit == Init => OrderInv
<1> SUFFICES ASSUME Init
             PROVE  OrderInv
    OBVIOUS
<1>1. Len(events) = 0 /\ Len(admitted) = 0 /\ clock = 0 /\ \A c \in Clients : now[c] = 0
    BY EmptySeq DEF Init
<1> QED
    BY <1>1, LimiterInit DEF OrderInv, Suffix, ReadBefore, InOrder, Dropped

\* A decision drops some from the head, all of them older than its window and
\* the next one not, and adds its own time unless the deque is full.
LEMMA Decision ==
    ASSUME OrderInv, NEW c \in Clients, Decide(c)
    PROVE  \E n \in 0..Len(events) :
               /\ Len(events) \in Nat /\ Len(admitted) \in Nat /\ Dropped \in Nat
               /\ Dropped' = Dropped + n
               /\ \A i \in (Dropped + 1)..(Dropped + n) : admitted[i] < now[c] - Window
               /\ n < Len(events) => admitted[Dropped + n + 1] >= now[c] - Window
               /\ \A i \in 1..Len(admitted) : admitted'[i] = admitted[i]
               /\ \/ /\ admitted' = admitted /\ refused' = now[c]
                     /\ Limit <= Len(admitted) - (Dropped + n)
                  \/ /\ Len(admitted') = Len(admitted) + 1
                     /\ admitted'[Len(admitted) + 1] = now[c] /\ refused' = -1
               /\ Suffix'
<1> DEFINE kept == Kept(now[c] - Window)
<1>0. /\ events \in Seq(Times) /\ admitted \in Seq(Times) /\ now[c] \in Times
      /\ now[c] - Window \in Int /\ Limit \in Nat
    BY LimiterAssumption DEF OrderInv, TypeOK, Times
<1>1. PICK n \in 0..Len(events) :
          /\ kept \in Seq(Times) /\ Len(kept) = Len(events) - n
          /\ \A i \in 1..(Len(events) - n) : kept[i] = events[n + i]
          /\ \A i \in 1..n : events[i] < now[c] - Window
          /\ n < Len(events) => events[n + 1] >= now[c] - Window
    BY <1>0, KeptIs
<1>2. \/ Len(kept) >= Limit /\ events' = kept /\ refused' = now[c] /\ admitted' = admitted
      \/ /\ Len(kept) < Limit /\ events' = Append(kept, now[c]) /\ refused' = -1
         /\ admitted' = Append(admitted, now[c])
  <2>1. Len(kept) \in Nat
      BY <1>1
  <2> QED
      BY <1>0, <2>1 DEF Decide
<1> HIDE DEF kept
<1>3. /\ Len(events) \in Nat /\ Len(admitted) \in Nat /\ Len(kept) \in Nat /\ n \in Nat
      /\ Len(events) <= Len(admitted) /\ n <= Len(events)
      /\ \A i \in 1..Len(events) : events[i] = admitted[Dropped + i]
    BY <1>0, <1>1 DEF OrderInv, Suffix
<1>4. Dropped \in Nat /\ Dropped + Len(events) = Len(admitted)
    BY <1>3 DEF Dropped
<1>5. ASSUME NEW i \in (Dropped + 1)..(Dropped + n)
      PROVE  admitted[i] < now[c] - Window
  <2>1. i - Dropped \in 1..n /\ i - Dropped \in 1..Len(events) /\ Dropped + (i - Dropped) = i
      BY <1>3, <1>4
  <2>2. events[i - Dropped] = admitted[Dropped + (i - Dropped)]
      BY <1>3, <2>1
  <2> QED
      BY <1>1, <2>1, <2>2
<1>6. ASSUME n < Len(events)
      PROVE  admitted[Dropped + n + 1] >= now[c] - Window
  <2>1. n + 1 \in 1..Len(events) /\ Dropped + (n + 1) = Dropped + n + 1
      BY <1>3, <1>4, <1>6
  <2> QED
      BY <1>1, <1>3, <1>6, <2>1
<1>7. \A i \in 1..Len(kept) : kept[i] = admitted[Dropped + n + i]
  <2> SUFFICES ASSUME NEW i \in 1..Len(kept)
               PROVE  kept[i] = admitted[Dropped + n + i]
      OBVIOUS
  <2>1. Len(kept) = Len(events) - n
      BY <1>1
  <2>2. i \in 1..(Len(events) - n) /\ n + i \in 1..Len(events) /\ Dropped + (n + i) = Dropped + n + i
      BY <1>3, <1>4, <2>1
  <2>3. kept[i] = events[n + i]
      BY <1>1, <2>2
  <2> QED
      BY <1>3, <2>2, <2>3
<1>8. Len(kept) = Len(admitted) - (Dropped + n)
  <2>1. Len(kept) = Len(events) - n
      BY <1>1
  <2> QED
      BY <1>3, <1>4, <2>1
<1>9. CASE Len(kept) >= Limit /\ events' = kept /\ refused' = now[c] /\ admitted' = admitted
  <2>1. Dropped' = Dropped + n
      BY <1>3, <1>4, <1>8, <1>9 DEF Dropped
  <2>2. Suffix'
      BY <1>3, <1>4, <1>7, <1>8, <1>9, <2>1 DEF Suffix
  <2>3. Limit <= Len(admitted) - (Dropped + n)
      BY <1>0, <1>3, <1>8, <1>9
  <2> QED
      BY <1>3, <1>4, <1>5, <1>6, <1>9, <2>1, <2>2, <2>3
<1>10. CASE /\ Len(kept) < Limit /\ events' = Append(kept, now[c]) /\ refused' = -1
            /\ admitted' = Append(admitted, now[c])
  <2>1. /\ Len(admitted') = Len(admitted) + 1 /\ admitted'[Len(admitted) + 1] = now[c]
        /\ \A i \in 1..Len(admitted) : admitted'[i] = admitted[i]
      BY <1>0, <1>10, AppendProperties
  <2>2. /\ Len(events') = Len(kept) + 1 /\ events'[Len(kept) + 1] = now[c]
        /\ \A i \in 1..Len(kept) : events'[i] = kept[i]
    <3>1. kept \in Seq(Times) /\ now[c] \in Times
        BY <1>0, <1>1
    <3>2. /\ Len(Append(kept, now[c])) = Len(kept) + 1 /\ Append(kept, now[c])[Len(kept) + 1] = now[c]
          /\ \A i \in 1..Len(kept) : Append(kept, now[c])[i] = kept[i]
        BY <3>1, AppendProperties
    <3> QED
        BY <1>10, <3>2
  <2>3. Dropped' = Dropped + n
    <3>1. Dropped' = Len(admitted') - Len(events')
        BY DEF Dropped
    <3>2. Dropped' = (Len(admitted) + 1) - (Len(kept) + 1)
        BY <2>1, <2>2, <3>1
    <3>3. Len(admitted) \in Nat /\ Len(kept) = Len(admitted) - (Dropped + n) /\ Dropped \in Nat /\ n \in Nat
        BY <1>3, <1>4, <1>8
    <3> QED
        BY <3>2, <3>3
  <2>4. Suffix'
    <3>1. Len(events') <= Len(admitted')
        BY <1>3, <1>4, <1>8, <2>1, <2>2
    <3>2. ASSUME NEW i \in 1..Len(events')
          PROVE  events'[i] = admitted'[Dropped' + i]
      <4>1. CASE i = Len(kept) + 1
        <5>1. Dropped' + i = Len(admitted) + 1
            BY <1>3, <1>4, <1>8, <2>3, <4>1
        <5> QED
            BY <2>1, <2>2, <4>1, <5>1
      <4>2. CASE i # Len(kept) + 1
        <5>1. i \in 1..Len(kept) /\ Dropped' + i = Dropped + n + i /\ Dropped + n + i \in 1..Len(admitted)
            BY <1>3, <1>4, <1>8, <2>2, <2>3, <4>2
        <5> QED
            BY <1>7, <2>1, <2>2, <5>1
      <4> QED
          BY <4>1, <4>2
    <3> QED
        BY <3>1, <3>2 DEF Suffix
  <2> QED
      BY <1>3, <1>4, <1>5, <1>6, <1>10, <2>1, <2>3, <2>4
<1> QED
    BY <1>2, <1>9, <1>10

\* Everything else leaves the deque and the history alone.
LEMMA OnlyDecisions ==
    ASSUME [Next]_limiterVars, ~\E c \in Clients : Decide(c)
    PROVE  /\ UNCHANGED <<events, admitted, latest, overtaken, Dropped>>
           /\ refused' \in {refused, -1}
BY DEF Next, Tick, Read, limiterVars, vars, history, Dropped

LEMMA OrderStep == OrderInv /\ [Next]_limiterVars => OrderInv'
<1> SUFFICES ASSUME OrderInv, [Next]_limiterVars
             PROVE  OrderInv'
    OBVIOUS
<1>1. TypeOK'
    BY LimiterStep DEF OrderInv
<1>2. /\ clock \in Nat /\ clock' \in Nat /\ clock <= clock'
      /\ \A c \in Clients : now'[c] \in {0, now[c], clock} /\ now[c] \in Nat
    BY <1>1 DEF OrderInv, TypeOK, Times, Next, Tick, Read, Decide, limiterVars, vars
<1>3. ReadBefore'
    BY <1>2 DEF OrderInv, ReadBefore
<1>4. ASSUME ~\E c \in Clients : Decide(c)
      PROVE  Suffix' /\ InOrder'
    BY <1>4, OnlyDecisions DEF OrderInv, Suffix, InOrder
<1>5. ASSUME NEW c \in Clients, Decide(c)
      PROVE  Suffix' /\ InOrder'
  <2>1. PICK n \in 0..Len(events) :
          /\ Len(events) \in Nat /\ Len(admitted) \in Nat /\ Dropped \in Nat
          /\ Dropped' = Dropped + n
          /\ \A i \in (Dropped + 1)..(Dropped + n) : admitted[i] < now[c] - Window
          /\ \A i \in 1..Len(admitted) : admitted'[i] = admitted[i]
          /\ \/ admitted' = admitted
             \/ /\ Len(admitted') = Len(admitted) + 1
                /\ admitted'[Len(admitted) + 1] = now[c]
          /\ Suffix'
      BY <1>5, Decision
  <2>2. /\ latest' = Larger(latest, now[c]) /\ overtaken' = (overtaken \/ now[c] < latest)
        /\ now[c] \in Nat /\ latest \in Nat /\ Window \in Nat /\ n \in Nat
        /\ overtaken \in BOOLEAN
      BY <1>5, <2>1, LimiterAssumption DEF Decide, Overtakes, OrderInv, TypeOK, Times
  <2>3. ASSUME ~overtaken'
        PROVE  /\ \A i \in 1..Len(admitted') : admitted'[i] <= latest'
               /\ \A i, j \in 1..Len(admitted') : i <= j => admitted'[i] <= admitted'[j]
               /\ \A i \in 1..Dropped' : admitted'[i] < latest' - Window
    <3>1. ~overtaken /\ latest' = now[c] /\ latest <= now[c]
      <4>1. ~overtaken /\ ~(now[c] < latest)
          BY <2>2, <2>3
      <4> QED
          BY <2>2, <4>1 DEF Larger
    <3>2. /\ \A i \in 1..Len(admitted) : admitted[i] <= latest /\ admitted[i] \in Nat
          /\ \A i, j \in 1..Len(admitted) : i <= j => admitted[i] <= admitted[j]
          /\ \A i \in 1..Dropped : admitted[i] < latest - Window
      <4>1. \A i \in 1..Len(admitted) : admitted[i] \in Nat
          BY HistoryTyped DEF OrderInv
      <4> QED
          BY <3>1, <4>1 DEF OrderInv, InOrder
    <3>3. \A i \in 1..Len(admitted') :
              \/ i \in 1..Len(admitted) /\ admitted'[i] = admitted[i]
              \/ i = Len(admitted) + 1 /\ i \notin 1..Len(admitted) /\ admitted'[i] = now[c]
        BY <2>1
    <3>4. \A i \in 1..Len(admitted') : admitted'[i] <= now[c] /\ admitted'[i] \in Nat
      <4>1. \A i \in 1..Len(admitted) : admitted[i] <= now[c]
          BY <2>2, <3>1, <3>2
      <4> QED
          BY <2>2, <3>2, <3>3, <4>1
    <3>5. ASSUME NEW i \in 1..Len(admitted'), NEW j \in 1..Len(admitted'), i <= j
          PROVE  admitted'[i] <= admitted'[j]
      <4>1. CASE j \in 1..Len(admitted) /\ admitted'[j] = admitted[j]
        <5>1. i \in 1..Len(admitted)
            BY <2>1, <3>5, <4>1
        <5> QED
            BY <2>1, <3>2, <3>5, <4>1, <5>1
      <4>2. CASE admitted'[j] = now[c]
          BY <3>4, <4>2
      <4> QED
          BY <3>3, <4>1, <4>2
    <3>6. Dropped' <= Len(admitted)
        BY <2>1 DEF Dropped
    <3>7. ASSUME NEW i \in 1..Dropped'
          PROVE  admitted'[i] < latest' - Window
      <4>1. i \in 1..Len(admitted) /\ admitted'[i] = admitted[i] /\ admitted[i] \in Nat
          BY <2>1, <3>2, <3>6
      <4>2. CASE i \in 1..Dropped
          BY <2>2, <3>1, <3>2, <4>1, <4>2
      <4>3. CASE i \in (Dropped + 1)..(Dropped + n)
          BY <2>1, <3>1, <4>1, <4>3
      <4> QED
          BY <2>1, <2>2, <4>2, <4>3
    <3> QED
        BY <3>1, <3>4, <3>5, <3>7
  <2>4. InOrder'
      BY <2>3 DEF InOrder
  <2> QED
      BY <2>1, <2>4
<1> QED
    BY <1>1, <1>3, <1>4, <1>5 DEF OrderInv

\* The entries of a sequence of times that are in a window.
Between(s, from, to) == {i \in DOMAIN s : s[i] \in from..to}

LEMMA BetweenFinite ==
    ASSUME NEW s \in Seq(Times), NEW from, NEW to
    PROVE  /\ Between(s, from, to) \subseteq 1..Len(s)
           /\ IsFiniteSet(Between(s, from, to)) /\ Cardinality(Between(s, from, to)) \in Nat
<1>1. Between(s, from, to) \subseteq 1..Len(s) /\ Len(s) \in Nat
    BY LenProperties DEF Between
<1>2. IsFiniteSet(1..Len(s))
    BY <1>1, FS_Interval
<1>3. IsFiniteSet(Between(s, from, to))
    BY <1>1, <1>2, FS_Subset
<1> QED
    BY <1>1, <1>3, FS_CardinalityType

LEMMA RestOfInterval ==
    ASSUME NEW l \in Nat, NEW d \in 0..l
    PROVE  IsFiniteSet((d + 1)..l) /\ Cardinality((d + 1)..l) = l - d
<1>1. d \in Nat /\ d <= l
    OBVIOUS
<1>2. d + 1 \in Int /\ l \in Int
    BY <1>1
<1>3. Cardinality((d + 1)..l) = IF d + 1 > l THEN 0 ELSE l - (d + 1) + 1
    BY <1>2, FS_Interval
<1>4. l - (d + 1) + 1 = l - d /\ (d + 1 > l => l - d = 0)
    BY <1>1
<1> QED
    BY <1>2, <1>3, <1>4, FS_Interval

\* Where the first d are outside the window, only the others count; ...
LEMMA CountAtMost ==
    ASSUME NEW s \in Seq(Times), NEW d \in 0..Len(s), NEW from, NEW to,
           \A i \in 1..d : s[i] \notin from..to
    PROVE  Cardinality(Between(s, from, to)) <= Len(s) - d
<1>1. Len(s) \in Nat /\ DOMAIN s = 1..Len(s)
    BY LenProperties
<1>2. Between(s, from, to) \subseteq (d + 1)..Len(s)
    BY <1>1 DEF Between
<1>3. IsFiniteSet((d + 1)..Len(s)) /\ Cardinality((d + 1)..Len(s)) = Len(s) - d
    BY <1>1, RestOfInterval
<1> QED
    BY <1>2, <1>3, FS_Subset

\* ... where all others are in it, they all count.
LEMMA CountAtLeast ==
    ASSUME NEW s \in Seq(Times), NEW d \in 0..Len(s), NEW from, NEW to,
           \A i \in (d + 1)..Len(s) : s[i] \in from..to
    PROVE  Cardinality(Between(s, from, to)) >= Len(s) - d
<1>1. Len(s) \in Nat /\ DOMAIN s = 1..Len(s)
    BY LenProperties
<1>2. (d + 1)..Len(s) \subseteq Between(s, from, to)
    BY <1>1 DEF Between
<1>3. IsFiniteSet((d + 1)..Len(s)) /\ Cardinality((d + 1)..Len(s)) = Len(s) - d
    BY <1>1, RestOfInterval
<1>4. Cardinality((d + 1)..Len(s)) <= Cardinality(Between(s, from, to))
    BY <1>2, BetweenFinite, FS_Subset
<1>5. Cardinality(Between(s, from, to)) \in Nat
    BY BetweenFinite
<1> QED
    BY <1>1, <1>3, <1>4, <1>5

\* One more entry counts where it is in the window.
LEMMA CountOfOneMore ==
    ASSUME NEW s \in Seq(Times), NEW r \in Seq(Times), NEW from, NEW to,
           Len(r) = Len(s) + 1, \A i \in 1..Len(s) : r[i] = s[i]
    PROVE  /\ r[Len(s) + 1] \notin from..to => Between(r, from, to) = Between(s, from, to)
           /\ r[Len(s) + 1] \in from..to =>
                  Between(r, from, to) = Between(s, from, to) \cup {Len(s) + 1}
           /\ Len(s) + 1 \notin Between(s, from, to)
<1>1. Len(s) \in Nat /\ DOMAIN s = 1..Len(s) /\ DOMAIN r = 1..(Len(s) + 1)
    BY LenProperties
<1>2. 1..(Len(s) + 1) = (1..Len(s)) \cup {Len(s) + 1} /\ Len(s) + 1 \notin 1..Len(s)
    BY <1>1
<1> QED
    BY <1>1, <1>2 DEF Between

\* How many the deque still has, of those a window counts.
LEMMA DequeHolds ==
    ASSUME OrderInv
    PROVE  /\ Dropped \in 0..Len(admitted) /\ Len(admitted) - Dropped = Len(events)
           /\ Len(events) \in Nat /\ Len(admitted) \in Nat /\ Len(events) <= Limit
<1>1. events \in Seq(Times) /\ admitted \in Seq(Times) /\ Len(events) <= Limit
    BY DEF OrderInv, TypeOK
<1>2. Len(events) \in Nat /\ Len(admitted) \in Nat
    BY <1>1, LenProperties
<1>3. Len(events) <= Len(admitted)
    BY DEF OrderInv, Suffix
<1> QED
    BY <1>1, <1>2, <1>3 DEF Dropped

LEMMA HeldAtMost ==
    ASSUME OrderInv, NEW t \in Times, \A i \in 1..Dropped : admitted[i] \notin t..(t + Window)
    PROVE  AdmittedIn(t, t + Window) <= Len(events) /\ AdmittedIn(t, t + Window) <= Limit
<1>1. admitted \in Seq(Times) /\ Limit \in Nat
    BY LimiterAssumption DEF OrderInv, TypeOK
<1>2. Cardinality(Between(admitted, t, t + Window)) <= Len(admitted) - Dropped
    BY <1>1, DequeHolds, CountAtMost
<1>3. AdmittedIn(t, t + Window) = Cardinality(Between(admitted, t, t + Window))
    BY DEF AdmittedIn, Between
<1>4. AdmittedIn(t, t + Window) \in Nat
    BY <1>1, <1>3, BetweenFinite
<1> QED
    BY <1>1, <1>2, <1>3, <1>4, DequeHolds

\* What every window counts of the deque, in one formula for the next state, too.
HeldIsShort ==
    /\ Dropped \in 0..Len(admitted) /\ Len(admitted) \in Nat
    /\ \A t \in Times :
           (\A i \in 1..Dropped : admitted[i] \notin t..(t + Window)) =>
               AdmittedIn(t, t + Window) <= Limit

LEMMA Held == OrderInv => HeldIsShort
BY DequeHolds, HeldAtMost DEF HeldIsShort

LEMMA HeldNext == OrderInv' => HeldIsShort'
BY Held, PTL

LEMMA WindowStep == OrderInv /\ WindowLimit /\ [Next]_limiterVars => WindowLimit'
<1> SUFFICES ASSUME OrderInv, WindowLimit, [Next]_limiterVars, ~overtaken', NEW t \in Times
             PROVE  AdmittedIn(t, t + Window)' <= Limit
    BY DEF WindowLimit
<1>1. OrderInv'
    BY OrderStep
<1>2. CASE ~\E c \in Clients : Decide(c)
    BY <1>2, OnlyDecisions DEF WindowLimit, AdmittedIn
<1>3. ASSUME NEW c \in Clients, Decide(c)
      PROVE  AdmittedIn(t, t + Window)' <= Limit
  <2>1. /\ \A i \in 1..Len(admitted) : admitted'[i] = admitted[i]
        /\ \/ admitted' = admitted
           \/ /\ Len(admitted') = Len(admitted) + 1
              /\ admitted'[Len(admitted) + 1] = now[c]
      BY <1>3, Decision
  <2>2. latest' = Larger(latest, now[c]) /\ overtaken' = (overtaken \/ now[c] < latest)
      BY <1>3 DEF Decide, Overtakes
  <2>3. ~overtaken /\ ~(now[c] < latest)
      BY <2>2
  <2>4. now[c] \in Nat /\ latest \in Nat /\ Window \in Nat /\ t \in Nat
      BY LimiterAssumption DEF OrderInv, TypeOK, Times
  <2>5. latest' = now[c]
      BY <2>2, <2>3, <2>4 DEF Larger
  <2>6. CASE admitted' = admitted
      BY <2>3, <2>6 DEF WindowLimit, AdmittedIn
  <2>7. CASE /\ Len(admitted') = Len(admitted) + 1
             /\ admitted'[Len(admitted) + 1] = now[c]
    <3>1. admitted \in Seq(Times) /\ admitted' \in Seq(Times)
        BY <1>1 DEF OrderInv, TypeOK
    \* A window that ends before this request counts what it counted.
    <3>2. CASE now[c] \notin t..(t + Window)
      <4>1. Between(admitted', t, t + Window) = Between(admitted, t, t + Window)
          BY <2>1, <2>7, <3>1, <3>2, CountOfOneMore
      <4> QED
          BY <2>3, <4>1 DEF WindowLimit, AdmittedIn, Between
    \* One that does not is all in the deque.
    <3>3. CASE now[c] \in t..(t + Window)
      <4>1. \A i \in 1..Dropped' : admitted'[i] \notin t..(t + Window)
        <5>1. \A i \in 1..Dropped' : admitted'[i] < now[c] - Window
            BY <1>1, <2>5 DEF OrderInv, InOrder
        <5>2. now[c] - Window <= t
            BY <2>4, <3>3
        <5>3. \A i \in 1..Dropped' : admitted'[i] \in Nat
          <6>1. Dropped' \in 0..Len(admitted') /\ Len(admitted') \in Nat
              BY <1>1, HeldNext DEF HeldIsShort
          <6>2. \A i \in 1..Len(admitted') : admitted'[i] \in Times
              BY <3>1, ElementOfSeq
          <6> QED
              BY <6>1, <6>2 DEF Times
        <5> QED
            BY <2>4, <5>1, <5>2, <5>3
      <4> QED
          BY <1>1, <4>1, HeldNext DEF HeldIsShort
    <3> QED
        BY <3>2, <3>3
  <2> QED
      BY <2>1, <2>6, <2>7
<1> QED
    BY <1>2, <1>3

LEMMA RefusalStep == OrderInv /\ RefusedWhenFull /\ [Next]_limiterVars => RefusedWhenFull'
<1> SUFFICES ASSUME OrderInv, RefusedWhenFull, [Next]_limiterVars, refused' # -1, ~overtaken'
             PROVE  AdmittedIn(refused - Window, refused)' >= Limit
    BY DEF RefusedWhenFull
<1>1. CASE ~\E c \in Clients : Decide(c)
    BY <1>1, OnlyDecisions DEF RefusedWhenFull, AdmittedIn
<1>2. ASSUME NEW c \in Clients, Decide(c)
      PROVE  AdmittedIn(refused - Window, refused)' >= Limit
  <2>1. PICK n \in 0..Len(events) :
          /\ n < Len(events) => admitted[Dropped + n + 1] >= now[c] - Window
          /\ admitted' = admitted /\ refused' = now[c]
          /\ Limit <= Len(admitted) - (Dropped + n)
      BY <1>2, Decision
  <2>2. /\ latest' = Larger(latest, now[c]) /\ overtaken' = (overtaken \/ now[c] < latest)
      BY <1>2 DEF Decide, Overtakes
  <2>3. ~overtaken /\ ~(now[c] < latest)
      BY <2>2
  <2>4. /\ now[c] \in Nat /\ latest \in Nat /\ Window \in Nat /\ Limit \in Nat
        /\ latest <= now[c]
    <3>1. now[c] \in Nat /\ latest \in Nat /\ Window \in Nat /\ Limit \in Nat
        BY LimiterAssumption DEF OrderInv, TypeOK, Times
    <3> QED
        BY <2>3, <3>1
  <2>5. /\ admitted \in Seq(Times) /\ \A i \in 1..Len(admitted) : admitted[i] \in Nat
      BY HistoryTyped DEF OrderInv, TypeOK
  <2>6. /\ \A i \in 1..Len(admitted) : admitted[i] <= latest
        /\ \A i, j \in 1..Len(admitted) : i <= j => admitted[i] <= admitted[j]
      BY <2>3 DEF OrderInv, InOrder
  <2> DEFINE d == Dropped + n
  <2>7. d \in 0..Len(admitted) /\ d \in Nat /\ Len(admitted) \in Nat
        /\ (n < Len(events) <=> d < Len(admitted))
      BY DequeHolds
  <2>8. d < Len(admitted) => admitted[d + 1] >= now[c] - Window
      BY <2>1, <2>7
  <2>9. Limit <= Len(admitted) - d
      BY <2>1
  <2> HIDE DEF d
  \* What is left in the deque when a request is refused is in its window.
  <2>10. ASSUME NEW i \in (d + 1)..Len(admitted)
         PROVE  admitted[i] \in (now[c] - Window)..now[c]
    <3>1. i \in 1..Len(admitted) /\ d + 1 \in 1..Len(admitted) /\ d + 1 <= i /\ d < Len(admitted)
        BY <2>7
    <3>2. admitted[d + 1] <= admitted[i] /\ admitted[i] <= latest
          /\ admitted[d + 1] >= now[c] - Window
        BY <2>6, <2>8, <3>1
    <3>3. admitted[i] \in Nat /\ admitted[d + 1] \in Nat
        BY <2>5, <3>1
    <3> QED
        BY <2>4, <3>2, <3>3
  <2>11. Cardinality(Between(admitted, now[c] - Window, now[c])) >= Len(admitted) - d
      BY <2>5, <2>7, <2>10, CountAtLeast
  <2>12. Cardinality(Between(admitted, now[c] - Window, now[c])) \in Nat
      BY <2>5, BetweenFinite
  <2>13. AdmittedIn(refused - Window, refused)' = Cardinality(Between(admitted, now[c] - Window, now[c]))
      BY <2>1 DEF AdmittedIn, Between
  <2> QED
      BY <2>4, <2>7, <2>9, <2>11, <2>12, <2>13
<1> QED
    BY <1>1, <1>2

\* Unless requests overtake each other between the clock and the lock, no
\* window admits more than the limit.
THEOREM LimitHolds == GatewaySpec => []WindowLimit
<1>1. GatewayInit => OrderInv
    BY OrderInit DEF GatewayInit
<1>2. GatewayInit => WindowLimit
  <2> SUFFICES ASSUME GatewayInit, NEW t \in Times
               PROVE  AdmittedIn(t, t + Window) <= Limit
      BY DEF WindowLimit
  <2>1. admitted = <<>> /\ Limit \in Nat
      BY LimiterAssumption DEF GatewayInit, Init
  <2>2. AdmittedIn(t, t + Window) = 0
      BY <2>1, FS_EmptySet DEF AdmittedIn
  <2> QED
      BY <2>1, <2>2
<1> QED
    BY <1>1, <1>2, OrderStep, WindowStep, GatewayLimits, PTL DEF GatewaySpec

\* Under the same condition a request is refused only when its window is full.
THEOREM RefusalsAreDue == GatewaySpec => []RefusedWhenFull
<1>1. GatewayInit => OrderInv
    BY OrderInit DEF GatewayInit
<1>2. GatewayInit => RefusedWhenFull
    BY DEF GatewayInit, Init, RefusedWhenFull
<1> QED
    BY <1>1, <1>2, OrderStep, RefusalStep, GatewayLimits, PTL DEF GatewaySpec

\* The threads that may still add to a window: they have read a time in it and
\* are about to decide.
Late(t) == {c \in Clients : pc[c] = "decide" /\ now[c] \in t..(t + Window)}

\* The deque has all that the window counts, or ...
StillHeld(t) == \A i \in 1..Dropped : admitted[i] \notin t..(t + Window)

\* ... the window is over and room for its last requests is accounted for.
Settled(t) ==
    /\ clock > t + Window
    /\ AdmittedIn(t, t + Window) + Cardinality(Late(t)) < Limit + Cardinality(Clients)

OvershootInv ==
    /\ admitted # <<>> => Clients # {}
    /\ \A t \in Times : StillHeld(t) \/ Settled(t)

LEMMA LateFinite ==
    ASSUME NEW t
    PROVE  /\ IsFiniteSet(Late(t)) /\ Cardinality(Late(t)) \in Nat /\ Cardinality(Clients) \in Nat
           /\ Cardinality(Late(t)) <= Cardinality(Clients)
           /\ \A c \in Clients \ Late(t) : Cardinality(Late(t)) < Cardinality(Clients)
           /\ \A c \in Late(t) : Cardinality(Late(t) \ {c}) = Cardinality(Late(t)) - 1
<1>1. IsFiniteSet(Clients) /\ Cardinality(Clients) \in Nat
    BY GatewayAssumption, FS_CardinalityType
<1>2. Late(t) \subseteq Clients
    BY DEF Late
<1>3. /\ IsFiniteSet(Late(t)) /\ Cardinality(Late(t)) \in Nat
      /\ Cardinality(Late(t)) <= Cardinality(Clients)
    BY <1>1, <1>2, FS_Subset, FS_CardinalityType
<1>4. ASSUME NEW c \in Clients \ Late(t)
      PROVE  Cardinality(Late(t)) < Cardinality(Clients)
  <2>1. Late(t) # Clients
      BY <1>4
  <2> QED
      BY <1>1, <1>2, <1>3, <2>1, FS_Subset
<1>5. \A c \in Late(t) : Cardinality(Late(t) \ {c}) = Cardinality(Late(t)) - 1
    BY <1>3, FS_RemoveElement
<1> QED
    BY <1>1, <1>3, <1>4, <1>5

LEMMA OvershootInit == Init => OvershootInv
BY EmptySeq DEF Init, OvershootInv, StillHeld, Dropped

\* Once a window is over nobody new is late for it, and who decides is so no more.
LEMMA NobodyNewIsLate ==
    ASSUME OrderInv, [Next]_limiterVars, NEW t \in Times, clock > t + Window
    PROVE  Late(t)' \subseteq Late(t) /\ clock' > t + Window
<1>1. pc \in [Clients -> {"idle", "decide"}] /\ now \in [Clients -> Times] /\ clock \in Times
    BY DEF OrderInv, TypeOK
<1>2. clock \notin t..(t + Window) /\ clock \in Nat /\ t \in Nat /\ Window \in Nat
    BY <1>1, LimiterAssumption DEF Times
<1>3. CASE UNCHANGED limiterVars \/ Tick
  <2>1. pc' = pc /\ now' = now /\ clock' \in {clock, clock + 1}
      BY <1>3 DEF limiterVars, vars, Tick
  <2> QED
      BY <1>2, <2>1 DEF Late
<1>4. ASSUME NEW c \in Clients, Read(c)
      PROVE  Late(t)' \subseteq Late(t) /\ clock' > t + Window
  <2>1. \A e \in Clients : now'[e] = IF e = c THEN clock ELSE now[e]
      BY <1>1, <1>4 DEF Read
  <2>2. \A e \in Clients : e # c => pc'[e] = pc[e]
      BY <1>1, <1>4 DEF Read
  <2>3. clock' = clock
      BY <1>4 DEF Read
  <2> QED
      BY <1>2, <2>1, <2>2, <2>3 DEF Late
<1>5. ASSUME NEW c \in Clients, Decide(c)
      PROVE  Late(t)' \subseteq Late(t) /\ clock' > t + Window
  <2>1. /\ \A e \in Clients : e # c => now'[e] = now[e] /\ pc'[e] = pc[e]
        /\ pc'[c] = "idle" /\ clock' = clock
      BY <1>1, <1>5 DEF Decide
  <2> QED
      BY <2>1 DEF Late
<1> QED
    BY <1>3, <1>4, <1>5 DEF Next

LEMMA OvershootStep == OrderInv /\ OvershootInv /\ [Next]_limiterVars => OvershootInv'
<1> SUFFICES ASSUME OrderInv, OvershootInv, [Next]_limiterVars
             PROVE  OvershootInv'
    OBVIOUS
<1>0. Limit \in Nat /\ Window \in Nat /\ admitted \in Seq(Times) /\ admitted' \in Seq(Times)
    BY LimiterAssumption, LimiterStep DEF OrderInv, TypeOK
<1>1. (admitted # <<>> => Clients # {})'
    BY DEF OvershootInv, Next, Tick, Read, Decide, limiterVars, vars
<1>2. ASSUME NEW t \in Times, ~\E c \in Clients : Decide(c), StillHeld(t)
      PROVE  StillHeld(t)'
    BY <1>2, OnlyDecisions DEF StillHeld
<1>3. ASSUME NEW t \in Times, ~\E c \in Clients : Decide(c), Settled(t)
      PROVE  Settled(t)'
  <2>1. Late(t)' \subseteq Late(t) /\ clock' > t + Window
      BY <1>3, NobodyNewIsLate DEF Settled
  <2>2. Cardinality(Late(t)') <= Cardinality(Late(t)) /\ IsFiniteSet(Late(t)')
      BY <2>1, LateFinite, FS_Subset
  <2>3. Cardinality(Late(t)') \in Nat /\ AdmittedIn(t, t + Window) \in Nat
      BY <1>0, <2>2, FS_CardinalityType, BetweenFinite DEF AdmittedIn, Between
  <2>4. AdmittedIn(t, t + Window)' = AdmittedIn(t, t + Window)
      BY <1>3, OnlyDecisions DEF AdmittedIn
  <2>5. AdmittedIn(t, t + Window)' + Cardinality(Late(t)') < Limit + Cardinality(Clients)
      BY <1>0, <1>3, <2>2, <2>3, <2>4, LateFinite DEF Settled
  <2> QED
      BY <2>1, <2>5 DEF Settled
<1>4. ASSUME NEW t \in Times, NEW c \in Clients, Decide(c)
      PROVE  StillHeld(t)' \/ Settled(t)'
  <2>1. PICK n \in 0..Len(events) :
          /\ Dropped \in Nat /\ Len(admitted) \in Nat /\ Dropped' = Dropped + n
          /\ \A i \in (Dropped + 1)..(Dropped + n) : admitted[i] < now[c] - Window
          /\ \A i \in 1..Len(admitted) : admitted'[i] = admitted[i]
          /\ \/ admitted' = admitted
             \/ /\ Len(admitted') = Len(admitted) + 1
                /\ admitted'[Len(admitted) + 1] = now[c]
      BY <1>4, Decision
  <2>2. /\ pc[c] = "decide" /\ now[c] \in Nat /\ now[c] <= clock /\ clock \in Nat /\ t \in Nat
        /\ n \in Nat /\ Dropped + n <= Len(admitted) /\ clock' = clock
    <3>1. n <= Len(events) /\ n \in Nat
        BY <1>4, Decision, DequeHolds, <2>1
    <3>2. Dropped + n <= Len(admitted)
        BY <3>1, DequeHolds
    <3>3. now[c] \in Times /\ clock \in Times /\ now[c] <= clock
        BY DEF OrderInv, TypeOK, ReadBefore
    <3> QED
        BY <1>4, <3>1, <3>2, <3>3 DEF Decide, Times
  <2> DEFINE Before == AdmittedIn(t, t + Window)
             After  == AdmittedIn(t, t + Window)'
  <2>3. Before = Cardinality(Between(admitted, t, t + Window))
        /\ After = Cardinality(Between(admitted', t, t + Window))
        /\ Before \in Nat /\ After \in Nat
    <3>1. Before = Cardinality(Between(admitted, t, t + Window))
        BY DEF AdmittedIn, Between
    <3>2. After = Cardinality(Between(admitted', t, t + Window))
        BY DEF AdmittedIn, Between
    <3> QED
        BY <1>0, <3>1, <3>2, BetweenFinite
  <2>4. now[c] \notin t..(t + Window) => After = Before
      BY <1>0, <2>1, <2>3, CountOfOneMore
  <2>5. After <= Before + 1
    <3>1. IsFiniteSet(Between(admitted, t, t + Window))
        BY <1>0, BetweenFinite
    <3>2. CASE Between(admitted', t, t + Window) = Between(admitted, t, t + Window)
        BY <2>3, <3>2
    <3>3. CASE Between(admitted', t, t + Window) =
                   Between(admitted, t, t + Window) \cup {Len(admitted) + 1}
      <4>1. \/ After = Before
            \/ After = Before + 1
          BY <2>3, <3>1, <3>3, FS_AddElement
      <4> QED
          BY <2>3, <4>1
    <3> QED
        BY <1>0, <2>1, <3>2, <3>3, CountOfOneMore
  <2> HIDE DEF Before, After
  <2>6. Late(t)' = Late(t) \ {c}
    <3>1. pc \in [Clients -> {"idle", "decide"}] /\ now \in [Clients -> Times]
        BY DEF OrderInv, TypeOK
    <3>2. /\ \A e \in Clients : e # c => now'[e] = now[e] /\ pc'[e] = pc[e]
          /\ pc'[c] = "idle"
        BY <1>4, <3>1 DEF Decide
    <3> QED
        BY <3>2 DEF Late
  \* Nothing that the window counts was dropped before: if something is now,
  \* the window is over, and this request is not of it.
  <2>7. CASE StillHeld(t) /\ ~StillHeld(t)'
    <3>1. PICK i \in 1..Dropped' : admitted'[i] \in t..(t + Window)
        BY <2>7 DEF StillHeld
    <3>2. i \in 1..Len(admitted) /\ admitted'[i] = admitted[i]
        BY <2>1, <2>2
    <3>3. i \in (Dropped + 1)..(Dropped + n)
        BY <2>1, <2>2, <2>7, <3>1, <3>2 DEF StillHeld
    <3>4. admitted[i] < now[c] - Window /\ admitted[i] >= t /\ admitted[i] \in Nat
        BY <2>1, <2>2, <3>1, <3>2, <3>3
    <3>5. now[c] > t + Window
        BY <1>0, <2>2, <3>4
    <3>6. clock > t + Window /\ now[c] \notin t..(t + Window)
        BY <1>0, <2>2, <3>5
    <3>7. c \notin Late(t) /\ Late(t)' = Late(t)
        BY <2>6, <3>6 DEF Late
    <3>8. Before <= Limit
        BY <2>7, Held DEF Before, HeldIsShort, StillHeld
    <3>9. Cardinality(Late(t)) < Cardinality(Clients)
        BY <3>7, LateFinite
    <3>10. After + Cardinality(Late(t)') < Limit + Cardinality(Clients)
        BY <1>0, <2>3, <2>4, <3>6, <3>7, <3>8, <3>9, LateFinite
    <3> QED
        BY <2>2, <3>6, <3>10 DEF Settled, After
  <2>8. CASE Settled(t)
    <3>1. Before + Cardinality(Late(t)) < Limit + Cardinality(Clients)
          /\ clock > t + Window
        BY <2>8 DEF Settled, Before
    <3>2. Cardinality(Late(t)) \in Nat /\ Cardinality(Clients) \in Nat
        BY LateFinite
    <3>3. After + Cardinality(Late(t)') <= Before + Cardinality(Late(t))
      <4>1. CASE c \in Late(t)
        <5>1. Cardinality(Late(t)') = Cardinality(Late(t)) - 1
            BY <2>6, <4>1, LateFinite
        <5> QED
            BY <2>3, <2>5, <3>2, <5>1
      <4>2. CASE c \notin Late(t)
        <5>1. now[c] \notin t..(t + Window) /\ Late(t)' = Late(t)
            BY <2>2, <2>6, <4>2 DEF Late
        <5> QED
            BY <2>3, <2>4, <3>2, <5>1
      <4> QED
          BY <4>1, <4>2
    <3>4. Cardinality(Late(t)') \in Nat
      <4>1. Late(t)' \subseteq Late(t)
          BY <2>6
      <4> QED
          BY <4>1, LateFinite, FS_Subset, FS_CardinalityType
    <3>5. After + Cardinality(Late(t)') < Limit + Cardinality(Clients)
        BY <1>0, <2>3, <3>1, <3>2, <3>3, <3>4
    <3> QED
        BY <2>2, <3>1, <3>5 DEF Settled, After
  <2> QED
      BY <2>7, <2>8 DEF OvershootInv
<1> QED
    BY <1>1, <1>2, <1>3, <1>4 DEF OvershootInv

\* Whoever overtakes whom, no window admits the limit and a request of every
\* thread: allow is wrong by less than the number of threads.
THEOREM OvershootHasABound == GatewaySpec => []OvershootIsBounded
<1>1. GatewayInit => OrderInv /\ OvershootInv
    BY OrderInit, OvershootInit DEF GatewayInit
<1>2. OrderInv /\ OvershootInv => OvershootIsBounded
  <2> SUFFICES ASSUME OrderInv, OvershootInv, NEW t \in Times
               PROVE  AdmittedIn(t, t + Window) < Limit + Cardinality(Clients)
      BY DEF OvershootIsBounded
  <2>1. admitted \in Seq(Times) /\ Limit \in Nat \ {0}
      BY LimiterAssumption DEF OrderInv, TypeOK
  <2>2. AdmittedIn(t, t + Window) \in Nat
      BY <2>1, BetweenFinite DEF AdmittedIn, Between
  <2>3. Cardinality(Late(t)) \in Nat /\ Cardinality(Clients) \in Nat
      BY LateFinite
  <2>4. CASE Settled(t)
      BY <2>1, <2>2, <2>3, <2>4 DEF Settled
  <2>5. CASE StillHeld(t) /\ Clients # {}
    <3>1. AdmittedIn(t, t + Window) <= Limit
        BY <2>5, Held DEF HeldIsShort, StillHeld
    <3>2. Cardinality(Clients) # 0
        BY <2>5, GatewayAssumption, FS_EmptySet
    <3> QED
        BY <2>1, <2>2, <2>3, <3>1, <3>2
  <2>6. CASE admitted = <<>>
    <3>1. AdmittedIn(t, t + Window) = 0
        BY <2>6, FS_EmptySet DEF AdmittedIn
    <3> QED
        BY <2>1, <2>3, <3>1
  <2> QED
      BY <2>4, <2>5, <2>6 DEF OvershootInv
<1> QED
    BY <1>1, <1>2, OrderStep, OvershootStep, GatewayLimits, PTL DEF GatewaySpec

-----------------------------------------------------------------------------
(***************************************************************************)
(* What an answer tells.                                                   *)
(***************************************************************************)

RequestTypes ==
    /\ waiting \in [Callers -> Clients \cup {NoThread}]
    /\ gaveUp \in [Callers -> Nat]
    /\ caller \in [Clients -> Callers \cup {NoCaller}]
    /\ kind \in [Clients -> Kinds]
    /\ stage \in [Clients -> {"free", "received", "limit", "check", "work", "answer", "apology"}]
    /\ status \in [Clients -> {"none", "ok", "refused", "failed"}]
    /\ carriedOut \in [Clients -> BOOLEAN]

\* Nothing is done, and nothing decided, before the operation.
GatesComeFirst ==
    \A c \in Clients :
        stage[c] \in {"free", "received", "limit", "check", "work"} => ~carriedOut[c] /\ status[c] = "none"

\* A GET is answered without going through the other gates.
GetIsShort == \A c \in Clients : kind[c] = "get" => stage[c] \notin {"limit", "check", "work"}

AnswerInv == RequestTypes /\ GatesComeFirst /\ GetIsShort /\ AnswerTellsWhatWasDone

LEMMA AnswerInit == GatewayInit => AnswerInv
BY DEF GatewayInit, AnswerInv, RequestTypes, GatesComeFirst, GetIsShort, AnswerTellsWhatWasDone, Kinds

LEMMA AnswerStep == AnswerInv /\ [GatewayNext]_gatewayVars => AnswerInv'
<1> SUFFICES ASSUME AnswerInv, [GatewayNext]_gatewayVars
             PROVE  AnswerInv'
    OBVIOUS
<1>0. \A k \in Callers : gaveUp[k] + 1 \in Nat
  <2>1. \A k \in Callers : gaveUp[k] \in Nat
      BY DEF AnswerInv, RequestTypes
  <2> QED
      BY <2>1
<1> USE DEF AnswerInv, RequestTypes, GatesComeFirst, GetIsShort, AnswerTellsWhatWasDone, Kinds,
            callerVars, requestVars, GoTo, Answers
<1>1. CASE UNCHANGED <<callerVars, requestVars>>
    BY <1>1
<1>2. ASSUME NEW k \in Callers, NEW c \in Clients, NEW r \in Kinds, Send(k, c, r)
      PROVE  AnswerInv'
    BY <1>2 DEF Send
<1>3. ASSUME NEW k \in Callers, Timeout(k)
      PROVE  AnswerInv'
  <2>1. waiting' \in [Callers -> Clients \cup {NoThread}]
      BY <1>3 DEF Timeout
  <2> DEFINE n == gaveUp[k] + 1
  <2>2. n \in Nat /\ gaveUp' = [gaveUp EXCEPT ![k] = n]
    <3>1. n \in Nat
        BY <1>0
    <3>2. gaveUp' = [gaveUp EXCEPT ![k] = n]
        BY <1>3 DEF Timeout
    <3> QED
        BY <3>1, <3>2
  <2> HIDE DEF n
  <2>3. gaveUp' \in [Callers -> Nat]
      BY <2>2
  <2>4. UNCHANGED requestVars
      BY <1>3 DEF Timeout
  <2> QED
      BY <2>1, <2>3, <2>4
<1>4. ASSUME NEW c \in Clients, Gates(c)
      PROVE  AnswerInv'
  <2>1. CASE Get(c)
      BY <2>1 DEF Get
  <2>2. CASE Tls(c)
      BY <2>2 DEF Tls
  <2>3. CASE Arrive(c)
      BY <1>1, <2>3 DEF Arrive
  <2>4. CASE Limit429(c)
      BY <2>4 DEF Limit429
  <2>5. CASE Check(c)
      BY <2>5 DEF Check
  <2> QED
      BY <1>4, <2>1, <2>2, <2>3, <2>4, <2>5 DEF Gates
<1>5. ASSUME NEW c \in Clients, Operation(c)
      PROVE  AnswerInv'
  <2>1. CASE NotFound(c)
      BY <2>1 DEF NotFound
  <2>2. CASE Work(c)
      BY <2>2 DEF Work
  <2>3. CASE Raise(c)
      BY <2>3 DEF Raise
  <2> QED
      BY <1>5, <2>1, <2>2, <2>3 DEF Operation
<1>6. ASSUME NEW c \in Clients, Respond(c)
      PROVE  AnswerInv'
    BY <1>6 DEF Respond, Ends
<1>7. ASSUME NEW c \in Clients, RespondToNobody(c)
      PROVE  AnswerInv'
  <2>1. UNCHANGED <<callerVars, limiterVars>>
      BY <1>7 DEF RespondToNobody
  <2>2. CASE Ends(c)
    <3>1. RequestTypes'
        BY <2>1, <2>2 DEF Ends
    <3>2. GatesComeFirst' /\ GetIsShort'
        BY <2>2 DEF Ends
    <3>3. AnswerTellsWhatWasDone'
        BY <2>2 DEF Ends
    <3> QED
        BY <3>1, <3>2, <3>3
  <2>3. CASE /\ GoTo(c, "apology") /\ status' = [status EXCEPT ![c] = "failed"]
             /\ UNCHANGED <<caller, kind, carriedOut>>
    <3>1. RequestTypes'
        BY <2>1, <2>3
    <3>2. GatesComeFirst' /\ GetIsShort'
        BY <2>3
    <3>3. AnswerTellsWhatWasDone'
        BY <2>3
    <3> QED
        BY <3>1, <3>2, <3>3
  <2> QED
      BY <1>7, <2>2, <2>3 DEF RespondToNobody
<1> QED
    BY <1>1, <1>2, <1>3, <1>4, <1>5, <1>6, <1>7 DEF GatewayNext, Later, gatewayVars

\* Refused: nothing was done.  Ok: everything was.
THEOREM AnswersTell == GatewaySpec => []AnswerTellsWhatWasDone
<1>1. AnswerInv => AnswerTellsWhatWasDone
    BY DEF AnswerInv
<1> QED
    BY AnswerInit, AnswerStep, <1>1, PTL DEF GatewaySpec

-----------------------------------------------------------------------------
(***************************************************************************)
(* One request at a time.                                                  *)
(***************************************************************************)

\* The requests of caller k that nobody waits for.
Abandoned(k) == {c \in Clients : caller[c] = k /\ waiting[k] # c}

\* A caller waits for a thread that serves it, and free threads serve nobody.
WaitsForOwn ==
    /\ \A k \in Callers : waiting[k] # NoThread => caller[waiting[k]] = k
    /\ \A c \in Clients : stage[c] = "free" <=> caller[c] = NoCaller

\* Each request nobody waits for was given up on once.
GivenUp == \A k \in Callers : Cardinality(Abandoned(k)) <= gaveUp[k]

OverlapInv == RequestTypes /\ WaitsForOwn /\ GivenUp

LEMMA OverlapInit == GatewayInit => OverlapInv
<1> SUFFICES ASSUME GatewayInit
             PROVE  OverlapInv
    OBVIOUS
<1>1. \A k \in Callers : Abandoned(k) = {}
    BY GatewayAssumption DEF GatewayInit, Abandoned
<1>2. GivenUp
    BY <1>1, FS_EmptySet DEF GivenUp, GatewayInit
<1> QED
    BY <1>2 DEF GatewayInit, OverlapInv, RequestTypes, WaitsForOwn, Kinds

LEMMA AbandonedFinite ==
    ASSUME NEW k \in Callers
    PROVE  /\ IsFiniteSet(Abandoned(k)) /\ Cardinality(Abandoned(k)) \in Nat
           /\ \A c : /\ IsFiniteSet(Abandoned(k) \cup {c})
                    /\ Cardinality(Abandoned(k) \cup {c}) <= Cardinality(Abandoned(k)) + 1
<1>1. Abandoned(k) \in SUBSET Clients
    BY DEF Abandoned
<1>2. IsFiniteSet(Abandoned(k)) /\ Cardinality(Abandoned(k)) \in Nat
    BY <1>1, GatewayAssumption, FS_Subset, FS_CardinalityType
<1>3. ASSUME NEW c
      PROVE  /\ IsFiniteSet(Abandoned(k) \cup {c})
             /\ \/ Cardinality(Abandoned(k) \cup {c}) = Cardinality(Abandoned(k))
                \/ Cardinality(Abandoned(k) \cup {c}) = Cardinality(Abandoned(k)) + 1
    BY <1>2, FS_AddElement
<1> QED
    BY <1>2, <1>3

\* Where no more is abandoned than before, and giving up is not forgotten.
LEMMA NoMoreAbandoned ==
    ASSUME OverlapInv, gaveUp' = gaveUp, \A k \in Callers : Abandoned(k)' \subseteq Abandoned(k)
    PROVE  GivenUp'
<1> SUFFICES ASSUME NEW k \in Callers
             PROVE  Cardinality(Abandoned(k)') <= gaveUp'[k]
    BY DEF GivenUp
<1>1. gaveUp[k] \in Nat /\ Cardinality(Abandoned(k)) <= gaveUp[k]
    BY DEF OverlapInv, RequestTypes, GivenUp
<1>2. Cardinality(Abandoned(k)') <= Cardinality(Abandoned(k)) /\ IsFiniteSet(Abandoned(k)')
    BY AbandonedFinite, FS_Subset
<1>3. Cardinality(Abandoned(k)') \in Nat
    BY <1>2, FS_CardinalityType
<1> QED
    BY <1>1, <1>2, <1>3, AbandonedFinite

LEMMA OverlapStep == AnswerInv /\ OverlapInv /\ [GatewayNext]_gatewayVars => OverlapInv'
<1> SUFFICES ASSUME AnswerInv, OverlapInv, [GatewayNext]_gatewayVars
             PROVE  OverlapInv'
    OBVIOUS
<1> USE GatewayAssumption DEF callerVars, requestVars, GoTo
<1>0. /\ DOMAIN caller = Clients /\ DOMAIN waiting = Callers /\ DOMAIN stage = Clients
      /\ \A k \in Callers : waiting[k] \in Clients \cup {NoThread}
      /\ \A c \in Clients : caller[c] \in Callers \cup {NoCaller}
    BY DEF OverlapInv, RequestTypes
<1>1. RequestTypes'
    BY AnswerStep DEF AnswerInv
<1>2. CASE UNCHANGED <<waiting, gaveUp, caller, stage>>
  <2>1. \A k \in Callers : Abandoned(k)' = Abandoned(k)
      BY <1>2 DEF Abandoned
  <2> QED
      BY <1>1, <1>2, <2>1, NoMoreAbandoned DEF OverlapInv, WaitsForOwn
<1>3. ASSUME NEW j \in Callers, NEW c \in Clients, NEW r \in Kinds, Send(j, c, r)
      PROVE  OverlapInv'
  <2>1. /\ waiting[j] = NoThread /\ stage[c] = "free" /\ gaveUp' = gaveUp
        /\ waiting' = [waiting EXCEPT ![j] = c] /\ caller' = [caller EXCEPT ![c] = j]
        /\ stage' = [stage EXCEPT ![c] = "received"]
      BY <1>3 DEF Send
  <2>2. caller[c] = NoCaller
      BY <2>1 DEF OverlapInv, WaitsForOwn
  <2>3. \A k \in Callers : Abandoned(k)' \subseteq Abandoned(k)
      BY <2>1, <1>0 DEF Abandoned
  <2>4. WaitsForOwn'
      BY <2>1, <2>2, <1>0 DEF OverlapInv, WaitsForOwn
  <2> QED
      BY <1>1, <2>1, <2>3, <2>4, NoMoreAbandoned DEF OverlapInv
<1>4. ASSUME NEW j \in Callers, Timeout(j)
      PROVE  OverlapInv'
  <2>1. /\ waiting[j] # NoThread /\ waiting' = [waiting EXCEPT ![j] = NoThread]
        /\ gaveUp' = [gaveUp EXCEPT ![j] = gaveUp[j] + 1] /\ UNCHANGED <<caller, stage>>
      BY <1>4 DEF Timeout
  <2>2. WaitsForOwn'
      BY <2>1, <1>0 DEF OverlapInv, WaitsForOwn
  <2>3. ASSUME NEW k \in Callers
        PROVE  Cardinality(Abandoned(k)') <= gaveUp'[k]
    <3>1. gaveUp[k] \in Nat /\ Cardinality(Abandoned(k)) <= gaveUp[k]
        BY DEF OverlapInv, RequestTypes, GivenUp
    <3>2. CASE k = j
      <4>1. Abandoned(k)' = Abandoned(k) \cup {waiting[j]}
          BY <2>1, <3>2, <1>0 DEF Abandoned, OverlapInv, WaitsForOwn
      <4>2. Cardinality(Abandoned(k)') <= Cardinality(Abandoned(k)) + 1
          BY <4>1, AbandonedFinite
      <4>3. Cardinality(Abandoned(k)') \in Nat
          BY <4>1, AbandonedFinite, FS_CardinalityType
      <4>4. gaveUp'[k] = gaveUp[k] + 1
          BY <2>1, <3>2 DEF OverlapInv, RequestTypes
      <4> QED
          BY <3>1, <4>2, <4>3, <4>4, AbandonedFinite
    <3>3. CASE k # j
      <4>1. Abandoned(k)' = Abandoned(k) /\ gaveUp'[k] = gaveUp[k]
          BY <2>1, <3>3, <1>0 DEF Abandoned
      <4> QED
          BY <3>1, <4>1
    <3> QED
        BY <3>2, <3>3
  <2> QED
      BY <1>1, <2>2, <2>3 DEF OverlapInv, GivenUp
<1>5. ASSUME NEW c \in Clients, Gates(c) \/ Operation(c)
      PROVE  OverlapInv'
  <2>1. UNCHANGED <<waiting, gaveUp, caller>>
      BY <1>5
      DEF Gates, Get, Tls, Arrive, Limit429, Check, Operation, NotFound, Work, Raise
  <2>2. \A d \in Clients : stage'[d] = "free" <=> stage[d] = "free"
      BY <1>5, <1>0
      DEF Gates, Get, Tls, Arrive, Limit429, Check, Operation, NotFound, Work, Raise, Answers
  <2>3. \A k \in Callers : Abandoned(k)' = Abandoned(k)
      BY <2>1 DEF Abandoned
  <2>4. WaitsForOwn'
      BY <2>1, <2>2 DEF OverlapInv, WaitsForOwn
  <2> QED
      BY <1>1, <2>1, <2>3, <2>4, NoMoreAbandoned DEF OverlapInv
<1>6. ASSUME NEW c \in Clients, Respond(c)
      PROVE  OverlapInv'
  <2>1. /\ waiting[caller[c]] = c /\ waiting' = [waiting EXCEPT ![caller[c]] = NoThread]
        /\ stage[c] = "answer" /\ gaveUp' = gaveUp
        /\ stage' = [stage EXCEPT ![c] = "free"] /\ caller' = [caller EXCEPT ![c] = NoCaller]
      BY <1>6 DEF Respond, Ends
  <2>2. caller[c] \in Callers
      BY <2>1, <1>0 DEF OverlapInv, WaitsForOwn
  <2>3. WaitsForOwn'
      BY <2>1, <2>2, <1>0 DEF OverlapInv, WaitsForOwn
  <2>4. \A k \in Callers : Abandoned(k)' \subseteq Abandoned(k)
      BY <2>1, <2>2, <1>0 DEF Abandoned, OverlapInv, WaitsForOwn
  <2> QED
      BY <1>1, <2>1, <2>3, <2>4, NoMoreAbandoned DEF OverlapInv
<1>7. ASSUME NEW c \in Clients, RespondToNobody(c)
      PROVE  OverlapInv'
  <2>1. /\ waiting[caller[c]] # c /\ stage[c] \in {"answer", "apology"}
        /\ UNCHANGED <<waiting, gaveUp>>
      BY <1>7 DEF RespondToNobody
  <2>2. \/ caller' = [caller EXCEPT ![c] = NoCaller] /\ stage' = [stage EXCEPT ![c] = "free"]
        \/ caller' = caller /\ stage' = [stage EXCEPT ![c] = "apology"]
      BY <1>7 DEF RespondToNobody, Ends
  <2>3. caller[c] \in Callers /\ \A k \in Callers : waiting[k] # c
      BY <2>1, <1>0 DEF OverlapInv, WaitsForOwn
  <2>4. WaitsForOwn'
      BY <2>1, <2>2, <2>3, <1>0 DEF OverlapInv, WaitsForOwn
  <2>5. \A k \in Callers : Abandoned(k)' \subseteq Abandoned(k)
      BY <2>1, <2>2, <1>0 DEF Abandoned
  <2> QED
      BY <1>1, <2>1, <2>4, <2>5, NoMoreAbandoned DEF OverlapInv
<1> QED
    BY <1>2, <1>3, <1>4, <1>5, <1>6, <1>7 DEF GatewayNext, Later, gatewayVars

\* A caller's requests overlap only as often as it gave up on one.
THEOREM OverlapsAreOwed == GatewaySpec => []OverlapNeedsTimeout
<1>1. OverlapInv => OverlapNeedsTimeout
  <2> SUFFICES ASSUME OverlapInv, NEW k \in Callers
               PROVE  Cardinality({c \in Clients : caller[c] = k}) <= 1 + gaveUp[k]
      BY DEF OverlapNeedsTimeout
  <2> DEFINE Own == {c \in Clients : caller[c] = k}
  <2>1. Own \subseteq Abandoned(k) \cup {waiting[k]}
      BY DEF Abandoned
  <2>2. /\ IsFiniteSet(Abandoned(k) \cup {waiting[k]})
        /\ Cardinality(Abandoned(k) \cup {waiting[k]}) <= Cardinality(Abandoned(k)) + 1
      BY AbandonedFinite
  <2>3. /\ Cardinality(Own) <= Cardinality(Abandoned(k) \cup {waiting[k]})
        /\ Cardinality(Own) \in Nat
      BY <2>1, <2>2, FS_Subset, FS_CardinalityType
  <2>4. gaveUp[k] \in Nat /\ Cardinality(Abandoned(k)) <= gaveUp[k]
      BY DEF OverlapInv, RequestTypes, GivenUp
  <2>5. Cardinality(Abandoned(k) \cup {waiting[k]}) \in Nat /\ Cardinality(Abandoned(k)) \in Nat
      BY <2>2, AbandonedFinite, FS_CardinalityType
  <2> QED
      BY <2>2, <2>3, <2>4, <2>5
<1> QED
    BY AnswerInit, AnswerStep, OverlapInit, OverlapStep, <1>1, PTL DEF GatewaySpec
=============================================================================
