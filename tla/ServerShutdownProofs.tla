------------------------ MODULE ServerShutdownProofs ------------------------
(***************************************************************************)
(* Shutdown of the server, for any number of connections, called from the  *)
(* signal handler or from another thread: the safety half.  That the call  *)
(* ends, from another thread, is TLC's (ShutdownEnds); that it never does, *)
(* from the signal handler, is a theorem.                                  *)
(***************************************************************************)
EXTENDS ServerShutdown, TLAPS

\* The event says that the loop has ended, which clears the request.
LoopEnded ==
    /\ isShutDown <=> loop = "stopped"
    /\ loop = "stopped" => ~flag

ShutdownInv == TypeOK /\ LoopEnded /\ ReturnsAfterLoop

LEMMA ShutdownInit == Init => ShutdownInv
BY DEF Init, ShutdownInv, TypeOK, LoopEnded, ReturnsAfterLoop

\* What happens to a connection touches neither the loop nor the call.
LEMMA RequestsApart ==
    ASSUME ShutdownInv, NEW r \in Requests, Connect(r) \/ Accept(r) \/ Respond(r)
    PROVE  ShutdownInv'
BY DEF ShutdownInv, TypeOK, LoopEnded, ReturnsAfterLoop, Connect, Accept, Respond

LEMMA ShutdownStep == ShutdownInv /\ [Next]_vars => ShutdownInv'
<1> SUFFICES ASSUME ShutdownInv, [Next]_vars
             PROVE  ShutdownInv'
    OBVIOUS
<1> USE DEF ShutdownInv, TypeOK, LoopEnded, ReturnsAfterLoop
<1>1. CASE Serve
    BY <1>1 DEF Serve
<1>2. CASE Stop
    BY <1>2 DEF Stop
<1>3. CASE Shutdown
    BY <1>3 DEF Shutdown
<1>4. CASE Return
    BY <1>4 DEF Return
<1>5. CASE \E r \in Requests : Connect(r) \/ Accept(r) \/ Respond(r)
    BY <1>5, RequestsApart
<1>6. CASE UNCHANGED vars
    BY <1>6 DEF vars
<1> QED
    BY <1>1, <1>2, <1>3, <1>4, <1>5, <1>6 DEF Next

\* Every field in its range, and a request to stop is pending only while its
\* caller waits.
THEOREM ShutdownTypeCorrect == Spec => []TypeOK
<1>1. ShutdownInv => TypeOK
    BY DEF ShutdownInv
<1> QED
    BY ShutdownInit, ShutdownStep, <1>1, PTL DEF Spec

\* shutdown never returns before the accept loop has ended: the server_close
\* that the tests call next takes the socket from nobody.
THEOREM ClosesAfterLoop == Spec => []ReturnsAfterLoop
<1>1. ShutdownInv => ReturnsAfterLoop
    BY DEF ShutdownInv
<1> QED
    BY ShutdownInit, ShutdownStep, <1>1, PTL DEF Spec

-----------------------------------------------------------------------------
(***************************************************************************)
(* A signal (run_server): the handler waits for the loop under it.         *)
(***************************************************************************)

\* The loop leaves only on request, and who made it is still waiting.
NeverLeaves == loop # "stopped"

LEMMA SignalInit == Init => NeverLeaves
BY DEF Init, NeverLeaves

LEMMA SignalStep ==
    ASSUME InHandler
    PROVE  ShutdownInv /\ NeverLeaves /\ [Next]_vars => NeverLeaves'
<1> SUFFICES ASSUME ShutdownInv, NeverLeaves, [Next]_vars
             PROVE  NeverLeaves'
    OBVIOUS
<1>1. ~Stop
    BY DEF Stop, MainFree, ShutdownInv, TypeOK
<1> QED
    BY <1>1
    DEF NeverLeaves, Next, vars, Serve, Shutdown, Return, Connect, Accept, Respond

\* Once a signal has arrived nothing but the handlers of connections moves,
\* for any number of them: the loop stays where it is, and so does the call of
\* shutdown.
HangsForGood == caller = "waiting" => UNCHANGED <<loop, flag, isShutDown, caller>>

LEMMA SignalHangs ==
    ASSUME InHandler, ShutdownInv, NeverLeaves, [Next]_vars
    PROVE  HangsForGood
<1> SUFFICES ASSUME caller = "waiting"
             PROVE  UNCHANGED <<loop, flag, isShutDown, caller>>
    BY DEF HangsForGood
<1>1. ~MainFree /\ ~isShutDown
    BY DEF MainFree, ShutdownInv, LoopEnded, NeverLeaves
<1> QED
    BY <1>1 DEF Next, vars, Serve, Stop, Shutdown, Return, Connect, Accept, Respond

\* run_server cannot be stopped by a signal: from the first one on it hangs.
THEOREM SignalNeverEnds == ASSUME InHandler PROVE Spec => [][HangsForGood]_vars
<1>1. ShutdownInv /\ NeverLeaves /\ [Next]_vars => [HangsForGood]_vars
    BY SignalHangs
<1>2. ShutdownInv /\ NeverLeaves /\ [Next]_vars => NeverLeaves'
    BY SignalStep
<1> QED
    BY ShutdownInit, ShutdownStep, SignalInit, <1>1, <1>2, PTL DEF Spec

\* So the promise of a graceful shutdown on a signal is kept only in runs in
\* which no signal arrives.
THEOREM GracefulOnlyUnasked == ASSUME InHandler PROVE Spec /\ ShutdownEnds => [](caller # "waiting")
<1>1. ShutdownInv /\ NeverLeaves /\ [Next]_vars => NeverLeaves'
    BY SignalStep
<1>2. NeverLeaves => ~(loop = "stopped")
    BY DEF NeverLeaves
<1>3. ~(caller = "waiting") => caller # "waiting"
    OBVIOUS
<1> QED
    BY ShutdownInit, ShutdownStep, SignalInit, <1>1, <1>2, <1>3, PTL DEF Spec, ShutdownEnds
=============================================================================
