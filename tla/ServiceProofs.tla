---------------------------- MODULE ServiceProofs ----------------------------
(***************************************************************************)
(* Service, proved for any set of sources and any number of calls and      *)
(* signals.                                                                *)
(***************************************************************************)
EXTENDS Service, TLAPS

AllOk == \A s \in Sources : fetch[s] = "ok"

\* Where the readers and the writer are while the main goroutine is somewhere.
WhereItIs ==
  /\ pc = "starting" => \A s \in Sources : fetch[s] = "idle"
  /\ pc \notin {"fetching", "killed"} => \A s \in Sources : fetch[s] # "running"
  /\ pc = "applying" => mode # "plan" /\ AllOk
  /\ writing => pc \in {"applying", "killed"} /\ mode # "plan" /\ AllOk
  /\ writing /\ pc = "applying" => left # 0
  /\ timer # "off" => pc \in {"sleeping", "killed"}
  /\ pc = "cycle over" => AllOk /\ (left # 0 => bad)
  /\ pc = "no plan" => bad
  /\ pc = "sleeping" => mode = "run"

\* A cycle begun after the cancellation gets no answer, so it makes no plan,
\* and it is the last one.
LateCycle ==
  /\ late # "none" => cancelled /\ doomed /\ pc \in {"fetching", "no plan", "returned"} \cup Over
  /\ late # "more"
  /\ doomed /\ pc = "fetching" => \A s \in Sources : fetch[s] # "ok"

\* The first signal on its way from the channel to the cause.
FirstSignal ==
  /\ handler = "waiting" => buffered = first /\ received = NoSignal
  /\ handler # "waiting" => received = first /\ first # NoSignal
  /\ cause = IF handler = "done" THEN received ELSE NoSignal

\* What the command returns, and the code that is made of it.
Returned ==
  /\ failed => pc \in {"returned"} \cup Over
  /\ pc \in {"returned", "exited"} =>
       IF mode = "run" THEN IF failed THEN \A s \in Sources : fetch[s] = "idle" ELSE cancelled
       ELSE ~failed => ~bad /\ left = 0 /\ reported = "whole" /\ AllOk
  /\ pc = "exited" => code = ExitCode

Control == WhereItIs /\ LateCycle /\ FirstSignal /\ Returned

IInv == CycleShape /\ SignalShape /\ Numbers /\ Control

----------------------------------------------------------------------------
\* A delivered signal is the first one, or changes nothing of the first one.
LEMMA DeliveryKeepsFirst ==
  ASSUME FirstSignal, NEW x \in Signals, Signal(x)
  PROVE  FirstSignal'
<1>1. UNCHANGED <<handler, cause, received>>
  BY DEF Signal
<1>2. CASE handler = "waiting"
  <2>1. buffered' = first'
    BY <1>2 DEF Signal, FirstSignal
  <2>. QED
    BY <1>1, <1>2, <2>1 DEF FirstSignal
<1>3. CASE handler # "waiting"
  <2>1. first' = first
    BY <1>3 DEF Signal, FirstSignal
  <2>. QED
    BY <1>1, <1>3, <2>1 DEF FirstSignal
<1>. QED
  BY <1>2, <1>3

\* Where the goroutines are, what was returned and which signal was first: kept
\* by every step, with no arithmetic.
LEMMA ControlStep ==
  ASSUME CycleShape, SignalShape, WhereItIs, LateCycle, FirstSignal, Returned, [Next]_vars
  PROVE  Control'
<1>. USE SourcesAssumption
     DEF CycleShape, SignalShape, Control, WhereItIs, LateCycle, FirstSignal, Returned, AllOk,
         ExitCode, CodeOf, cancelled, Over, Modes, Signals, NoSignal, main, cyc, sig
<1>1. CASE StartFails
  BY <1>1 DEF StartFails
<1>2. CASE Begin("starting") /\ UNCHANGED timer
  BY <1>2 DEF Begin, OneMore
<1>3. CASE WakeForCycle
  BY <1>3 DEF WakeForCycle, Begin, OneMore
<1>4. ASSUME NEW s \in Sources, FetchOk(s)
      PROVE  Control'
  BY <1>4 DEF FetchOk
<1>5. ASSUME NEW s \in Sources, FetchFailed(s)
      PROVE  Control'
  BY <1>5 DEF FetchFailed
<1>6. CASE CycleFailed
  BY <1>6 DEF CycleFailed, Fetched
<1>7. CASE PlanningFailed
  BY <1>7 DEF PlanningFailed, Fetched
<1>8. ASSUME NEW calls \in 0..MaxCalls, Planned(calls)
      PROVE  Control'
  BY <1>8, ZenonT(40) DEF Planned, Fetched
<1>9. CASE Call
  BY <1>9 DEF Call
<1>10. CASE Applied
  BY <1>10 DEF Applied
<1>11. ASSUME NEW ok \in BOOLEAN, Called(ok)
      PROVE  Control'
  BY <1>11 DEF Called
<1>12. CASE Report
  BY <1>12 DEF Report, CycleOver
<1>13. CASE AfterCycle
  BY <1>13, ZenonT(40) DEF AfterCycle, CycleOver
<1>14. CASE TimerFires
  BY <1>14 DEF TimerFires
<1>15. CASE WakeForShutdown
  BY <1>15 DEF WakeForShutdown
<1>16. CASE Exit
  BY <1>16 DEF Exit
<1>17. CASE Receive
  BY <1>17 DEF Receive
<1>18. CASE StopNotify
  BY <1>18 DEF StopNotify
<1>19. CASE CancelContext
  BY <1>19 DEF CancelContext
<1>20. ASSUME NEW x \in Signals, Signal(x)
      PROVE  Control'
  <2>1. WhereItIs' /\ LateCycle'
    BY <1>20 DEF Signal
  <2>2. FirstSignal'
    BY <1>20, DeliveryKeepsFirst
  <2>3. Returned'
    BY <1>20 DEF Signal
  <2>. QED
    BY <2>1, <2>2, <2>3
<1>21. CASE Gone \/ UNCHANGED vars
  <2>1. /\ UNCHANGED <<mode, pc, reported, failed, code, fetch, doomed, left, writing, bad>>
        /\ UNCHANGED <<timer, late, handler, buffered, cause, received, first>>
    BY <1>21 DEF Gone, vars
  <2>2. WhereItIs' /\ LateCycle'
    BY <2>1
  <2>3. FirstSignal' /\ Returned'
    BY <2>1, ZenonT(40)
  <2>. QED
    BY <2>2, <2>3
<1>. QED
  BY <1>1, <1>2, <1>3, <1>4, <1>5, <1>6, <1>7, <1>8, <1>9, <1>10, <1>11, <1>12, <1>13, <1>14,
     <1>15, <1>16, <1>17, <1>18, <1>19, <1>20, <1>21
     DEF Next, Main, Handler

\* The enumerations of the cycle.
LEMMA CycleShapeStep ==
  ASSUME CycleShape, [Next]_vars
  PROVE  CycleShape'
<1>. USE DEF CycleShape, Over, Modes, cancelled, main, cyc, sig
<1>1. CASE StartFails
  BY <1>1 DEF StartFails
<1>2. CASE Begin("starting") /\ UNCHANGED timer
  BY <1>2 DEF Begin, OneMore
<1>3. CASE WakeForCycle
  BY <1>3 DEF WakeForCycle, Begin, OneMore
<1>4. ASSUME NEW s \in Sources, FetchOk(s)
      PROVE  CycleShape'
  BY <1>4 DEF FetchOk
<1>5. ASSUME NEW s \in Sources, FetchFailed(s)
      PROVE  CycleShape'
  BY <1>5 DEF FetchFailed
<1>6. CASE CycleFailed
  BY <1>6 DEF CycleFailed, Fetched
<1>7. CASE PlanningFailed
  BY <1>7 DEF PlanningFailed, Fetched
<1>8. ASSUME NEW calls \in 0..MaxCalls, Planned(calls)
      PROVE  CycleShape'
  BY <1>8, ZenonT(40) DEF Planned, Fetched
<1>9. CASE Call
  BY <1>9 DEF Call
<1>10. CASE Applied
  BY <1>10 DEF Applied
<1>11. ASSUME NEW ok \in BOOLEAN, Called(ok)
      PROVE  CycleShape'
  BY <1>11 DEF Called
<1>12. CASE Report
  BY <1>12 DEF Report, CycleOver
<1>13. CASE AfterCycle
  BY <1>13 DEF AfterCycle, CycleOver
<1>14. CASE TimerFires
  BY <1>14 DEF TimerFires
<1>15. CASE WakeForShutdown
  BY <1>15 DEF WakeForShutdown
<1>16. CASE Exit
  BY <1>16 DEF Exit
<1>17. CASE Handler \/ (\E x \in Signals : Signal(x)) \/ Gone \/ UNCHANGED vars
  <2>1. /\ UNCHANGED <<mode, fetch, doomed, writing, bad, failed, reported, timer, late>>
        /\ pc' \in {pc, "killed"}
    BY <1>17 DEF Handler, Receive, StopNotify, CancelContext, Signal, Gone, vars
  <2>2. group' \in BOOLEAN
    BY <1>17 DEF Handler, Receive, StopNotify, CancelContext, Signal, Gone, vars
  <2>. QED
    BY <2>1, <2>2, ZenonT(40)
<1>. QED
  BY <1>1, <1>2, <1>3, <1>4, <1>5, <1>6, <1>7, <1>8, <1>9, <1>10, <1>11, <1>12, <1>13, <1>14,
     <1>15, <1>16, <1>17 DEF Next, Main

\* Only the handler and the operating system touch the signals.
LEMMA MainLeavesSignals == Main => UNCHANGED sig
BY DEF Main, StartFails, Begin, FetchOk, FetchFailed, CycleFailed, PlanningFailed, Planned,
       Call, Applied, Called, Report, AfterCycle, TimerFires, WakeForCycle, WakeForShutdown, Exit

\* The enumerations of the signals.
LEMMA SignalShapeStep ==
  ASSUME SignalShape, [Next]_vars
  PROVE  SignalShape'
<1>. USE DEF SignalShape, Signals, NoSignal, sig
<1>1. CASE Receive
  BY <1>1 DEF Receive
<1>2. CASE StopNotify
  BY <1>2 DEF StopNotify
<1>3. CASE CancelContext
  BY <1>3 DEF CancelContext
<1>4. ASSUME NEW x \in Signals, Signal(x)
      PROVE  SignalShape'
  BY <1>4 DEF Signal
<1>5. CASE Main \/ Gone \/ UNCHANGED vars
  BY <1>5, MainLeavesSignals DEF Gone, vars
<1>. QED
  BY <1>1, <1>2, <1>3, <1>4, <1>5 DEF Next, Handler

\* The numbers: the bound of the plan, the codes and the bound of the signals.
LEMMA NumbersStep ==
  ASSUME Numbers, SignalShape, pc = "applying" /\ writing => left # 0, [Next]_vars
  PROVE  Numbers'
<1>1. CASE Begin("starting") \/ WakeForCycle
  <2>1. left' = 0 /\ UNCHANGED <<code, signals>>
    BY <1>1 DEF Begin, WakeForCycle, sig
  <2>. QED
    BY <2>1, BoundAssumption DEF Numbers
<1>2. ASSUME NEW calls \in 0..MaxCalls, Planned(calls)
      PROVE  Numbers'
  <2>1. left' \in {0, calls} /\ UNCHANGED <<code, signals>>
    BY <1>2 DEF Planned, sig
  <2>. QED
    BY <2>1, BoundAssumption DEF Numbers
<1>3. ASSUME NEW ok \in BOOLEAN, Called(ok)
      PROVE  Numbers'
  <2>1. left' = left - 1 /\ left # 0 /\ UNCHANGED <<code, signals>>
    BY <1>3 DEF Called, main, sig
  <2>. QED
    BY <2>1, BoundAssumption DEF Numbers
<1>4. CASE Exit
  <2>1. UNCHANGED <<left, signals>>
    BY <1>4 DEF Exit, cyc, sig
  <2>2. code' \in {0, 1, 130, 143}
    BY <1>4, SignalShape DEF Exit, ExitCode, CodeOf, SignalShape, cancelled, Signals, NoSignal
  <2>. QED
    BY <2>1, <2>2 DEF Numbers
<1>5. ASSUME NEW x \in Signals, Signal(x)
      PROVE  Numbers'
  <2>1. signals < MaxSignals /\ signals' = signals + 1 /\ UNCHANGED <<left, code>>
    BY <1>5 DEF Signal, cyc
  <2>. QED
    BY <2>1, BoundAssumption DEF Numbers
<1>6. CASE UNCHANGED <<left, code, signals>>
  BY <1>6 DEF Numbers
<1>7. ASSUME \/ StartFails \/ CycleFailed \/ PlanningFailed \/ Call \/ Applied \/ Report
             \/ AfterCycle \/ TimerFires \/ WakeForShutdown \/ Handler \/ Gone \/ UNCHANGED vars
             \/ \E s \in Sources : FetchOk(s) \/ FetchFailed(s)
      PROVE  UNCHANGED <<left, code, signals>>
  BY <1>7
     DEF StartFails, FetchOk, FetchFailed, CycleFailed, PlanningFailed, Call, Applied, Report,
         AfterCycle, TimerFires, WakeForShutdown, Handler, Receive, StopNotify, CancelContext,
         Gone, vars, main, cyc, sig
<1>. QED
  BY <1>1, <1>2, <1>3, <1>4, <1>5, <1>6, <1>7 DEF Next, Main

----------------------------------------------------------------------------
\* The initial states are fine.
LEMMA InvInit == Init => IInv
<1>. SUFFICES ASSUME Init PROVE IInv
  OBVIOUS
<1>1. CycleShape
  BY DEF Init, CycleShape, Over, Modes
<1>2. SignalShape
  BY DEF Init, SignalShape, Signals, NoSignal
<1>3. Numbers
  BY BoundAssumption DEF Init, Numbers
<1>4. WhereItIs /\ LateCycle /\ FirstSignal /\ Returned
  BY DEF Init, WhereItIs, LateCycle, FirstSignal, Returned, Over
<1>. QED
  BY <1>1, <1>2, <1>3, <1>4 DEF IInv, Control

\* Every step keeps the invariant.
LEMMA InvStep == IInv /\ [Next]_vars => IInv'
<1>. SUFFICES ASSUME IInv, [Next]_vars PROVE IInv'
  OBVIOUS
<1>1. CycleShape /\ SignalShape /\ Numbers /\ WhereItIs /\ LateCycle /\ FirstSignal /\ Returned
  BY DEF IInv, Control
<1>2. pc = "applying" /\ writing => left # 0
  BY <1>1 DEF WhereItIs
<1>. QED
  BY <1>1, <1>2, ControlStep, CycleShapeStep, SignalShapeStep, NumbersStep DEF IInv

\* The inductive invariant: it holds in every reachable state.
THEOREM ServiceInvariant == Spec => []IInv
BY InvInit, InvStep, PTL DEF Spec

----------------------------------------------------------------------------
\* The states of the process are well formed.
THEOREM ServiceTypeCorrect == Spec => []TypeOK
<1>1. IInv => TypeOK
  BY DEF IInv, Control, WhereItIs, TypeOK
<1>. QED
  BY <1>1, ServiceInvariant, PTL

\* Snipe is only written once every source was read, and never by plan.
THEOREM WritesHaveAllSources == Spec => []WritesNeedAllSources
<1>1. IInv => WritesNeedAllSources
  BY DEF IInv, Control, WhereItIs, AllOk, WritesNeedAllSources
<1>. QED
  BY <1>1, ServiceInvariant, PTL

\* No reader outlives its cycle, so that cycles are serial.
THEOREM ReadersEndWithCycle == Spec => []NoStragglers
<1>1. IInv => NoStragglers
  BY DEF IInv, Control, WhereItIs, NoStragglers
<1>. QED
  BY <1>1, ServiceInvariant, PTL

\* After the cancellation at most one cycle begins, and it makes no plan.
THEOREM CancellationQuiets == Spec => []QuietAfterCancel
<1>1. IInv => QuietAfterCancel
  BY DEF IInv, Control, LateCycle, Over, QuietAfterCancel
<1>. QED
  BY <1>1, ServiceInvariant, PTL

\* The exit code tells the first signal, or whether the command failed.
THEOREM ExitCodeIsRight == Spec => []ExitCodeTells
<1>1. ASSUME IInv, pc = "exited"
      PROVE  ExitCodeTells
  <2>. USE DEF IInv, Control
  <2>1. code = IF cancelled THEN CodeOf[cause] ELSE IF failed THEN 1 ELSE 0
    BY <1>1 DEF Returned, ExitCode
  <2>2. cancelled => cause \in Signals /\ cause = first
    BY <1>1 DEF SignalShape, FirstSignal, cancelled, NoSignal, Signals
  <2>3. (code = 130 <=> cause = "INT") /\ (code = 143 <=> cause = "TERM")
    BY <2>1, <2>2 DEF cancelled, CodeOf, Signals, NoSignal
  <2>4. code = 1 => ~cancelled /\ failed
    BY <2>1, <2>2 DEF CodeOf, Signals
  <2>5. code = 0 => ~cancelled /\ ~failed
    BY <2>1, <2>2 DEF CodeOf, Signals, CycleShape
  <2>. QED
    BY <1>1, <2>2, <2>3, <2>4, <2>5 DEF Returned, AllOk, ExitCodeTells
<1>2. IInv => ExitCodeTells
  BY <1>1 DEF ExitCodeTells
<1>. QED
  BY <1>2, ServiceInvariant, PTL

\* Once the cancellation can be seen, a further signal ends the process.
THEOREM SecondSignalEnds == Spec => SecondSignalKills
<1>1. ASSUME IInv, [Next]_vars
      PROVE  [signals' > signals /\ cancelled => pc' = "killed"]_vars
  <2>1. CASE \E x \in Signals : Signal(x)
    <3>1. cancelled => handler = "done"
      BY <1>1 DEF IInv, Control, FirstSignal, cancelled
    <3>. QED
      BY <2>1, <3>1 DEF Signal
  <2>2. CASE Main \/ Handler \/ Gone \/ UNCHANGED vars
    <3>1. signals' = signals
      BY <2>2, MainLeavesSignals DEF Handler, Receive, StopNotify, CancelContext, Gone, vars, sig
    <3>2. signals \in Nat
      BY <1>1, BoundAssumption DEF IInv, Numbers
    <3>. QED
      BY <3>1, <3>2
  <2>. QED
    BY <1>1, <2>1, <2>2 DEF Next
<1>. QED
  BY <1>1, ServiceInvariant, PTL DEF Spec, SecondSignalKills
=============================================================================
