------------------------------ MODULE Service ------------------------------
(***************************************************************************)
(* The process around a reconciliation: the commands plan, apply and run   *)
(* (cmd/snipe-sync), the loop of run, signals and the exit code, and how a *)
(* cycle reads all its sources concurrently before it plans and applies    *)
(* (internal/app/service.go).  What is planned is the subject of Planner,  *)
(* how it is applied that of Apply: here a plan is a number of Snipe calls.*)
(***************************************************************************)
EXTENDS Integers, FiniteSets

CONSTANTS Sources,    \* the identity source, Snipe and the device sources
          MaxCalls,   \* bound: the calls of a plan
          MaxSignals  \* bound: signals sent to the process

ASSUME SourcesAssumption == Sources # {}
ASSUME BoundAssumption == MaxCalls \in Nat /\ MaxSignals \in Nat

Modes   == {"plan", "apply", "run"}
Signals == {"INT", "TERM"}
NoSignal == "none"
Over == {"exited", "killed"}  \* the process is gone, by itself or by a signal

VARIABLES
  mode,      \* the command
  pc,        \* where the main goroutine is
  fetch,     \* source -> "idle", "running", "ok" or "failed"
  group,     \* groupCtx is cancelled
  doomed,    \* the context was cancelled before the cycle began
  left,      \* the Snipe calls of the plan not made yet
  writing,   \* a Snipe call is outstanding
  bad,       \* the cycle has recorded a failure
  reported,  \* the report of a one-shot command: "no", "partly" or "whole"
  failed,    \* the command has returned an error
  timer,     \* the poll timer: "off", "running" or "fired"
  handler,   \* the signal goroutine: "waiting", "received", "stopped", "done"
  buffered,  \* the signal in the channel of capacity one
  cause,     \* context.Cause(ctx), NoSignal while ctx is not cancelled
  received,  \* the signal the goroutine took from the channel
  code,      \* the exit code, -1 while there is none
  signals,   \* history: how many signals were sent
  first,     \* history: the first signal delivered to the program
  late       \* history: cycles begun after the cancellation: "none", "one", "more"

main == <<mode, pc, reported, failed, code>>
cyc  == <<fetch, doomed, left, writing, bad>>
sig  == <<handler, buffered, cause, received, signals, first>>
vars == <<main, cyc, group, timer, sig, late>>

cancelled == cause # NoSignal

----------------------------------------------------------------------------
(* A cycle: Service.Reconcile.                                             *)

OneMore == IF late = "none" THEN "one" ELSE "more"

\* Fault: a cycle is given a context of its own.
Begin_OwnContext(from) ==
  /\ pc = from
  /\ pc' = "fetching"
  /\ fetch' = [s \in Sources |-> "running"]
  /\ group' = FALSE /\ doomed' = FALSE
  /\ left' = 0 /\ writing' = FALSE /\ bad' = FALSE
  /\ late' = IF cancelled THEN OneMore ELSE late
  /\ UNCHANGED <<mode, reported, failed, code, sig>>

Begin(from) ==
  /\ pc = from
  /\ pc' = "fetching"
  /\ fetch' = [s \in Sources |-> "running"]
  /\ group' = cancelled /\ doomed' = cancelled
  /\ left' = 0 /\ writing' = FALSE /\ bad' = FALSE
  /\ late' = IF cancelled THEN OneMore ELSE late
  /\ UNCHANGED <<mode, reported, failed, code, sig>>

\* A source has been read completely.  An answer may still arrive after the
\* group was cancelled, but no request is sent with a cancelled context.
FetchOk(s) ==
  /\ pc = "fetching" /\ fetch[s] = "running" /\ ~doomed
  /\ fetch' = [fetch EXCEPT ![s] = "ok"]
  /\ UNCHANGED <<main, group, doomed, left, writing, bad, timer, sig, late>>

\* A source fails: by itself, or because the group is cancelled.  The first
\* failure cancels the group.
FetchFailed(s) ==
  /\ pc = "fetching" /\ fetch[s] = "running"
  /\ fetch' = [fetch EXCEPT ![s] = "failed"]
  /\ group' = TRUE
  /\ UNCHANGED <<main, doomed, left, writing, bad, timer, sig, late>>

\* Fault: the group is not waited for once one source has failed.
Fetched_FirstError ==
  /\ pc = "fetching"
  /\ \/ \A s \in Sources : fetch[s] = "ok"
     \/ \E s \in Sources : fetch[s] = "failed"

\* group.Wait returns.
Fetched == pc = "fetching" /\ \A s \in Sources : fetch[s] # "running"

CycleFailed ==
  /\ Fetched /\ \E s \in Sources : fetch[s] = "failed"
  /\ pc' = "no plan" /\ bad' = TRUE
  /\ UNCHANGED <<mode, reported, failed, code, fetch, doomed, left, writing, group, timer, sig, late>>

\* Fault: a plan is made from the sources that could be read.
Planned_Partial(calls) ==
  /\ Fetched
  /\ IF mode = "plan" THEN pc' = "cycle over" /\ left' = 0 ELSE pc' = "applying" /\ left' = calls
  /\ UNCHANGED <<mode, reported, failed, code, fetch, doomed, writing, bad, group, timer, sig, late>>

\* The snapshots are complete and a plan is made of them, of so many calls.
Planned(calls) ==
  /\ Fetched /\ \A s \in Sources : fetch[s] = "ok"
  /\ IF mode = "plan" THEN pc' = "cycle over" /\ left' = 0 ELSE pc' = "applying" /\ left' = calls
  /\ UNCHANGED <<mode, reported, failed, code, fetch, doomed, writing, bad, group, timer, sig, late>>

\* The metadata does not resolve, or a condition cannot be evaluated.
PlanningFailed ==
  /\ Fetched /\ \A s \in Sources : fetch[s] = "ok"
  /\ pc' = "no plan" /\ bad' = TRUE
  /\ UNCHANGED <<mode, reported, failed, code, fetch, doomed, left, writing, group, timer, sig, late>>

Call ==
  /\ pc = "applying" /\ ~writing /\ left # 0 /\ ~cancelled
  /\ writing' = TRUE
  /\ UNCHANGED <<main, fetch, doomed, left, bad, group, timer, sig, late>>

\* The call comes back; a failure is recorded and the next one made.
Called(ok) ==
  /\ pc = "applying" /\ writing
  /\ writing' = FALSE /\ left' = left - 1
  /\ bad' = (bad \/ ~ok)
  /\ UNCHANGED <<main, fetch, doomed, group, timer, sig, late>>

\* apply returns, at its end or because the context is cancelled.
Applied ==
  /\ pc = "applying" /\ ~writing /\ (left = 0 \/ cancelled)
  /\ pc' = "cycle over"
  /\ bad' = (bad \/ left # 0)
  /\ UNCHANGED <<mode, reported, failed, code, fetch, doomed, left, writing, group, timer, sig, late>>

----------------------------------------------------------------------------
(* The loop, and the end of the process.                                   *)

\* The configuration does not load, or a client cannot be built from it.
StartFails ==
  /\ pc = "starting"
  /\ pc' = "returned" /\ failed' = TRUE
  /\ UNCHANGED <<mode, reported, code, cyc, group, timer, sig, late>>

CycleOver == pc \in {"cycle over", "no plan"}

\* Fault: an error in writing the report is dropped.
Report_ErrorDropped ==
  /\ CycleOver /\ mode # "run"
  /\ pc' = "returned"
  /\ reported' \in IF pc = "no plan" THEN {"no"} ELSE {"partly", "whole"}
  /\ failed' = bad
  /\ UNCHANGED <<mode, code, cyc, group, timer, sig, late>>

\* plan and apply write the report of a plan that was made, which may fail as
\* well, and return.
Report ==
  /\ CycleOver /\ mode # "run"
  /\ pc' = "returned"
  /\ reported' \in IF pc = "no plan" THEN {"no"} ELSE {"partly", "whole"}
  /\ failed' = (bad \/ reported' = "partly")
  /\ UNCHANGED <<mode, code, cyc, group, timer, sig, late>>

\* Fault: the timer is started before the context is looked at.
AfterCycle_TimerFirst ==
  /\ CycleOver /\ mode = "run"
  /\ timer' = "running"
  /\ pc' = IF cancelled THEN "returned" ELSE "sleeping"
  /\ UNCHANGED <<mode, reported, failed, code, cyc, group, sig, late>>

\* Fault: run does not look at the context.
AfterCycle_Unchecked ==
  /\ CycleOver /\ mode = "run"
  /\ pc' = "sleeping" /\ timer' = "running"
  /\ UNCHANGED <<mode, reported, failed, code, cyc, group, sig, late>>

\* Fault: run gives up after a failed cycle.
AfterCycle_StopsOnFailure ==
  /\ CycleOver /\ mode = "run"
  /\ IF cancelled \/ bad
     THEN pc' = "returned" /\ UNCHANGED timer
     ELSE pc' = "sleeping" /\ timer' = "running"
  /\ UNCHANGED <<mode, reported, failed, code, cyc, group, sig, late>>

\* run drops the result, looks at the context and then sleeps.
AfterCycle ==
  /\ CycleOver /\ mode = "run"
  /\ IF cancelled
     THEN pc' = "returned" /\ UNCHANGED timer
     ELSE pc' = "sleeping" /\ timer' = "running"
  /\ UNCHANGED <<mode, reported, failed, code, cyc, group, sig, late>>

TimerFires ==
  /\ timer = "running" /\ pc = "sleeping"
  /\ timer' = "fired"
  /\ UNCHANGED <<main, cyc, group, sig, late>>

\* The select of runLoop; with both channels ready it takes either.
WakeForCycle == timer = "fired" /\ Begin("sleeping") /\ timer' = "off"

WakeForShutdown ==
  /\ pc = "sleeping" /\ cancelled
  /\ pc' = "returned" /\ timer' = "off"
  /\ UNCHANGED <<mode, reported, failed, code, cyc, group, sig, late>>

CodeOf == [INT |-> 130, TERM |-> 143]

\* Fault: the error of the command is looked at before the cause.
ExitCode_ErrorFirst == IF failed THEN 1 ELSE IF cancelled THEN CodeOf[cause] ELSE 0

\* run() once the command has returned.  runLoop itself returns no error.
ExitCode == IF cancelled THEN CodeOf[cause] ELSE IF failed THEN 1 ELSE 0

\* The two reads of the cause are one here: it is set once, and a signal in
\* between is as good as one before the first or after the second.
Exit ==
  /\ pc = "returned"
  /\ pc' = "exited" /\ code' = ExitCode
  /\ UNCHANGED <<mode, reported, failed, cyc, group, timer, sig, late>>

----------------------------------------------------------------------------
(* Signals.                                                                *)

\* The operating system delivers a signal: to the channel, which drops what it
\* has no room for, until signal.Stop; after that it ends the process.
Signal(x) ==
  /\ pc \notin Over /\ signals < MaxSignals
  /\ signals' = signals + 1
  /\ IF handler \in {"waiting", "received"}
     THEN /\ buffered' = IF buffered = NoSignal THEN x ELSE buffered
          /\ first' = IF first = NoSignal THEN x ELSE first
          /\ UNCHANGED pc
     ELSE pc' = "killed" /\ UNCHANGED <<buffered, first>>
  /\ UNCHANGED <<mode, reported, failed, code, cyc, group, timer, handler, cause, received, late>>

Receive ==
  /\ pc \notin Over /\ handler = "waiting" /\ buffered # NoSignal
  /\ handler' = "received" /\ received' = buffered /\ buffered' = NoSignal
  /\ UNCHANGED <<main, cyc, group, timer, cause, signals, first, late>>

\* Fault: the context is cancelled before signals have their effect again.
StopNotify_AfterCancel ==
  /\ pc \notin Over
  /\ \/ handler = "received" /\ ~cancelled /\ cause' = received /\ group' = TRUE /\ UNCHANGED handler
     \/ handler = "received" /\ cancelled /\ handler' = "done" /\ UNCHANGED <<cause, group>>
  /\ UNCHANGED <<main, cyc, timer, buffered, received, signals, first, late>>

\* signal.Stop.
StopNotify ==
  /\ pc \notin Over /\ handler = "received"
  /\ handler' = "stopped"
  /\ UNCHANGED <<main, cyc, group, timer, buffered, cause, received, signals, first, late>>

\* cancel(cause).
CancelContext ==
  /\ pc \notin Over /\ handler = "stopped"
  /\ handler' = "done" /\ cause' = received /\ group' = TRUE
  /\ UNCHANGED <<main, cyc, timer, buffered, received, signals, first, late>>

----------------------------------------------------------------------------
Init ==
  /\ mode \in Modes /\ pc = "starting" /\ reported = "no" /\ failed = FALSE /\ code = -1
  /\ fetch = [s \in Sources |-> "idle"] /\ group = FALSE /\ doomed = FALSE
  /\ left = 0 /\ writing = FALSE /\ bad = FALSE /\ timer = "off"
  /\ handler = "waiting" /\ buffered = NoSignal /\ cause = NoSignal /\ received = NoSignal
  /\ signals = 0 /\ first = NoSignal /\ late = "none"

Main ==
  \/ StartFails
  \/ Begin("starting") /\ UNCHANGED timer
  \/ \E s \in Sources : FetchOk(s) \/ FetchFailed(s)
  \/ CycleFailed \/ PlanningFailed \/ \E calls \in 0..MaxCalls : Planned(calls)
  \/ Call \/ Applied \/ \E ok \in BOOLEAN : Called(ok)
  \/ Report \/ AfterCycle \/ TimerFires \/ WakeForCycle \/ WakeForShutdown \/ Exit

Handler == Receive \/ StopNotify \/ CancelContext

Gone == pc \in Over /\ UNCHANGED vars

Next == Main \/ Handler \/ Gone \/ \E x \in Signals : Signal(x)

\* Requests are answered or time out, and goroutines run.
Spec == Init /\ [][Next]_vars /\ WF_vars(Main) /\ WF_vars(Handler)

----------------------------------------------------------------------------
(* Properties.                                                             *)

\* What the values of the state are: of the cycle, of the signals, and numbers.
CycleShape ==
  /\ mode \in Modes
  /\ pc \in {"starting", "fetching", "applying", "no plan", "cycle over", "sleeping", "returned"} \cup Over
  /\ fetch \in [Sources -> {"idle", "running", "ok", "failed"}]
  /\ group \in BOOLEAN /\ doomed \in BOOLEAN /\ writing \in BOOLEAN /\ bad \in BOOLEAN
  /\ failed \in BOOLEAN /\ reported \in {"no", "partly", "whole"}
  /\ timer \in {"off", "running", "fired"} /\ late \in {"none", "one", "more"}

SignalShape ==
  /\ handler \in {"waiting", "received", "stopped", "done"}
  /\ {buffered, cause, received, first} \subseteq Signals \cup {NoSignal}

Numbers ==
  /\ left \in 0..MaxCalls
  /\ code \in {-1, 0, 1, 130, 143}
  /\ signals \in 0..MaxSignals

\* The state is well formed, and the timer runs in no other place than the
\* select of the loop.
TypeOK ==
  /\ CycleShape /\ SignalShape /\ Numbers
  /\ timer # "off" => pc \in {"sleeping", "killed"}

\* "If any configured source fails or returns an incomplete page set, that
\* cycle performs no writes" (README:119), nor does the plan command at all;
\* and while Snipe is written nothing is still being read.
WritesNeedAllSources ==
  (writing \/ (left # 0 /\ pc = "applying")) => mode # "plan" /\ \A s \in Sources : fetch[s] = "ok"

\* Cycles are serial: once a cycle is over, whatever its result, none of its
\* readers is still at work on the cached directory or on the providers.
NoStragglers == pc \notin {"fetching", "killed"} => \A s \in Sources : fetch[s] # "running"

\* After the cancellation no call is sent; run may begin one more cycle if the
\* timer fires at the same time, but that cycle does not get to its plan.
QuietAfterCancel ==
  /\ late # "more"
  /\ late = "one" => pc # "applying"

\* Once the cancellation can be seen, another signal ends the process, however
\* long the clean-up or an outstanding call takes (main.go:49-50).
SecondSignalKills == [][signals' > signals /\ cancelled => pc' = "killed"]_vars

\* The exit code names the first signal, even if more follow or the command
\* fails because of it, and otherwise says whether the command failed: 0 means
\* that every source was read, every call succeeded and the whole report was
\* written; 1 comes from a failed cycle only in the one-shot commands.
ExitCodeTells ==
  pc = "exited" =>
    /\ code = 130 <=> cause = "INT"
    /\ code = 143 <=> cause = "TERM"
    /\ cancelled => cause = first
    /\ code = 1 => ~cancelled /\ (mode = "run" => \A s \in Sources : fetch[s] = "idle")
    /\ code = 0 => /\ ~cancelled /\ mode # "run" /\ ~bad /\ left = 0
                   /\ reported = "whole" /\ \A s \in Sources : fetch[s] = "ok"

\* A signal ends the process, without a second one, and the one-shot commands
\* always end.
EndsWhenItShould == (signals > 0 \/ mode # "run") ~> pc \in Over

\* Once begun and without a signal the loop of run goes on for ever, whatever
\* fails.
LoopGoesOn ==
  <>(mode = "run" /\ pc = "fetching")
    => []<>(signals > 0 \/ pc = "fetching") /\ []<>(signals > 0 \/ pc = "sleeping")
=============================================================================
