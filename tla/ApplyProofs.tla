---------------------------- MODULE ApplyProofs ----------------------------
(***************************************************************************)
(* Proofs about Apply, for any number of users and assets and any plans.   *)
(***************************************************************************)
EXTENDS Apply, FiniteSetTheorems, TLAPS

\* What an operation is.
LEMMA OpShape ==
  ASSUME NEW op \in Ops
  PROVE  \/ op[1] = "user" /\ op[2] \in Users /\ op = <<"user", op[2]>>
         \/ op[1] \in AssetPhases /\ op[2] \in Assets /\ op = <<op[1], op[2]>>
BY DEF Ops, UserOps, AssetOps

LEMMA OpsOfPlan ==
  /\ \A u \in Users : <<"user", u>> \in Ops
  /\ \A a \in Assets, kind \in AssetPhases : <<kind, a>> \in Ops
BY DEF Ops, UserOps, AssetOps

\* The index of a running pass names an item, and an operation.
LEMMA CurrentItem ==
  ASSUME TypeOK, phase # "returned", pos <= Size
  PROVE  /\ phase \in UserPhases => pos \in Users
         /\ phase \in AssetPhases => pos \in Assets
         /\ Current \in Ops
<1>1. phase \in UserPhases \/ phase \in AssetPhases
  BY DEF TypeOK
<1>2. pos \in Nat /\ pos >= 1
  BY DEF TypeOK
<1>3. phase \in UserPhases => pos \in Users
  BY <1>2, SizeAssumption DEF Size, Users
<1>4. phase \in AssetPhases => phase \notin UserPhases /\ pos \in Assets
  BY <1>2, SizeAssumption DEF Size, Assets, UserPhases, AssetPhases
<1>5. QED
  BY <1>1, <1>3, <1>4, OpsOfPlan DEF Current

LEMMA AnsweredType ==
  ASSUME TypeOK, NEW answer \in Status, NEW block
  PROVE  Answered(answer, block) \in [Ops -> Status]
BY DEF TypeOK, Answered, Status

\* Every variable keeps its type.
LEMMA TypeInductive == TypeOK /\ [Next]_vars => TypeOK'
<1> SUFFICES ASSUME TypeOK, [Next]_vars PROVE TypeOK'
  OBVIOUS
<1> USE SizeAssumption
<1>1. CASE Skip
  BY <1>1 DEF Skip, AtItem, TypeOK, Size, report
<1>2. CASE Interrupt
  BY <1>2 DEF Interrupt, AtItem, TypeOK, Size, report
<1>3. CASE StartCall
  BY <1>3 DEF StartCall, AtItem, TypeOK, Size, report
<1>4. CASE PassPatch
  <2>1. pos \in Assets /\ status' \in [Ops -> Status]
    BY <1>4, CurrentItem, AnsweredType DEF PassPatch, AtItem, Status, AssetPhases
  <2>2. QED
    BY <1>4, <2>1 DEF PassPatch, AtItem, TypeOK, Size, AssetOutcome
<1>5. CASE EndPass
  <2>1. checkoutID' \in [Assets -> 0..NU]
    BY <1>5 DEF EndPass, TypeOK, AllPlans, AssetPlans, Users
  <2>2. phase' \in UserPhases \cup AssetPhases \cup {"returned"}
    BY <1>5 DEF EndPass, NextPhase, TypeOK, UserPhases, AssetPhases
  <2>3. err' \in BOOLEAN
    BY <1>5 DEF EndPass, TypeOK
  <2>4. ~call' /\ pos' = 1 /\ UNCHANGED <<plan, cancelled, userIDs, failed, report, written>>
    BY <1>5 DEF EndPass
  <2>5. (call => phase # "returned" /\ pos <= Size)' /\ call' \in BOOLEAN
    BY <1>5 DEF EndPass, TypeOK
  <2>6. QED
    BY <2>1, <2>2, <2>3, <2>4, <2>5 DEF TypeOK, report
<1>6. CASE Cancel
  BY <1>6 DEF Cancel, TypeOK, Size, report, progress
<1>7. ASSUME NEW ok \in BOOLEAN, Finish(ok) PROVE TypeOK'
  <2>1. /\ pos' \in Nat /\ pos' >= 1 /\ ~call' /\ written' \subseteq Ops
        /\ UNCHANGED <<plan, phase, cancelled, checkoutID, err>>
        /\ (phase \in UserPhases => pos \in Users) /\ (phase \in AssetPhases => pos \in Assets)
    <3>1. Return(ok)
      BY <1>7 DEF Finish, FinishUser, FinishPatch, FinishCheckin, FinishCheckout
    <3>2. phase # "returned" /\ pos <= Size
      BY <3>1 DEF Return, TypeOK
    <3>3. QED
      BY <3>1, <3>2, CurrentItem DEF Return, TypeOK
  <2>2. status' \in [Ops -> Status]
    BY <1>7, AnsweredType DEF Finish, FinishUser, FinishPatch, FinishCheckin, FinishCheckout, Status
  <2> (call => phase # "returned" /\ pos <= Size)' /\ call' \in BOOLEAN
    BY <2>1, <1>7 DEF Finish, FinishUser, FinishPatch, FinishCheckin, FinishCheckout, Return
  <2>3. CASE FinishUser(ok)
    <3>1. userIDs' \in [Users -> 0..NU]
      BY <2>1, <2>3 DEF FinishUser, TypeOK, Users
    <3>2. usersApplied' \in Nat /\ userFailures' \in [Users -> Nat]
      BY <2>1, <2>3 DEF FinishUser, TypeOK
    <3>3. UNCHANGED <<failed, assetsApplied, assetFailures>>
      BY <2>3 DEF FinishUser
    <3>4. QED
      BY <2>1, <2>2, <3>1, <3>2, <3>3 DEF TypeOK
  <2>4. ASSUME NEW bad \in BOOLEAN, NEW last \in BOOLEAN, AssetOutcome(bad, last), phase \in AssetPhases
        PROVE  TypeOK'
    <3>1. failed' \in [Assets -> BOOLEAN]
      BY <2>1, <2>4 DEF AssetOutcome, TypeOK
    <3>2. assetsApplied' \in Nat /\ assetFailures' \in [Assets -> Nat]
      BY <2>1, <2>4 DEF AssetOutcome, TypeOK
    <3>3. UNCHANGED <<userIDs, usersApplied, userFailures>>
      BY <2>4 DEF AssetOutcome
    <3>4. QED
      BY <2>1, <2>2, <3>1, <3>2, <3>3 DEF TypeOK
  <2>5. CASE FinishPatch(ok)
    BY <2>4, <2>5 DEF FinishPatch, AssetPhases, TypeOK, AssignmentErr, NoAssignment
  <2>6. CASE FinishCheckin(ok)
    BY <2>4, <2>6 DEF FinishCheckin, AssetPhases
  <2>7. CASE FinishCheckout(ok)
    BY <2>4, <2>7 DEF FinishCheckout, AssetPhases
  <2>8. QED
    BY <1>7, <2>3, <2>5, <2>6, <2>7 DEF Finish
<1>8. CASE UNCHANGED vars
  BY <1>8 DEF vars, TypeOK, Size, report, progress
<1>9. QED
  BY <1>1, <1>2, <1>3, <1>4, <1>5, <1>6, <1>7, <1>8 DEF Next, System, Done

LEMMA TypeInit == Init => TypeOK
<1> SUFFICES ASSUME Init PROVE TypeOK
  OBVIOUS
<1>1. plan \in AllPlans
  BY PlansAssumption DEF Init
<1>2. status \in [Ops -> Status]
  BY DEF Init, InitialStatus, Status
<1>3. userIDs \in [Users -> 0..NU]
  BY SizeAssumption DEF Init, Users
<1>4. checkoutID \in [Assets -> 0..NU]
  BY SizeAssumption DEF Init
<1>5. call \in BOOLEAN /\ err \in BOOLEAN /\ cancelled \in BOOLEAN
  BY DEF Init
<1>6. ~call
  BY DEF Init
<1>7. failed \in [Assets -> BOOLEAN]
  BY DEF Init
<1>8. userFailures \in [Users -> Nat] /\ assetFailures \in [Assets -> Nat]
  BY DEF Init
<1>9. pos \in Nat /\ pos >= 1 /\ usersApplied \in Nat /\ assetsApplied \in Nat /\ written \subseteq Ops
  BY DEF Init
<1>10. phase \in UserPhases
  BY DEF Init, UserPhases
<1>11. QED
  BY <1>1, <1>2, <1>3, <1>4, <1>5, <1>6, <1>7, <1>8, <1>9, <1>10 DEF TypeOK

\* Every reachable state is well typed.
THEOREM TypeCorrect == Spec => []TypeOK
BY TypeInit, TypeInductive, PTL DEF Spec

----------------------------------------------------------------------------
(* The safety invariant.                                                   *)

\* A loop body that is about to call, or is calling, works on an operation
\* without a verdict that the loops have not passed.
LEMMA CurrentPending ==
  ASSUME Inv, phase # "returned", pos <= Size, Selected,
         phase = "patch" => plan.asset[pos].patch
  PROVE  /\ Current \in Ops
         /\ status[Current] = "not_attempted"
         /\ Current \notin written
         /\ Current[2] = pos /\ PassOf(Current) = phase
         /\ phase \in UserPhases => pos \in Users /\ Current = <<"user", pos>>
         /\ phase \in AssetPhases => pos \in Assets /\ Current = <<phase, pos>>
<1> USE DEF Inv
<1>1. /\ phase \in UserPhases => pos \in Users
      /\ phase \in AssetPhases => pos \in Assets
      /\ Current \in Ops
  BY CurrentItem
<1>2. CASE phase \in UserPhases
  <2>1. Current = <<"user", pos>> /\ plan.user[pos] = phase
    BY <1>2 DEF Current, Selected
  <2>2. PassOf(Current) = phase /\ Planned(Current)
    BY <2>1, <1>2 DEF PassOf, Planned, UserPhases
  <2>3. ~Passed(Current)
    BY <2>1, <2>2, <1>2 DEF Passed, TypeOK, Rank, UserPhases
  <2>4. QED
    BY <1>1, <1>2, <2>1, <2>2, <2>3 DEF VerdictsFollowLoop, ReportTruthful, AssetPhases, UserPhases
<1>3. CASE phase \in AssetPhases
  <2>1. Current = <<phase, pos>> /\ phase \notin UserPhases
    BY <1>3 DEF Current, AssetPhases, UserPhases
  <2>2. PassOf(Current) = phase /\ Planned(Current)
    BY <2>1, <1>3 DEF PassOf, Planned, AssetPhases, Selected
  <2>3. ~Passed(Current)
    BY <2>1, <2>2, <1>3 DEF Passed, TypeOK, Rank, AssetPhases
  <2>4. status[Current] # "blocked"
    BY <1>1, <2>1, <1>3 DEF VerdictsFollowLoop, FailedFollowsStatus, Selected, AssetPhases
  <2>5. QED
    BY <1>1, <1>3, <2>1, <2>2, <2>3, <2>4 DEF VerdictsFollowLoop, ReportTruthful, AssetPhases
<1>4. QED
  BY <1>2, <1>3 DEF TypeOK

\* What a step may do without disturbing what depends on attempts alone: keep
\* the verdicts, attempt nothing new, and keep the users looked up for
\* check-outs that were attempted.
StableStep ==
  /\ plan' = plan
  /\ \A a \in Assets : Attempted(<<"checkout", a>>) => checkoutID'[a] = checkoutID[a]
  /\ \A op \in Ops : status[op] # "not_attempted" => status'[op] = status[op]
  /\ \A op \in Ops : Attempted(op)' => Attempted(op)

LEMMA StableKeeps ==
  ASSUME Inv, StableStep
  PROVE  Prerequisites' /\ CheckoutHasRealUser' /\ PhaseBarrier'
<1> USE DEF Inv, StableStep
<1>1. \A op \in Ops : Settled(op) => Settled(op)'
  BY DEF Settled
<1>2. \A op \in Ops : Applied(op) => Applied(op)'
  BY DEF Applied
<1>3. \A a \in Assets : OwnerExists(a) => OwnerExists(a)'
  BY <1>2, OpsOfPlan DEF OwnerExists, TypeOK, AllPlans, AssetPlans, Users
<1>4. Prerequisites'
  BY <1>1, <1>3, OpsOfPlan DEF Prerequisites, AssetPhases
<1>5. CheckoutHasRealUser'
  BY OpsOfPlan DEF CheckoutHasRealUser, AssetPhases
<1>6. PhaseBarrier'
  <2>1. \A op \in Ops : status[op] # "not_attempted" => status'[op] # "not_attempted"
    OBVIOUS
  <2>2. QED
    BY <2>1, OpsOfPlan DEF PhaseBarrier, AssetPhases
<1>7. QED
  BY <1>4, <1>5, <1>6

\* Moving to the next index passes exactly the operation of the current one.
LEMMA Advance ==
  ASSUME TypeOK, phase' = phase, plan' = plan, pos' = pos + 1, NEW op \in Ops
  PROVE  Passed(op)' <=> Passed(op) \/ (PassOf(op) = phase /\ op[2] = pos)
<1>1. op[2] \in Nat
  BY OpShape, SizeAssumption DEF Users, Assets
<1>2. PassOf(op)' = PassOf(op)
  BY DEF PassOf
<1>3. QED
  BY <1>1, <1>2 DEF Passed, TypeOK, Rank

LEMMA SamePass ==
  ASSUME TypeOK, phase # "returned", NEW op \in Ops, PassOf(op) = phase, op[2] = pos
  PROVE  op = Current
<1>1. CASE op[1] = "user"
  <2>1. phase \in UserPhases
    BY <1>1, OpShape DEF PassOf, TypeOK, AllPlans, AssetPhases, UserPhases
  <2>2. QED
    BY <1>1, <2>1, OpShape DEF Current, AssetPhases
<1>2. CASE op[1] \in AssetPhases
  BY <1>2, OpShape DEF PassOf, Current, AssetPhases, UserPhases
<1>3. QED
  BY <1>1, <1>2, OpShape

\* How the status map may change when the loop finishes with an index.
AnswerStep ==
  /\ plan' = plan /\ phase' = phase /\ pos' = pos + 1
  /\ \A op \in Ops \ {Current} :
       \/ status'[op] = status[op]
       \/ /\ status[op] = "not_attempted" /\ status'[op] = "blocked"
          /\ op[1] \in {"checkin", "checkout"} /\ op[2] = pos
  /\ status'[Current] \notin {"not_attempted", "blocked"}
  /\ status'[Current] = "none" <=> ~Planned(Current)

LEMMA AnswerKeepsVerdicts ==
  ASSUME Inv, phase # "returned", pos <= Size, Selected, AnswerStep
  PROVE  VerdictsFollowLoop'
<1> USE DEF Inv, AnswerStep
<1>1. Current \in Ops
  BY CurrentItem
<1>2. ASSUME NEW op \in Ops PROVE Planned(op)' <=> Planned(op)
  BY DEF Planned
<1>3. ASSUME NEW op \in Ops PROVE status'[op] = "none" <=> ~Planned(op)'
  BY <1>1, <1>2 DEF VerdictsFollowLoop
<1>4. ASSUME NEW op \in Ops, status'[op] = "blocked" PROVE op[1] \in {"checkin", "checkout"}
  BY <1>1, <1>4 DEF VerdictsFollowLoop
<1>5. ASSUME NEW op \in Ops
      PROVE  IF Passed(op)' THEN status'[op] # "not_attempted"
                            ELSE status'[op] \in {"none", "not_attempted", "blocked"}
  <2>1. CASE op = Current
    <3>1. PassOf(op) = phase /\ op[2] = pos
      BY <2>1, <1>1 DEF Current, PassOf, Selected, TypeOK, UserPhases, AssetPhases
    <3>2. QED
      BY <2>1, <3>1, <1>1, Advance
  <2>2. CASE op # Current
    BY <2>2, Advance, SamePass DEF VerdictsFollowLoop
  <2>3. QED
    BY <2>1, <2>2
<1>6. QED
  BY <1>3, <1>4, <1>5 DEF VerdictsFollowLoop

LEMMA SkipKeepsInv == Inv /\ TypeOK' /\ Skip => Inv'
<1> SUFFICES ASSUME Inv, TypeOK', Skip PROVE Inv'
  OBVIOUS
<1> USE DEF Inv, Skip, AtItem
<1>1. StableStep
  BY DEF StableStep, Attempted, report
<1>2. VerdictsFollowLoop'
  <2>1. ASSUME NEW op \in Ops PROVE Planned(op)' <=> Planned(op)
    BY DEF Planned
  <2>2. ASSUME NEW op \in Ops, PassOf(op) = phase, op[2] = pos PROVE status[op] # "not_attempted"
    <3>1. op = Current /\ (phase \in AssetPhases => pos \in Assets)
      BY <2>2, SamePass, CurrentItem
    <3>2. CASE phase \in UserPhases
      BY <2>2, <3>1, <3>2 DEF Selected, Current, PassOf, UserPhases
    <3>3. CASE phase \in AssetPhases
      <4>1. op = <<phase, pos>>
        BY <3>1, <3>3 DEF Current, AssetPhases, UserPhases
      <4>2. failed[pos] \/ ~Planned(op)
        BY <4>1, <3>3 DEF Selected, Planned, AssetPhases, UserPhases, HasChanges
      <4>3. QED
        BY <4>1, <4>2, <3>1, <3>3, <2>2 DEF FailedFollowsStatus, VerdictsFollowLoop
    <3>4. QED
      BY <3>2, <3>3 DEF TypeOK
  <2>3. ASSUME NEW op \in Ops
        PROVE  IF Passed(op)' THEN status'[op] # "not_attempted"
                              ELSE status'[op] \in {"none", "not_attempted", "blocked"}
    BY <2>2, Advance DEF VerdictsFollowLoop, report
  <2>4. QED
    BY <2>1, <2>3 DEF VerdictsFollowLoop, report
<1>3. FailedFollowsStatus'
  <2>1. \A a \in Assets : a < pos => a < pos'
    BY SizeAssumption DEF Assets, TypeOK
  <2>2. failed' = failed /\ status' = status /\ phase' = phase
    BY DEF report
  <2>3. QED
    BY <2>1, <2>2 DEF FailedFollowsStatus
<1>4. IDsFollowStatus'
  <2>1. \A a \in Assets : /\ AssignmentErr(a)' <=> AssignmentErr(a)
                          /\ HasChanges(a)' <=> HasChanges(a)
    BY DEF AssignmentErr, HasChanges
  <2>2. ASSUME phase = "patch", NEW a \in Assets, a < pos', HasChanges(a) PROVE a < pos
    BY <2>2, SizeAssumption DEF Selected, Assets, TypeOK, UserPhases
  <2>3. QED
    BY <2>1, <2>2 DEF IDsFollowStatus, report, Applied
<1>5. CallIsSelected'
  BY DEF CallIsSelected
<1>6. ReportTruthful' /\ BlockedHasFailedPrerequisite'
  BY DEF ReportTruthful, BlockedHasFailedPrerequisite, report, Applied
<1>7. QED
  BY <1>1, <1>2, <1>3, <1>4, <1>5, <1>6, StableKeeps

LEMMA InterruptKeepsInv == Inv /\ TypeOK' /\ Interrupt => Inv'
<1> SUFFICES ASSUME Inv, TypeOK', Interrupt PROVE Inv'
  OBVIOUS
<1> USE DEF Inv, Interrupt, AtItem
<1>1. StableStep
  BY DEF StableStep, Attempted, report
<1>2. VerdictsFollowLoop'
  <2>1. ASSUME NEW op \in Ops PROVE Planned(op)' <=> Planned(op)
    BY DEF Planned
  <2>2. QED
    BY <2>1 DEF VerdictsFollowLoop, report
<1>3. FailedFollowsStatus'
  BY DEF FailedFollowsStatus, report, UserPhases
<1>4. IDsFollowStatus'
  BY DEF IDsFollowStatus, report, Applied, AssetPhases
<1>5. CallIsSelected'
  BY DEF CallIsSelected
<1>6. ReportTruthful' /\ BlockedHasFailedPrerequisite'
  BY DEF ReportTruthful, BlockedHasFailedPrerequisite, report, Applied
<1>7. QED
  BY <1>1, <1>2, <1>3, <1>4, <1>5, <1>6, StableKeeps

LEMMA CancelKeepsInv == Inv /\ TypeOK' /\ Cancel => Inv'
<1> SUFFICES ASSUME Inv, TypeOK', Cancel PROVE Inv'
  OBVIOUS
<1> USE DEF Inv, Cancel, report, progress
<1>1. StableStep
  BY DEF StableStep, Attempted, Current
<1>2. VerdictsFollowLoop'
  BY DEF VerdictsFollowLoop, Planned, Passed, PassOf
<1>3. FailedFollowsStatus'
  BY DEF FailedFollowsStatus
<1>4. IDsFollowStatus'
  BY DEF IDsFollowStatus, Applied, HasChanges, AssignmentErr
<1>5. CallIsSelected'
  BY DEF CallIsSelected, Selected, HasChanges
<1>6. ReportTruthful' /\ BlockedHasFailedPrerequisite'
  BY DEF ReportTruthful, BlockedHasFailedPrerequisite, Applied
<1>7. QED
  BY <1>1, <1>2, <1>3, <1>4, <1>5, <1>6, StableKeeps

LEMMA StutterKeepsInv == Inv /\ TypeOK' /\ UNCHANGED vars => Inv'
<1> SUFFICES ASSUME Inv, TypeOK', UNCHANGED vars PROVE Inv'
  OBVIOUS
<1> USE DEF Inv, vars, report, progress
<1>1. StableStep
  BY DEF StableStep, Attempted, Current
<1>2. VerdictsFollowLoop'
  BY DEF VerdictsFollowLoop, Planned, Passed, PassOf
<1>3. FailedFollowsStatus'
  BY DEF FailedFollowsStatus
<1>4. IDsFollowStatus'
  BY DEF IDsFollowStatus, Applied, HasChanges, AssignmentErr
<1>5. CallIsSelected'
  BY DEF CallIsSelected, Selected, HasChanges
<1>6. ReportTruthful' /\ BlockedHasFailedPrerequisite'
  BY DEF ReportTruthful, BlockedHasFailedPrerequisite, Applied
<1>7. QED
  BY <1>1, <1>2, <1>3, <1>4, <1>5, <1>6, StableKeeps

LEMMA StartCallKeepsInv == Inv /\ TypeOK' /\ StartCall => Inv'
<1> SUFFICES ASSUME Inv, TypeOK', StartCall PROVE Inv'
  OBVIOUS
<1> USE DEF Inv, StartCall, AtItem
<1>1. /\ Current \in Ops /\ Current' = Current
      /\ \A op \in Ops : Attempted(op)' => Attempted(op) \/ op = Current
      /\ phase \in AssetPhases => pos \in Assets /\ Current = <<phase, pos>>
      /\ phase \in UserPhases => Current[1] = "user"
      /\ UNCHANGED <<plan, phase, pos, status, failed, checkoutID, userIDs, written>>
  BY CurrentPending DEF Attempted, Current, report
<1>2. VerdictsFollowLoop' /\ FailedFollowsStatus' /\ IDsFollowStatus'
  <2>1. VerdictsFollowLoop'
    <3>1. plan' = plan /\ phase' = phase /\ pos' = pos /\ status' = status
      BY <1>1
    <3>2. ASSUME NEW op \in Ops PROVE (Planned(op)' <=> Planned(op)) /\ (Passed(op)' <=> Passed(op))
      BY <3>1 DEF Planned, Passed, PassOf
    <3>3. QED
      BY <3>1, <3>2 DEF VerdictsFollowLoop
  <2>2. FailedFollowsStatus'
    BY <1>1 DEF FailedFollowsStatus
  <2>3. IDsFollowStatus'
    BY <1>1 DEF IDsFollowStatus, Applied, HasChanges, AssignmentErr
  <2>4. QED
    BY <2>1, <2>2, <2>3
<1>3. CallIsSelected'
  BY <1>1 DEF CallIsSelected, Selected, HasChanges
<1>4. ReportTruthful' /\ BlockedHasFailedPrerequisite'
  <2>1. status' = status /\ plan' = plan /\ written' = written
    BY <1>1
  <2>2. QED
    BY <2>1 DEF ReportTruthful, BlockedHasFailedPrerequisite, Applied
<1>5. ASSUME phase \in {"checkin", "checkout"}
      PROVE  /\ Settled(<<"patch", pos>>)
             /\ phase = "checkout" => Settled(<<"checkin", pos>>)
             /\ plan.asset[pos].checkout # 0 =>
                  OwnerExists(pos) /\ checkoutID[pos] = plan.asset[pos].checkout /\ checkoutID[pos] # 0
  <2>1. pos \in Assets /\ ~failed[pos] /\ HasChanges(pos) /\ phase \in AssetPhases
    BY <1>1, <1>5 DEF Selected, HasChanges, AssetPhases, UserPhases
  <2>2. Passed(<<"patch", pos>>) /\ (phase = "checkout" => Passed(<<"checkin", pos>>))
    BY <1>5 DEF Passed, PassOf, Rank
  <2>3. Settled(<<"patch", pos>>) /\ (phase = "checkout" => Settled(<<"checkin", pos>>))
    BY <2>1, <2>2, OpsOfPlan, ZenonT(40) DEF Settled, VerdictsFollowLoop, FailedFollowsStatus, AssetPhases, TypeOK, Status
  <2>4. ASSUME plan.asset[pos].checkout # 0
        PROVE  OwnerExists(pos) /\ checkoutID[pos] = plan.asset[pos].checkout /\ checkoutID[pos] # 0
    <3>1. plan.asset[pos].checkout \in Users
      BY <2>1, <2>4, SizeAssumption DEF TypeOK, AllPlans, AssetPlans, Users
    <3>2. checkoutID[pos] = userIDs[plan.asset[pos].checkout] /\ checkoutID[pos] # 0
      BY <2>1, <2>4, <1>5 DEF IDsFollowStatus, AssignmentErr
    <3>3. QED
      BY <2>4, <3>1, <3>2 DEF IDsFollowStatus, OwnerExists
  <2>5. QED
    BY <2>3, <2>4
<1>6. \A a \in Assets : Settled(<<"patch", a>>)' <=> Settled(<<"patch", a>>)
  BY <1>1 DEF Settled
<1>7. \A a \in Assets : Settled(<<"checkin", a>>)' <=> Settled(<<"checkin", a>>)
  BY <1>1 DEF Settled
<1>8. \A a \in Assets : OwnerExists(a)' <=> OwnerExists(a)
  BY <1>1 DEF OwnerExists, Applied
<1>9. Prerequisites'
  <2>1. ASSUME NEW a \in Assets, Attempted(<<"checkin", a>>)'
        PROVE  Settled(<<"patch", a>>) /\ (plan.asset[a].checkout # 0 => OwnerExists(a))
    <3>1. CASE Attempted(<<"checkin", a>>)
      BY <3>1 DEF Prerequisites
    <3>2. CASE <<"checkin", a>> = Current
      BY <3>2, <1>1, <1>5 DEF TypeOK, AssetPhases, UserPhases
    <3>3. QED
      BY <2>1, <3>1, <3>2, <1>1, OpsOfPlan DEF AssetPhases
  <2>2. ASSUME NEW a \in Assets, Attempted(<<"checkout", a>>)'
        PROVE  Settled(<<"patch", a>>) /\ Settled(<<"checkin", a>>) /\ OwnerExists(a)
    <3>1. CASE Attempted(<<"checkout", a>>)
      BY <3>1 DEF Prerequisites
    <3>2. CASE <<"checkout", a>> = Current
      BY <3>2, <1>1, <1>5 DEF TypeOK, AssetPhases, UserPhases, Selected
    <3>3. QED
      BY <2>2, <3>1, <3>2, <1>1, OpsOfPlan DEF AssetPhases
  <2>3. QED
    BY <2>1, <2>2, <1>1, <1>6, <1>7, <1>8 DEF Prerequisites
<1>10. CheckoutHasRealUser'
  <2>1. ASSUME NEW a \in Assets, Attempted(<<"checkout", a>>)'
        PROVE  checkoutID[a] = plan.asset[a].checkout /\ checkoutID[a] # 0
    <3>1. CASE Attempted(<<"checkout", a>>)
      BY <3>1 DEF CheckoutHasRealUser
    <3>2. CASE <<"checkout", a>> = Current
      BY <3>2, <1>1, <1>5 DEF TypeOK, AssetPhases, UserPhases, Selected
    <3>3. QED
      BY <2>1, <3>1, <3>2, <1>1, OpsOfPlan DEF AssetPhases
  <2>2. QED
    BY <2>1, <1>1 DEF CheckoutHasRealUser
<1>11. PhaseBarrier'
  <2>1. ASSUME phase \in AssetPhases, NEW u \in Users PROVE status[<<"user", u>>] # "not_attempted"
    <3>1. Passed(<<"user", u>>) \/ ~Planned(<<"user", u>>)
      BY <2>1 DEF Passed, PassOf, Rank, TypeOK, AllPlans, Planned, AssetPhases, UserPhases
    <3>2. QED
      BY <3>1, OpsOfPlan DEF VerdictsFollowLoop
  <2>2. ASSUME phase \in {"checkin", "checkout"}, NEW b \in Assets PROVE status[<<"patch", b>>] # "not_attempted"
    <3>1. Passed(<<"patch", b>>)
      BY <2>2 DEF Passed, PassOf, Rank
    <3>2. QED
      BY <2>2, <3>1, OpsOfPlan DEF VerdictsFollowLoop, AssetPhases
  <2>3. ASSUME phase = "checkout", NEW b \in Assets PROVE status[<<"checkin", b>>] # "not_attempted"
    <3>1. Passed(<<"checkin", b>>)
      BY <2>3 DEF Passed, PassOf, Rank
    <3>2. QED
      BY <2>3, <3>1, OpsOfPlan DEF VerdictsFollowLoop, AssetPhases
  <2>4. ASSUME NEW a \in Assets, NEW kind \in AssetPhases, Attempted(<<kind, a>>)', ~Attempted(<<kind, a>>)
        PROVE  phase = kind
    <3>1. <<kind, a>> = Current
      BY <2>4, <1>1, OpsOfPlan
    <3>2. phase \in AssetPhases
      BY <3>1, <1>1 DEF TypeOK, AssetPhases
    <3>3. QED
      BY <3>1, <3>2, <1>1
  <2> DEFINE UsersDone == \A u \in Users : status[<<"user", u>>] # "not_attempted"
             PatchesDone == \A b \in Assets : status[<<"patch", b>>] # "not_attempted"
             CheckinsDone == \A b \in Assets : status[<<"checkin", b>>] # "not_attempted"
  <2>5. ASSUME NEW a \in Assets
        PROVE  /\ \A kind \in AssetPhases : Attempted(<<kind, a>>)' => UsersDone
               /\ Attempted(<<"checkin", a>>)' => PatchesDone
               /\ Attempted(<<"checkout", a>>)' => CheckinsDone
    <3>1. /\ \A kind \in AssetPhases : Attempted(<<kind, a>>) => UsersDone
          /\ Attempted(<<"checkin", a>>) => PatchesDone
          /\ Attempted(<<"checkout", a>>) => CheckinsDone
      BY DEF PhaseBarrier
    <3>2. QED
      BY <3>1, <2>1, <2>2, <2>3, <2>4 DEF AssetPhases
  <2>6. status' = status
    BY <1>1
  <2>7. QED
    BY <2>5, <2>6 DEF PhaseBarrier
<1>12. QED
  BY <1>2, <1>3, <1>4, <1>9, <1>10, <1>11

LEMMA EndPassKeepsInv == Inv /\ TypeOK' /\ EndPass => Inv'
<1> SUFFICES ASSUME Inv, TypeOK', EndPass PROVE Inv'
  OBVIOUS
<1> USE DEF Inv
<1>1. /\ phase # "returned" /\ ~call /\ pos > Size /\ ~call' /\ pos' = 1 /\ phase' = NextPhase
      /\ UNCHANGED <<plan, userIDs, failed, status, written>>
  BY DEF EndPass, report
<1>2. phase' # "returned" => Rank(phase') = Rank(phase) + 1
  BY <1>1 DEF NextPhase, Rank, TypeOK, UserPhases, AssetPhases
<1>3. ASSUME NEW op \in Ops
      PROVE  /\ op[2] \in Nat /\ op[2] >= 1
             /\ PassOf(op) = phase => op[2] < pos
  <2>1. op[2] \in Nat /\ op[2] >= 1
    BY OpShape, SizeAssumption DEF Users, Assets
  <2>2. CASE op[1] = "user" /\ phase \in UserPhases
    <3>1. op[2] <= NU
      BY <2>2, OpShape, SizeAssumption DEF Users, AssetPhases
    <3>2. QED
      BY <1>1, <2>1, <2>2, <3>1, SizeAssumption DEF Size, TypeOK
  <2>3. CASE op[1] = "user" /\ phase \notin UserPhases
    BY <2>1, <2>3, OpShape DEF PassOf, TypeOK, AllPlans, UserPhases, AssetPhases
  <2>4. CASE op[1] \in AssetPhases /\ phase \in AssetPhases
    <3>1. op[2] <= NA /\ phase \notin UserPhases
      BY <2>4, OpShape, SizeAssumption DEF Assets, AssetPhases, UserPhases
    <3>2. QED
      BY <1>1, <2>1, <2>4, <3>1, SizeAssumption DEF Size, TypeOK
  <2>5. CASE op[1] \in AssetPhases /\ phase \notin AssetPhases
    BY <2>1, <2>5 DEF PassOf, AssetPhases
  <2>6. op[1] = "user" \/ op[1] \in AssetPhases
    BY OpShape
  <2>7. phase \in UserPhases \/ phase \in AssetPhases
    BY <1>1 DEF TypeOK
  <2>8. QED
    BY <2>1, <2>2, <2>3, <2>4, <2>5, <2>6, <2>7
<1>4. VerdictsFollowLoop'
  <2>1. ASSUME NEW op \in Ops PROVE Planned(op)' <=> Planned(op)
    BY <1>1 DEF Planned
  <2>2. ASSUME NEW op \in Ops, phase' # "returned" PROVE Passed(op)' <=> Passed(op)
    <3>1. PassOf(op)' = PassOf(op)
      BY <1>1 DEF PassOf
    <3>2. PassOf(op) # phase => Rank(PassOf(op)) # Rank(phase)
      BY <1>1 DEF Rank, TypeOK, UserPhases, AssetPhases
    <3>3. Rank(PassOf(op)) \in Nat /\ Rank(phase) \in Nat
      BY DEF Rank
    <3>4. Passed(op)' <=> Rank(PassOf(op)) < Rank(phase) + 1
      BY <1>1, <1>2, <1>3, <2>2, <3>1 DEF Passed
    <3>5. Passed(op) <=> Rank(PassOf(op)) <= Rank(phase)
      BY <1>3, <3>2, <3>3 DEF Passed
    <3>6. QED
      BY <3>3, <3>4, <3>5
  <2>3. status' = status
    BY <1>1
  <2>4. QED
    BY <1>1, <2>1, <2>2, <2>3 DEF VerdictsFollowLoop
<1>5. FailedFollowsStatus'
  <2>1. ASSUME NEW a \in Assets, failed[a]
        PROVE  phase' \notin UserPhases /\ phase' # "patch"
    <3>1. phase \notin UserPhases
      BY <2>1 DEF FailedFollowsStatus
    <3>2. phase' \notin UserPhases /\ phase' # "patch"
      BY <1>1, <3>1 DEF NextPhase, TypeOK, UserPhases, AssetPhases
    <3>3. QED
      BY <3>2
  <2>2. failed' = failed /\ status' = status
    BY <1>1
  <2>3. QED
    BY <2>1, <2>2 DEF FailedFollowsStatus
<1>6. IDsFollowStatus'
  <2>1. \A u \in Users : Applied(<<"user", u>>)' <=> Applied(<<"user", u>>)
    BY <1>1 DEF Applied
  <2>2. \A u \in Users :
          userIDs'[u] = IF plan'.user[u] = "create" /\ ~Applied(<<"user", u>>)' THEN 0 ELSE u
    BY <1>1, <2>1 DEF IDsFollowStatus
  <2>3. ASSUME phase' \in AssetPhases, NEW a \in Assets
        PROVE  LET u == plan'.asset[a].checkout IN
               /\ checkoutID'[a] = IF u = 0 THEN 0 ELSE userIDs'[u]
               /\ HasChanges(a)' /\ (phase' = "patch" => a < pos') /\ ~failed'[a] => ~AssignmentErr(a)'
    <3>1. CASE phase = "move_department"
      <4>1. phase' = "patch"
        BY <1>1, <3>1 DEF NextPhase
      <4>2. ~(a < pos')
        BY <1>1, SizeAssumption DEF Assets
      <4>3. checkoutID'[a] = LET u == plan.asset[a].checkout IN IF u = 0 THEN 0 ELSE userIDs[u]
        BY <3>1 DEF EndPass
      <4>4. QED
        BY <1>1, <4>1, <4>2, <4>3
    <3>2. CASE phase # "move_department"
      <4>1. phase \in AssetPhases /\ phase' # "patch" /\ checkoutID' = checkoutID
        BY <1>1, <2>3, <3>2 DEF NextPhase, AssetPhases, UserPhases, TypeOK, EndPass
      <4>2. a < pos
        BY <1>1, <4>1, SizeAssumption DEF Assets, Size, TypeOK, AssetPhases, UserPhases
      <4>3. (HasChanges(a)' <=> HasChanges(a)) /\ (AssignmentErr(a)' <=> AssignmentErr(a))
        BY <1>1, <4>1 DEF HasChanges, AssignmentErr
      <4>4. QED
        BY <1>1, <4>1, <4>2, <4>3 DEF IDsFollowStatus
    <3>3. QED
      BY <3>1, <3>2
  <2>4. QED
    BY <2>2, <2>3 DEF IDsFollowStatus
<1>7. CallIsSelected'
  BY <1>1 DEF CallIsSelected
<1>8. ReportTruthful' /\ BlockedHasFailedPrerequisite'
  BY <1>1 DEF ReportTruthful, BlockedHasFailedPrerequisite, Applied
<1>9. StableStep
  <2>1. ASSUME NEW a \in Assets, Attempted(<<"checkout", a>>) PROVE checkoutID'[a] = checkoutID[a]
    <3>1. phase # "move_department"
      <4>1. SUFFICES ASSUME phase = "move_department" PROVE FALSE
        OBVIOUS
      <4>2. ~Passed(<<"checkout", a>>)
        BY <4>1 DEF Passed, PassOf, Rank
      <4>3. QED
        BY <1>1, <2>1, <4>2, OpsOfPlan DEF Attempted, VerdictsFollowLoop, AssetPhases
    <3>2. QED
      BY <3>1 DEF EndPass
  <2>2. QED
    BY <1>1, <2>1 DEF StableStep, Attempted
<1>10. QED
  BY <1>4, <1>5, <1>6, <1>7, <1>8, <1>9, StableKeeps

\* The parts of the invariant a finished index disturbs little: what depends on
\* attempts and verdicts only.
LEMMA AnswerKeepsAttempts ==
  ASSUME Inv, TypeOK', phase # "returned", pos <= Size, Selected, AnswerStep,
         ~call', checkoutID' = checkoutID,
         status'[Current] # status[Current] =>
           /\ call /\ status[Current] = "not_attempted"
           /\ status'[Current] \in {"applied", "failed"},
         \/ written' = written
         \/ written' = written \cup {Current} /\ status'[Current] \in {"applied", "failed"},
         status'[Current] = "applied" => Current \in written'
  PROVE  /\ VerdictsFollowLoop' /\ CallIsSelected' /\ ReportTruthful'
         /\ Prerequisites' /\ CheckoutHasRealUser' /\ PhaseBarrier'
<1> USE DEF Inv, AnswerStep
<1>1. Current \in Ops
  BY CurrentItem
<1>2. \A op \in Ops : status[op] # "not_attempted" => status'[op] = status[op]
  BY <1>1
<1>3. \A op \in Ops : Attempted(op)' => Attempted(op)
  BY <1>1 DEF Attempted
<1>4. StableStep
  BY <1>2, <1>3, OpsOfPlan DEF StableStep
<1>5. VerdictsFollowLoop'
  BY AnswerKeepsVerdicts
<1>6. CallIsSelected'
  BY DEF CallIsSelected
<1>7. ReportTruthful'
  <2>1. ASSUME NEW op \in Ops, status'[op] = "applied" PROVE op \in written'
    BY <2>1, <1>1 DEF ReportTruthful, Applied
  <2>2. ASSUME NEW op \in Ops, op \in written' PROVE status'[op] \in {"applied", "failed"}
    BY <2>2, <1>1, <1>2 DEF ReportTruthful
  <2>3. QED
    BY <2>1, <2>2 DEF ReportTruthful, Applied
<1>8. QED
  BY <1>4, <1>5, <1>6, <1>7, StableKeeps

LEMMA FinishUserKeepsInv ==
  ASSUME Inv, TypeOK', NEW ok \in BOOLEAN, FinishUser(ok)
  PROVE  Inv'
<1> USE DEF Inv
<1>1. /\ phase \in UserPhases /\ call /\ ~call' /\ pos' = pos + 1
      /\ written' = written \/ written' = written \cup {Current}
      /\ ok => written' = written \cup {Current}
      /\ UNCHANGED <<plan, phase, checkoutID, failed>>
  BY DEF FinishUser, Return
<1>2. phase # "returned" /\ pos <= Size /\ Selected
  BY <1>1 DEF TypeOK, CallIsSelected
<1>3. /\ Current \in Ops /\ status[Current] = "not_attempted"
      /\ pos \in Users /\ Current = <<"user", pos>>
  BY <1>1, <1>2, CurrentPending DEF UserPhases
<1>4. \A op \in Ops : status'[op] = IF op = Current THEN IF ok THEN "applied" ELSE "failed" ELSE status[op]
  BY DEF FinishUser, Answered
<1>5. AnswerStep
  <2>1. Planned(Current)
    BY <1>1, <1>2, <1>3 DEF Planned, Selected, UserPhases
  <2>2. QED
    BY <1>1, <1>3, <1>4, <2>1 DEF AnswerStep
<1>6. /\ VerdictsFollowLoop' /\ CallIsSelected' /\ ReportTruthful'
      /\ Prerequisites' /\ CheckoutHasRealUser' /\ PhaseBarrier'
  BY <1>1, <1>2, <1>3, <1>4, <1>5, AnswerKeepsAttempts
<1>7. \A a \in Assets, kind \in AssetPhases : status'[<<kind, a>>] = status[<<kind, a>>]
  BY <1>3, <1>4, OpsOfPlan DEF AssetPhases
<1>8. FailedFollowsStatus'
  BY <1>1, <1>7 DEF FailedFollowsStatus
<1>9. IDsFollowStatus'
  <2>1. ASSUME NEW u \in Users
        PROVE  userIDs'[u] = IF plan.user[u] = "create" /\ ~Applied(<<"user", u>>)' THEN 0 ELSE u
    <3>1. CASE u = pos
      <4>1. plan.user[pos] = phase
        BY <1>1, <1>2 DEF Selected
      <4>2. userIDs'[pos] = IF ok /\ phase = "create" THEN pos ELSE userIDs[pos]
        BY <1>3 DEF FinishUser, TypeOK
      <4>3. (Applied(<<"user", u>>)' <=> ok) /\ ~Applied(<<"user", u>>)
        BY <3>1, <1>3, <1>4 DEF Applied
      <4>4. QED
        BY <3>1, <1>3, <4>1, <4>2, <4>3 DEF IDsFollowStatus
    <3>2. CASE u # pos
      <4>1. userIDs'[u] = userIDs[u]
        BY <3>2, <2>1 DEF FinishUser, TypeOK
      <4>2. Applied(<<"user", u>>)' <=> Applied(<<"user", u>>)
        BY <3>2, <1>3, <1>4, OpsOfPlan DEF Applied
      <4>3. QED
        BY <4>1, <4>2 DEF IDsFollowStatus
    <3>3. QED
      BY <3>1, <3>2
  <2>2. phase' \notin AssetPhases
    BY <1>1 DEF UserPhases, AssetPhases
  <2>3. QED
    BY <1>1, <2>1, <2>2 DEF IDsFollowStatus
<1>10. BlockedHasFailedPrerequisite'
  <2>1. ASSUME NEW a \in Assets, NEW kind \in AssetPhases PROVE status'[<<kind, a>>] # "blocked"
    <3>1. ~failed[a]
      BY <1>1 DEF FailedFollowsStatus
    <3>2. status[<<kind, a>>] # "blocked"
      BY <3>1 DEF FailedFollowsStatus
    <3>3. QED
      BY <3>2, <1>7
  <2>2. QED
    BY <2>1 DEF BlockedHasFailedPrerequisite, AssetPhases
<1>11. QED
  BY <1>6, <1>8, <1>9, <1>10

\* The same for the asset passes, where the answer also settles the asset.
\* bad: a failure was recorded for it.
LEMMA AssetStepKeepsInv ==
  ASSUME Inv, TypeOK', phase \in AssetPhases, pos <= Size, Selected, AnswerStep,
         ~call', UNCHANGED <<checkoutID, userIDs>>,
         NEW bad \in BOOLEAN,
         status'[Current] # status[Current] =>
           /\ call /\ status[Current] = "not_attempted"
           /\ status'[Current] \in {"applied", "failed"},
         \/ written' = written
         \/ written' = written \cup {Current} /\ status'[Current] \in {"applied", "failed"},
         status'[Current] = "applied" => Current \in written',
         failed' = IF bad THEN [failed EXCEPT ![pos] = TRUE] ELSE failed,
         status'[Current] = "failed" => bad,
         bad => \/ status'[Current] = "failed"
                \/ phase = "patch" /\ AssignmentErr(pos),
         ~bad => /\ \A op \in Ops \ {Current} : status'[op] = status[op]
                 /\ phase = "patch" => ~AssignmentErr(pos),
         bad => status'[<<"checkin", pos>>] # "not_attempted" /\ status'[<<"checkout", pos>>] # "not_attempted"
  PROVE  Inv'
<1> USE DEF Inv
<1>1. /\ phase # "returned" /\ phase \notin UserPhases
      /\ Current \in Ops /\ Current = <<phase, pos>> /\ pos \in Assets
      /\ UNCHANGED <<plan, phase>> /\ pos' = pos + 1
  BY CurrentItem DEF AnswerStep, AssetPhases, UserPhases, Current
<1>2. /\ VerdictsFollowLoop' /\ CallIsSelected' /\ ReportTruthful'
      /\ Prerequisites' /\ CheckoutHasRealUser' /\ PhaseBarrier'
  BY <1>1, AnswerKeepsAttempts
<1>3. \A a \in Assets, kind \in AssetPhases : a # pos => status'[<<kind, a>>] = status[<<kind, a>>]
  <2>1. SUFFICES ASSUME NEW a \in Assets, NEW kind \in AssetPhases, a # pos
                 PROVE  status'[<<kind, a>>] = status[<<kind, a>>]
    OBVIOUS
  <2>2. <<kind, a>> \in Ops \ {Current} /\ <<kind, a>>[2] # pos
    BY <2>1, <1>1, OpsOfPlan
  <2>3. QED
    BY <2>2 DEF AnswerStep
<1>4. \A u \in Users : status'[<<"user", u>>] = status[<<"user", u>>]
  <2>1. SUFFICES ASSUME NEW u \in Users PROVE status'[<<"user", u>>] = status[<<"user", u>>]
    OBVIOUS
  <2>2. <<"user", u>> \in Ops \ {Current} /\ <<"user", u>>[1] \notin {"checkin", "checkout"}
    BY <1>1, OpsOfPlan DEF AssetPhases
  <2>3. QED
    BY <2>2 DEF AnswerStep
<1>5. ~failed[pos]
  BY <1>1 DEF FailedFollowsStatus, Selected, TypeOK, AssetPhases, Assets
<1>6. failed'[pos] = bad /\ \A a \in Assets : a # pos => failed'[a] = failed[a]
  BY <1>1, <1>5 DEF TypeOK
<1>7. \A kind \in AssetPhases : status[<<kind, pos>>] \notin {"failed", "blocked"}
  BY <1>1, <1>5 DEF FailedFollowsStatus
<1>8. ASSUME bad, status'[Current] # "failed"
      PROVE  /\ status'[<<"checkout", pos>>] = "blocked"
             /\ plan.asset[pos].checkout \in Users
             /\ status'[<<"user", plan.asset[pos].checkout>>] = "failed"
  <2>1. phase = "patch" /\ AssignmentErr(pos)
    BY <1>8
  <2>2. plan.asset[pos].checkout \in Users
    BY <2>1, <1>1, SizeAssumption DEF AssignmentErr, TypeOK, AllPlans, AssetPlans, Users
  <2>3. Planned(<<"checkout", pos>>) /\ <<"checkout", pos>> \in Ops \ {Current}
    BY <2>1, <1>1, OpsOfPlan DEF Planned, AssignmentErr, AssetPhases
  <2>4. status[<<"checkout", pos>>] # "none"
    BY <2>3 DEF VerdictsFollowLoop
  <2>5. ~Passed(<<"checkout", pos>>)
    BY <2>1 DEF Passed, PassOf, Rank
  <2>6. status[<<"checkout", pos>>] = "not_attempted"
    BY <2>3, <2>4, <2>5, <1>1, <1>7 DEF VerdictsFollowLoop, AssetPhases
  <2>7. status'[<<"checkout", pos>>] = "blocked"
    BY <1>8, <2>3, <2>6 DEF AnswerStep
  <2> DEFINE owner == <<"user", plan.asset[pos].checkout>>
  <2>8. plan.user[plan.asset[pos].checkout] = "create" /\ status[owner] # "applied"
    BY <2>1, <2>2, <1>1 DEF IDsFollowStatus, AssignmentErr, Applied, Users
  <2>9. owner \in Ops /\ Planned(owner) /\ Passed(owner)
    BY <2>1, <2>2, <2>8, OpsOfPlan DEF Planned, Passed, PassOf, Rank
  <2>10. status[owner] \notin {"none", "not_attempted", "blocked", "applied"}
    BY <2>8, <2>9, <1>1 DEF VerdictsFollowLoop
  <2>11. status[owner] = "failed"
    BY <2>9, <2>10 DEF TypeOK, Status
  <2>12. QED
    BY <2>2, <2>7, <2>11, <1>4
<1>9. FailedFollowsStatus'
  <2>1. ASSUME NEW a \in Assets, a # pos
        PROVE  /\ failed'[a] <=> \E kind \in AssetPhases : status'[<<kind, a>>] \in {"failed", "blocked"}
               /\ failed'[a] => \A kind \in AssetPhases : status'[<<kind, a>>] # "not_attempted"
               /\ failed'[a] => phase' \notin UserPhases /\ (phase' = "patch" => a < pos')
    <3>1. failed'[a] = failed[a]
      BY <1>6, <2>1
    <3>2. a < pos => a < pos'
      BY <1>1, SizeAssumption DEF Assets, TypeOK
    <3>3. QED
      BY <1>1, <1>3, <2>1, <3>1, <3>2 DEF FailedFollowsStatus
  <2>2. bad => \E kind \in AssetPhases : status'[<<kind, pos>>] \in {"failed", "blocked"}
    BY <1>1, <1>8 DEF AssetPhases
  <2>3. ~bad => \A kind \in AssetPhases : status'[<<kind, pos>>] \notin {"failed", "blocked"}
    BY <1>1, <1>7, OpsOfPlan DEF AnswerStep
  <2>4. bad => \A kind \in AssetPhases : status'[<<kind, pos>>] # "not_attempted"
    <3>1. status'[<<"patch", pos>>] # "not_attempted"
      <4>1. CASE phase = "patch"
        BY <4>1, <1>1 DEF AnswerStep
      <4>2. CASE phase # "patch"
        <5>1. Passed(<<"patch", pos>>)
          BY <4>2 DEF Passed, PassOf, Rank, AssetPhases
        <5>2. status[<<"patch", pos>>] # "not_attempted"
          BY <5>1, <1>1, OpsOfPlan DEF VerdictsFollowLoop, AssetPhases
        <5>3. QED
          BY <5>2, <1>1, <4>2, OpsOfPlan DEF AnswerStep, AssetPhases
      <4>3. QED
        BY <4>1, <4>2
    <3>2. QED
      BY <3>1 DEF AssetPhases
  <2>5. pos < pos'
    BY <1>1, SizeAssumption DEF TypeOK
  <2>6. QED
    BY <2>1, <2>2, <2>3, <2>4, <2>5, <1>1, <1>6, ZenonT(40) DEF FailedFollowsStatus
<1>10. IDsFollowStatus'
  <2>1. \A u \in Users : userIDs'[u] = userIDs[u] /\ (Applied(<<"user", u>>)' <=> Applied(<<"user", u>>))
    BY <1>4 DEF Applied
  <2>2. ASSUME NEW a \in Assets
        PROVE  LET u == plan.asset[a].checkout IN
               /\ checkoutID'[a] = IF u = 0 THEN 0 ELSE userIDs'[u]
               /\ HasChanges(a)' /\ (phase' = "patch" => a < pos') /\ ~failed'[a] => ~AssignmentErr(a)'
    <3>1. (HasChanges(a)' <=> HasChanges(a)) /\ (AssignmentErr(a)' <=> AssignmentErr(a))
      BY <1>1 DEF HasChanges, AssignmentErr
    <3>2. CASE a = pos
      <4>1. ~failed'[a] => ~bad
        BY <3>2, <1>6
      <4>2. phase = "patch" /\ ~bad => ~AssignmentErr(a)
        BY <3>2
      <4>3. phase # "patch" /\ HasChanges(a) => ~AssignmentErr(a)
        BY <3>2, <1>5 DEF IDsFollowStatus
      <4>4. QED
        BY <3>1, <4>1, <4>2, <4>3 DEF IDsFollowStatus
    <3>3. CASE a # pos
      <4>1. a < pos' => a < pos
        BY <3>3, <1>1, SizeAssumption DEF TypeOK, Assets
      <4>2. QED
        BY <3>1, <3>3, <4>1, <1>1, <1>6 DEF IDsFollowStatus
    <3>4. QED
      BY <3>2, <3>3
  <2>3. QED
    BY <2>1, <2>2, <1>1 DEF IDsFollowStatus
<1>11. BlockedHasFailedPrerequisite'
  <2> DEFINE Excuse(st, a, kind) ==
               \/ st[<<"patch", a>>] = "failed"
               \/ kind = "checkout" /\ st[<<"checkin", a>>] = "failed"
               \/ LET u == plan.asset[a].checkout IN u # 0 /\ st[<<"user", u>>] = "failed"
  <2>1. ASSUME NEW a \in Assets, NEW kind \in {"checkin", "checkout"}, status'[<<kind, a>>] = "blocked"
        PROVE  Excuse(status', a, kind)
    <3>1. CASE a # pos
      <4>1. status[<<kind, a>>] = "blocked"
        BY <2>1, <3>1, <1>3 DEF AssetPhases
      <4>2. Excuse(status, a, kind)
        BY <4>1 DEF BlockedHasFailedPrerequisite
      <4>3. plan.asset[a].checkout # 0 => plan.asset[a].checkout \in Users
        BY SizeAssumption DEF TypeOK, AllPlans, AssetPlans, Users
      <4>4. QED
        BY <4>2, <4>3, <3>1, <1>3, <1>4 DEF AssetPhases
    <3>2. CASE a = pos
      <4>1. status[<<kind, a>>] # "blocked" /\ <<kind, a>> \in Ops
        BY <3>2, <1>7, <1>1, OpsOfPlan DEF AssetPhases
      <4>2. bad
        BY <2>1, <4>1, <1>1 DEF AnswerStep
      <4>3. CASE status'[Current] = "failed"
        <5>1. ~(kind = "checkin" /\ phase = "checkout")
          <6>1. SUFFICES ASSUME kind = "checkin", phase = "checkout" PROVE FALSE
            OBVIOUS
          <6>2. Passed(<<kind, a>>)
            BY <6>1 DEF Passed, PassOf, Rank
          <6>3. status[<<kind, a>>] # "not_attempted" /\ <<kind, a>> # Current
            BY <6>1, <6>2, <4>1, <1>1 DEF VerdictsFollowLoop
          <6>4. QED
            BY <6>3, <4>1, <2>1 DEF AnswerStep
        <5>2. <<kind, a>> # Current
          BY <4>3, <2>1
        <5>3. phase = "patch" \/ (phase = "checkin" /\ kind = "checkout")
          BY <5>1, <5>2, <3>2, <1>1, <2>1 DEF AssetPhases
        <5>4. QED
          BY <4>3, <5>3, <3>2, <1>1
      <4>4. CASE status'[Current] # "failed"
        BY <4>2, <4>4, <3>2, <1>8 DEF Users
      <4>5. QED
        BY <4>3, <4>4
    <3>3. QED
      BY <3>1, <3>2
  <2>2. plan' = plan
    BY <1>1
  <2>3. SUFFICES ASSUME NEW a \in Assets, NEW op \in {<<"checkin", a>>, <<"checkout", a>>}, status'[op] = "blocked"
                 PROVE  \/ status'[<<"patch", a>>] = "failed"
                        \/ op[1] = "checkout" /\ status'[<<"checkin", a>>] = "failed"
                        \/ LET u == plan'.asset[a].checkout IN u # 0 /\ status'[<<"user", u>>] = "failed"
    BY DEF BlockedHasFailedPrerequisite
  <2>4. op[1] \in {"checkin", "checkout"} /\ op = <<op[1], a>>
    BY <2>3
  <2>5. Excuse(status', a, op[1])
    BY <2>1, <2>3, <2>4
  <2>6. QED
    BY <2>2, <2>5
<1>12. QED
  BY <1>2, <1>9, <1>10, <1>11

LEMMA PassPatchKeepsInv == Inv /\ TypeOK' /\ PassPatch => Inv'
<1> SUFFICES ASSUME Inv, TypeOK', PassPatch PROVE Inv'
  OBVIOUS
<1> USE DEF Inv
<1>1. /\ phase = "patch" /\ phase \in AssetPhases /\ pos <= Size /\ Selected /\ ~call'
      /\ ~plan.asset[pos].patch /\ pos' = pos + 1
      /\ UNCHANGED <<plan, phase, checkoutID, userIDs, written>>
  BY DEF PassPatch, AtItem, AssetPhases, AssetOutcome
<1>2. Current \in Ops /\ Current = <<"patch", pos>> /\ pos \in Assets
  BY <1>1, CurrentItem DEF Current, UserPhases, AssetPhases
<1>3. ~Planned(Current) /\ status[Current] = "none"
  BY <1>1, <1>2 DEF Planned, VerdictsFollowLoop
<1>4. \A op \in Ops : status'[op] =
        IF op = Current THEN "none"
        ELSE IF AssignmentErr(pos) /\ op[1] \in {"checkin", "checkout"} /\ op[2] = pos /\ status[op] = "not_attempted"
             THEN "blocked" ELSE status[op]
  BY DEF PassPatch, Answered
<1>5. AnswerStep
  BY <1>1, <1>2, <1>3, <1>4 DEF AnswerStep
<1>6. failed' = IF AssignmentErr(pos) THEN [failed EXCEPT ![pos] = TRUE] ELSE failed
  BY DEF PassPatch, AssetOutcome
<1>7. AssignmentErr(pos) => status'[<<"checkin", pos>>] # "not_attempted" /\ status'[<<"checkout", pos>>] # "not_attempted"
  BY <1>2, <1>4, OpsOfPlan DEF AssetPhases
<1>8. ~AssignmentErr(pos) => \A op \in Ops \ {Current} : status'[op] = status[op]
  BY <1>4
<1>9. status'[Current] = "none" /\ AssignmentErr(pos) \in BOOLEAN
  BY <1>2, <1>4 DEF AssignmentErr
<1>10. QED
  BY <1>1, <1>3, <1>5, <1>6, <1>7, <1>8, <1>9, AssetStepKeepsInv

LEMMA FinishAssetKeepsInv ==
  ASSUME Inv, TypeOK', NEW ok \in BOOLEAN,
         FinishPatch(ok) \/ FinishCheckin(ok) \/ FinishCheckout(ok)
  PROVE  Inv'
<1> USE DEF Inv
<1> DEFINE bad == ~ok \/ (phase = "patch" /\ AssignmentErr(pos))
           answer == IF ok THEN "applied" ELSE "failed"
           block == bad /\ phase # "checkout"
<1>1. /\ phase \in AssetPhases /\ call /\ ~call' /\ pos' = pos + 1
      /\ written' = written \/ written' = written \cup {Current}
      /\ ok => written' = written \cup {Current}
      /\ UNCHANGED <<plan, phase, checkoutID, userIDs>>
  BY DEF FinishPatch, FinishCheckin, FinishCheckout, Return, AssetOutcome, AssetPhases
<1>2. phase # "returned" /\ pos <= Size /\ Selected
  BY <1>1 DEF TypeOK, CallIsSelected
<1>3. /\ Current \in Ops /\ status[Current] = "not_attempted"
      /\ pos \in Assets /\ Current = <<phase, pos>>
  BY <1>1, <1>2, CurrentPending DEF CallIsSelected
<1>4. failed' = IF bad THEN [failed EXCEPT ![pos] = TRUE] ELSE failed
  BY DEF FinishPatch, FinishCheckin, FinishCheckout, AssetOutcome
<1>5. \A op \in Ops : status'[op] =
        IF op = Current THEN answer
        ELSE IF block /\ op[1] \in {"checkin", "checkout"} /\ op[2] = pos /\ status[op] = "not_attempted"
             THEN "blocked" ELSE status[op]
  BY DEF FinishPatch, FinishCheckin, FinishCheckout, Answered
<1>6. AnswerStep
  <2>1. status[Current] # "none"
    BY <1>3
  <2>2. Planned(Current)
    BY <2>1, <1>3 DEF VerdictsFollowLoop
  <2>3. QED
    BY <1>1, <1>3, <1>5, <2>2 DEF AnswerStep
<1>7. bad => status'[<<"checkin", pos>>] # "not_attempted" /\ status'[<<"checkout", pos>>] # "not_attempted"
  <2>1. CASE phase # "checkout"
    BY <2>1, <1>3, <1>5, OpsOfPlan DEF AssetPhases
  <2>2. CASE phase = "checkout"
    <3>1. Passed(<<"checkin", pos>>)
      BY <2>2 DEF Passed, PassOf, Rank
    <3>2. status[<<"checkin", pos>>] # "not_attempted" /\ <<"checkin", pos>> \in Ops
      BY <3>1, <1>2, <1>3, OpsOfPlan DEF VerdictsFollowLoop, AssetPhases
    <3>3. QED
      BY <2>2, <3>2, <1>3, <1>5
  <2>3. QED
    BY <2>1, <2>2
<1>8. ~bad => \A op \in Ops \ {Current} : status'[op] = status[op]
  BY <1>5
<1>9. status'[Current] = answer /\ bad \in BOOLEAN
  BY <1>3, <1>5 DEF AssignmentErr
<1>10. QED
  BY <1>1, <1>2, <1>3, <1>4, <1>6, <1>7, <1>8, <1>9, AssetStepKeepsInv

LEMMA InitInv == Init => Inv
<1> SUFFICES ASSUME Init PROVE Inv
  OBVIOUS
<1>1. TypeOK
  BY TypeInit
<1>2. /\ phase = "create" /\ pos = 1 /\ ~call /\ written = {}
      /\ failed = [a \in Assets |-> FALSE]
      /\ \A op \in Ops : status[op] = IF Planned(op) THEN "not_attempted" ELSE "none"
  BY DEF Init, InitialStatus
<1>3. \A op \in Ops : ~Passed(op)
  <2>1. SUFFICES ASSUME NEW op \in Ops PROVE ~Passed(op)
    OBVIOUS
  <2>2. op[2] \in Nat /\ op[2] >= 1
    BY OpShape, SizeAssumption DEF Users, Assets
  <2>3. QED
    BY <1>2, <2>2 DEF Passed, Rank
<1>4. VerdictsFollowLoop
  BY <1>2, <1>3 DEF VerdictsFollowLoop
<1>5. FailedFollowsStatus
  BY <1>2, OpsOfPlan DEF FailedFollowsStatus
<1>6. IDsFollowStatus
  <2>1. \A u \in Users : ~Applied(<<"user", u>>)
    BY <1>2, OpsOfPlan DEF Applied
  <2>2. \A u \in Users : userIDs[u] = IF plan.user[u] = "create" THEN 0 ELSE u
    BY DEF Init
  <2>3. QED
    BY <1>2, <2>1, <2>2 DEF IDsFollowStatus, AssetPhases
<1>7. CallIsSelected
  BY <1>2 DEF CallIsSelected
<1>8. \A op \in Ops : ~Attempted(op) /\ ~Applied(op) /\ status[op] # "blocked"
  BY <1>2 DEF Attempted, Applied
<1>9. ReportTruthful
  BY <1>2, <1>8 DEF ReportTruthful
<1>10. Prerequisites /\ CheckoutHasRealUser /\ PhaseBarrier
  BY <1>8, OpsOfPlan DEF Prerequisites, CheckoutHasRealUser, PhaseBarrier, AssetPhases
<1>11. BlockedHasFailedPrerequisite
  BY <1>8, OpsOfPlan DEF BlockedHasFailedPrerequisite, AssetPhases
<1>12. QED
  BY <1>1, <1>4, <1>5, <1>6, <1>7, <1>9, <1>10, <1>11 DEF Inv

LEMMA InvInductive == Inv /\ [Next]_vars => Inv'
<1> SUFFICES ASSUME Inv, [Next]_vars PROVE Inv'
  OBVIOUS
<1>1. TypeOK'
  BY TypeInductive DEF Inv
<1>2. CASE Skip
  BY <1>1, <1>2, SkipKeepsInv
<1>3. CASE Interrupt
  BY <1>1, <1>3, InterruptKeepsInv
<1>4. CASE StartCall
  BY <1>1, <1>4, StartCallKeepsInv
<1>5. CASE PassPatch
  BY <1>1, <1>5, PassPatchKeepsInv
<1>6. CASE EndPass
  BY <1>1, <1>6, EndPassKeepsInv
<1>7. ASSUME NEW ok \in BOOLEAN, Finish(ok) PROVE Inv'
  BY <1>1, <1>7, FinishUserKeepsInv, FinishAssetKeepsInv DEF Finish
<1>8. CASE Cancel
  BY <1>1, <1>8, CancelKeepsInv
<1>9. CASE UNCHANGED vars
  BY <1>1, <1>9, StutterKeepsInv
<1>10. QED
  BY <1>2, <1>3, <1>4, <1>5, <1>6, <1>7, <1>8, <1>9 DEF Next, System, Done

LEMMA StepKeepsVerdicts ==
  ASSUME Inv, Next
  PROVE  /\ \A op \in Ops : status[op] # "not_attempted" => status'[op] = status[op]
         /\ written \subseteq written'
         /\ \A op \in written' \ written : status[op] = "not_attempted"
<1> USE DEF Inv
<1>1. CASE Skip \/ Interrupt \/ StartCall \/ EndPass \/ Cancel \/ Done
  BY <1>1 DEF Skip, Interrupt, StartCall, EndPass, Cancel, Done, vars, report
<1>2. CASE PassPatch
  <2>1. Current \in Ops /\ ~Planned(Current)
    BY <1>2, CurrentItem DEF PassPatch, AtItem, Planned, Current, UserPhases
  <2>2. status[Current] = "none"
    BY <2>1 DEF VerdictsFollowLoop
  <2>3. QED
    BY <1>2, <2>2 DEF PassPatch, Answered
<1>3. ASSUME NEW ok \in BOOLEAN, Finish(ok)
      PROVE  /\ \A op \in Ops : status[op] # "not_attempted" => status'[op] = status[op]
             /\ written \subseteq written'
             /\ \A op \in written' \ written : status[op] = "not_attempted"
  <2>1. Return(ok) /\ \E answer, block : status' = Answered(answer, block)
    BY <1>3 DEF Finish, FinishUser, FinishPatch, FinishCheckin, FinishCheckout
  <2>2. phase # "returned" /\ pos <= Size /\ Selected /\ (phase = "patch" => plan.asset[pos].patch)
    BY <2>1 DEF Return, TypeOK, CallIsSelected
  <2>3. status[Current] = "not_attempted"
    BY <2>2, CurrentPending
  <2>4. QED
    BY <2>1, <2>3 DEF Return, Answered
<1>4. QED
  BY <1>1, <1>2, <1>3 DEF Next, System

\* The inductive invariant holds in every reachable state.
THEOREM InvHolds == Spec => []Inv
BY InitInv, InvInductive, PTL DEF Spec

\* What the report calls applied is in Snipe, and what it calls not attempted
\* or blocked never got there, for every plan and every pattern of failures.
THEOREM ReportIsTruthful == Spec => []ReportTruthful
BY InvHolds, PTL DEF Inv

\* No check-in or check-out is sent before everything it depends on succeeded.
THEOREM PrerequisitesHold == Spec => []Prerequisites
BY InvHolds, PTL DEF Inv

\* A check-out always carries the ID of the user it was planned for.
THEOREM CheckoutsHaveRealUsers == Spec => []CheckoutHasRealUser
BY InvHolds, PTL DEF Inv

\* An operation reported as blocked has a failed prerequisite.
THEOREM BlockedOnlyByFailure == Spec => []BlockedHasFailedPrerequisite
BY InvHolds, PTL DEF Inv

\* The passes are barriers over the whole plan.
THEOREM PassesAreBarriers == Spec => []PhaseBarrier
BY InvHolds, PTL DEF Inv

\* A verdict is never changed, and no write happens without one being due.
THEOREM VerdictsNeverChange == Spec => VerdictsAreFinal
<1> DEFINE Final == /\ \A op \in Ops : status[op] # "not_attempted" => status'[op] = status[op]
                    /\ written \subseteq written'
                    /\ \A op \in written' \ written : status[op] = "not_attempted"
<1>1. Inv /\ [Next]_vars => [Final]_vars
  BY StepKeepsVerdicts
<1>2. QED
  BY <1>1, InvHolds, PTL DEF Spec, VerdictsAreFinal

\* No request is sent once the context is cancelled.
THEOREM CancellationStopsCalls == Spec => NoCallAfterCancel
<1>1. [Next]_vars => [cancelled /\ ~call => ~call']_vars
  BY DEF Next, System, Done, Skip, Interrupt, StartCall, PassPatch, EndPass, Cancel, progress, vars,
         Finish, FinishUser, FinishPatch, FinishCheckin, FinishCheckout, Return
<1>2. QED
  BY <1>1, PTL DEF Spec, NoCallAfterCancel

-----------------------------------------------------------------------------
(* What a call of apply sums up is what its verdicts say: the counters and *)
(* the list of failures of the ApplyResult, and the error it returns.      *)
(* Each step that records a verdict also keeps these, on the grounds of    *)
(* Inv, which is therefore part of the induction.                          *)

AppliedUsers == {u \in Users : Applied(<<"user", u>>)}
Complete == {a \in Assets : AssetComplete(a)}

LEMMA SetsAreFinite == IsFiniteSet(AppliedUsers) /\ IsFiniteSet(Complete)
<1>1. IsFiniteSet(Users) /\ IsFiniteSet(Assets)
  BY SizeAssumption, FS_Interval DEF Users, Assets
<1>2. AppliedUsers \subseteq Users /\ Complete \subseteq Assets
  BY DEF AppliedUsers, Complete
<1>3. QED
  BY <1>1, <1>2, FS_Subset

\* A step that records no verdict keeps all that is said about them.
LEMMA QuietKeepsSummary ==
  ASSUME UNCHANGED <<plan, status, usersApplied, assetsApplied, userFailures, assetFailures>>,
         CountersMatchReport, OneFailureEach
  PROVE  CountersMatchReport' /\ OneFailureEach'
<1>1. AppliedUsers' = AppliedUsers /\ Complete' = Complete
  BY DEF AppliedUsers, Complete, Applied, AssetComplete, HasChanges, Settled
<1>2. QED
  BY <1>1 DEF CountersMatchReport, OneFailureEach, AppliedUsers, Complete

\* An operation that is planned and not passed is not settled.
LEMMA DueIsOpen ==
  ASSUME Inv, phase # "returned", NEW op \in Ops, ~Passed(op), Planned(op)
  PROVE  ~Settled(op)
BY DEF Inv, VerdictsFollowLoop, Settled

\* The answer to a write of a user: one verdict, and the counter or the failure
\* that goes with it.
LEMMA FinishUserKeepsSummary ==
  ASSUME Inv, CountersMatchReport, OneFailureEach, NEW ok \in BOOLEAN, FinishUser(ok)
  PROVE  CountersMatchReport' /\ OneFailureEach'
<1>1. /\ phase \in UserPhases /\ call /\ plan' = plan
      /\ status' = Answered(IF ok THEN "applied" ELSE "failed", FALSE)
      /\ usersApplied' = IF ok THEN usersApplied + 1 ELSE usersApplied
      /\ userFailures' = IF ok THEN userFailures ELSE [userFailures EXCEPT ![pos] = @ + 1]
      /\ assetsApplied' = assetsApplied /\ assetFailures' = assetFailures
  BY DEF FinishUser, Return
<1>2. phase # "returned" /\ pos <= Size /\ Selected /\ (phase = "patch" => plan.asset[pos].patch)
  BY <1>1 DEF Inv, TypeOK, CallIsSelected
<1>3. pos \in Users /\ Current = <<"user", pos>> /\ status[Current] = "not_attempted"
  BY <1>1, <1>2, CurrentPending
<1>4. \A op \in Ops : status'[op] = IF op = Current THEN IF ok THEN "applied" ELSE "failed"
                                    ELSE status[op]
  BY <1>1 DEF Answered
<1>5. \A u \in Users : status'[<<"user", u>>] = IF u = pos THEN IF ok THEN "applied" ELSE "failed"
                                                ELSE status[<<"user", u>>]
  BY <1>3, <1>4, OpsOfPlan
<1>6. \A a \in Assets, kind \in AssetPhases : status'[<<kind, a>>] = status[<<kind, a>>]
  BY <1>3, <1>4, OpsOfPlan DEF AssetPhases
<1>7. Complete' = Complete
  BY <1>1, <1>6 DEF Complete, AssetComplete, HasChanges, Settled
<1>8. AppliedUsers' = IF ok THEN AppliedUsers \cup {pos} ELSE AppliedUsers
  BY <1>3, <1>5 DEF AppliedUsers, Applied
<1>9. pos \notin AppliedUsers
  BY <1>3 DEF AppliedUsers, Applied
<1>10. Cardinality(AppliedUsers)' = IF ok THEN Cardinality(AppliedUsers) + 1 ELSE Cardinality(AppliedUsers)
  BY <1>8, <1>9, SetsAreFinite, FS_AddElement
<1>11. CountersMatchReport'
  BY <1>1, <1>7, <1>10 DEF CountersMatchReport, AppliedUsers, Complete
<1>12. \A u \in Users : userFailures'[u] = IF status'[<<"user", u>>] = "failed" THEN 1 ELSE 0
  <2>1. ASSUME NEW u \in Users, u # pos
        PROVE  userFailures'[u] = IF status'[<<"user", u>>] = "failed" THEN 1 ELSE 0
    BY <1>1, <1>5, <2>1 DEF OneFailureEach, Inv, TypeOK
  <2>2. userFailures[pos] = 0
    BY <1>3 DEF OneFailureEach
  <2>3. userFailures'[pos] = IF ok THEN 0 ELSE 1
    BY <1>1, <1>3, <2>2 DEF Inv, TypeOK
  <2>4. status'[<<"user", pos>>] = IF ok THEN "applied" ELSE "failed"
    BY <1>3, <1>5
  <2>5. QED
    BY <2>1, <2>3, <2>4
<1>13. OneFailureEach'
  BY <1>1, <1>6, <1>12 DEF OneFailureEach
<1>14. QED
  BY <1>11, <1>13

\* The same for an asset: it is counted when nothing is left to be done, and
\* named as a failure when one of its operations failed or was blocked.
LEMMA OutcomeKeepsSummary ==
  ASSUME Inv, CountersMatchReport, OneFailureEach, plan' = plan, NEW a \in Assets, a = pos,
         NEW bad \in BOOLEAN, NEW last \in BOOLEAN, AssetOutcome(bad, last), ~failed[a],
         ~AssetComplete(a), FailedFollowsStatus',
         AssetComplete(a)' <=> ~bad /\ last,
         \A u \in Users : status'[<<"user", u>>] = status[<<"user", u>>],
         \A b \in Assets \ {a}, kind \in AssetPhases : status'[<<kind, b>>] = status[<<kind, b>>]
  PROVE  CountersMatchReport' /\ OneFailureEach'
<1>1. /\ failed' = IF bad THEN [failed EXCEPT ![pos] = TRUE] ELSE failed
      /\ assetFailures' = IF bad THEN [assetFailures EXCEPT ![pos] = @ + 1] ELSE assetFailures
      /\ assetsApplied' = IF ~bad /\ last THEN assetsApplied + 1 ELSE assetsApplied
      /\ usersApplied' = usersApplied /\ userFailures' = userFailures
  BY DEF AssetOutcome
<1>2. AppliedUsers' = AppliedUsers
  BY DEF AppliedUsers, Applied
<1>3. \A b \in Assets \ {a} : AssetComplete(b)' <=> AssetComplete(b)
  BY DEF AssetComplete, HasChanges, Settled
<1>4. Complete' = IF ~bad /\ last THEN Complete \cup {a} ELSE Complete
  BY <1>3 DEF Complete
<1>5. a \notin Complete
  BY DEF Complete
<1>6. Cardinality(Complete)' = IF ~bad /\ last THEN Cardinality(Complete) + 1 ELSE Cardinality(Complete)
  BY <1>4, <1>5, SetsAreFinite, FS_AddElement
<1>7. CountersMatchReport'
  BY <1>1, <1>2, <1>6 DEF CountersMatchReport, AppliedUsers, Complete
<1>8. \A b \in Assets : assetFailures[b] = IF failed[b] THEN 1 ELSE 0
  <2>1. FailedFollowsStatus
    BY DEF Inv
  <2>2. TAKE b \in Assets
  <2>3. failed[b] <=> \E kind \in AssetPhases : status[<<kind, b>>] \in {"failed", "blocked"}
    BY <2>1 DEF FailedFollowsStatus
  <2>4. assetFailures[b] =
          IF \E kind \in AssetPhases : status[<<kind, b>>] \in {"failed", "blocked"} THEN 1 ELSE 0
    BY DEF OneFailureEach
  <2>5. QED
    BY <2>3, <2>4
<1>9. \A b \in Assets : assetFailures'[b] = IF failed'[b] THEN 1 ELSE 0
  <2>1. CASE bad
    BY <1>1, <1>8, <2>1 DEF Inv, TypeOK
  <2>2. CASE ~bad
    BY <1>1, <1>8, <2>2
  <2>3. QED
    BY <2>1, <2>2
<1>10. OneFailureEach'
  BY <1>1, <1>9 DEF OneFailureEach, FailedFollowsStatus
<1>11. QED
  BY <1>7, <1>10

\* What a later pass has to do for an asset is open before and after the step.
LEMMA LaterIsOpen ==
  ASSUME Inv, Inv', plan' = plan, phase' = phase, phase \in AssetPhases, NEW a \in Assets, a = pos, pos' = pos + 1,
         NEW kind \in AssetPhases, Rank(phase) < Rank(kind)
  PROVE  LET op == <<kind, a>> IN
         IF Planned(op) THEN ~Settled(op) /\ ~Settled(op)' ELSE Settled(op)'
<1> DEFINE op == <<kind, a>>
<1>1. op \in Ops /\ PassOf(op) = kind /\ PassOf(op)' = kind
  BY OpsOfPlan DEF PassOf, AssetPhases
<1>2. ~Passed(op) /\ ~Passed(op)'
  BY <1>1 DEF Passed, Rank, AssetPhases
<1>3. Planned(op)' <=> Planned(op)
  BY DEF Planned
<1>4. phase # "returned" /\ phase' # "returned" /\ VerdictsFollowLoop /\ VerdictsFollowLoop'
  BY DEF Inv, AssetPhases
<1>5. /\ status[op] \in {"none", "not_attempted", "blocked"} /\ status'[op] \in {"none", "not_attempted", "blocked"}
      /\ status[op] = "none" <=> ~Planned(op)
      /\ status'[op] = "none" <=> ~Planned(op)'
  BY <1>1, <1>2, <1>4 DEF VerdictsFollowLoop
<1>6. QED
  BY <1>3, <1>5 DEF Settled

\* An answer for asset pos changes no verdict of a user or of another asset.
LEMMA AnswerIsLocal ==
  ASSUME phase \in AssetPhases, NEW a \in Assets, a = pos, NEW answer, NEW block,
         status' = Answered(answer, block)
  PROVE  /\ \A u \in Users : status'[<<"user", u>>] = status[<<"user", u>>]
         /\ \A b \in Assets \ {a}, kind \in AssetPhases :
              status'[<<kind, b>>] = status[<<kind, b>>]
         /\ status'[<<phase, a>>] = answer
<1>1. Current = <<phase, a>>
  BY DEF Current, AssetPhases, UserPhases
<1>2. \A op \in Ops : op[2] # a \/ op[1] = "user" => status'[op] = status[op]
  BY <1>1 DEF Answered, AssetPhases
<1>3. QED
  BY <1>1, <1>2, OpsOfPlan DEF Answered

\* When the loop of a pass is done with an asset, the asset is complete exactly
\* when the bookkeeping counts it.
LEMMA PassPatchKeepsSummary ==
  ASSUME Inv, Inv', CountersMatchReport, OneFailureEach, PassPatch
  PROVE  CountersMatchReport' /\ OneFailureEach'
<1> DEFINE bad == AssignmentErr(pos)
<1>1. /\ phase = "patch" /\ phase \in AssetPhases /\ phase' = phase /\ plan' = plan /\ pos <= Size /\ pos' = pos + 1
      /\ HasChanges(pos) /\ ~plan.asset[pos].patch /\ status' = Answered("none", bad)
      /\ AssetOutcome(bad, NoAssignment(pos))
  BY DEF PassPatch, AtItem, Selected, AssetPhases
<1>2. pos \in Assets
  BY <1>1, CurrentItem DEF Inv, AssetPhases
<1> PICK a \in Assets : a = pos
  BY <1>2
<1>3. ~NoAssignment(pos)
  BY <1>1 DEF NoAssignment, HasChanges
<1>4. ~failed[pos]
  BY <1>1, <1>2, SizeAssumption DEF Inv, FailedFollowsStatus, Assets
<1>5. PICK kind \in {"checkin", "checkout"} : Planned(<<kind, a>>)
  BY <1>3 DEF NoAssignment, Planned
<1>6. ~Settled(<<kind, a>>) /\ ~Settled(<<kind, a>>)'
  <2>1. kind \in AssetPhases /\ Rank(phase) < Rank(kind)
    BY <1>1, <1>5 DEF Rank, AssetPhases
  <2>2. QED
    BY <1>1, <1>5, <2>1, LaterIsOpen
<1>7. ~AssetComplete(a) /\ ~AssetComplete(a)'
  BY <1>6 DEF AssetComplete, AssetPhases
<1>8. bad \in BOOLEAN /\ NoAssignment(pos) \in BOOLEAN /\ FailedFollowsStatus'
  BY DEF AssignmentErr, NoAssignment, Inv
<1>9. QED
  BY <1>1, <1>2, <1>3, <1>4, <1>7, <1>8, AnswerIsLocal, OutcomeKeepsSummary

LEMMA FinishAssetKeepsSummary ==
  ASSUME Inv, Inv', CountersMatchReport, OneFailureEach, NEW ok \in BOOLEAN,
         FinishPatch(ok) \/ FinishCheckin(ok) \/ FinishCheckout(ok)
  PROVE  CountersMatchReport' /\ OneFailureEach'
<1> DEFINE answer == IF ok THEN "applied" ELSE "failed"
<1>1. /\ phase \in AssetPhases /\ call /\ plan' = plan /\ phase' = phase /\ pos' = pos + 1
  BY DEF FinishPatch, FinishCheckin, FinishCheckout, Return, AssetPhases
<1>2. phase # "returned" /\ pos <= Size /\ Selected /\ (phase = "patch" => plan.asset[pos].patch)
  BY <1>1 DEF Inv, TypeOK, CallIsSelected
<1>3. pos \in Assets /\ Current = <<phase, pos>> /\ status[<<phase, pos>>] = "not_attempted"
  BY <1>1, <1>2, CurrentPending
<1> PICK a \in Assets : a = pos
  BY <1>3
<1> DEFINE Open(kind) == Planned(<<kind, a>>)
<1>4. ~AssetComplete(a)
  BY <1>1, <1>3 DEF AssetComplete, Settled
<1>5. ~failed[pos]
  BY <1>1, <1>3 DEF Inv, FailedFollowsStatus
<1>6. HasChanges(a) /\ HasChanges(a)'
  BY <1>1, <1>2 DEF HasChanges, Selected, AssetPhases
<1>7. \A kind \in AssetPhases : Rank(phase) < Rank(kind) =>
        (Settled(<<kind, a>>)' <=> ~Open(kind))
  BY <1>1, <1>3, LaterIsOpen
<1>8. FailedFollowsStatus'
  BY DEF Inv
<1>9. CASE FinishPatch(ok)
  <2> DEFINE bad == ~ok \/ AssignmentErr(pos)
  <2>1. phase = "patch" /\ status' = Answered(answer, bad) /\ AssetOutcome(bad, NoAssignment(pos))
    BY <1>9 DEF FinishPatch
  <2>2. Settled(<<"patch", a>>)' <=> ok
    BY <1>1, <1>3, <2>1, AnswerIsLocal DEF Settled
  <2>3. /\ Settled(<<"checkin", a>>)' <=> ~Open("checkin")
        /\ Settled(<<"checkout", a>>)' <=> ~Open("checkout")
    BY <1>7, <2>1 DEF Rank, AssetPhases
  <2>4. NoAssignment(pos) <=> ~Open("checkin") /\ ~Open("checkout")
    BY DEF NoAssignment, Planned
  <2>5. AssignmentErr(pos) => Open("checkout")
    BY DEF AssignmentErr, Planned
  <2>6. AssetComplete(a)' <=> ~bad /\ NoAssignment(pos)
    BY <1>6, <2>2, <2>3, <2>4, <2>5 DEF AssetComplete, AssetPhases
  <2>7. bad \in BOOLEAN /\ NoAssignment(pos) \in BOOLEAN
    BY DEF AssignmentErr, NoAssignment
  <2>8. QED
    BY <1>1, <1>3, <1>4, <1>5, <1>8, <2>1, <2>6, <2>7, AnswerIsLocal, OutcomeKeepsSummary
<1>10. CASE FinishCheckin(ok)
  <2> DEFINE last == plan.asset[pos].checkout = 0
  <2>1. phase = "checkin" /\ status' = Answered(answer, ~ok) /\ AssetOutcome(~ok, last)
    BY <1>10 DEF FinishCheckin
  <2>2. Settled(<<"checkin", a>>)' <=> ok
    BY <1>1, <1>3, <2>1, AnswerIsLocal DEF Settled
  <2>3. Settled(<<"checkout", a>>)' <=> last
    BY <1>7, <2>1 DEF Rank, AssetPhases, Planned
  <2>4. Settled(<<"patch", a>>)
    BY <1>1, <1>3, <2>1 DEF Inv, Prerequisites, Attempted
  <2>5. Settled(<<"patch", a>>)'
    <3>1. status'[<<"patch", a>>] = status[<<"patch", a>>]
      BY <1>3, <2>1, OpsOfPlan DEF Answered, AssetPhases
    <3>2. QED
      BY <2>4, <3>1 DEF Settled
  <2>6. AssetComplete(a)' <=> ok /\ last
    BY <1>6, <2>2, <2>3, <2>5 DEF AssetComplete, AssetPhases
  <2>7. QED
    BY <1>1, <1>3, <1>4, <1>5, <1>8, <2>1, <2>6, AnswerIsLocal, OutcomeKeepsSummary
<1>11. CASE FinishCheckout(ok)
  <2>1. phase = "checkout" /\ status' = Answered(answer, FALSE) /\ AssetOutcome(~ok, TRUE)
    BY <1>11 DEF FinishCheckout
  <2>2. Settled(<<"checkout", a>>)' <=> ok
    BY <1>1, <1>3, <2>1, AnswerIsLocal DEF Settled
  <2>3. Settled(<<"patch", a>>) /\ Settled(<<"checkin", a>>)
    BY <1>1, <1>3, <2>1 DEF Inv, Prerequisites, Attempted
  <2>4. Settled(<<"patch", a>>)' /\ Settled(<<"checkin", a>>)'
    <3>1. \A kind \in {"patch", "checkin"} : status'[<<kind, a>>] = status[<<kind, a>>]
      BY <1>3, <2>1, OpsOfPlan DEF Answered, AssetPhases
    <3>2. QED
      BY <2>3, <3>1 DEF Settled
  <2>5. AssetComplete(a)' <=> ok
    BY <1>6, <2>2, <2>4 DEF AssetComplete, AssetPhases
  <2>6. QED
    BY <1>1, <1>3, <1>4, <1>5, <1>8, <2>1, <2>5, AnswerIsLocal, OutcomeKeepsSummary
<1>12. QED
  BY <1>9, <1>10, <1>11

\* A pass that is interrupted leaves something open.
LEMMA InterruptLeavesOpen ==
  ASSUME Inv, AtItem, Selected
  PROVE  \E op \in Ops : ~Settled(op)
<1>1. phase # "returned" /\ pos <= Size
  BY DEF AtItem
<1>2. CASE phase = "patch" => plan.asset[pos].patch
  BY <1>1, <1>2, CurrentPending DEF Settled
<1>3. CASE phase = "patch" /\ ~plan.asset[pos].patch
  <2>1. pos \in Assets
    BY <1>1, <1>3, CurrentItem DEF Inv, AssetPhases
  <2>2. PICK kind \in {"checkin", "checkout"} : Planned(<<kind, pos>>)
    BY <1>3 DEF Selected, HasChanges, Planned
  <2>3. <<kind, pos>> \in Ops /\ PassOf(<<kind, pos>>) = kind
    BY <2>1, OpsOfPlan DEF PassOf, AssetPhases
  <2>4. ~Passed(<<kind, pos>>)
    BY <1>3, <2>3 DEF Passed, Rank
  <2>5. QED
    BY <1>1, <2>2, <2>3, <2>4, DueIsOpen
<1>4. QED
  BY <1>2, <1>3

\* After the last pass every operation has a verdict, and the failures that were
\* recorded are those of the operations that were not applied.
LEMMA LastPassDecides ==
  ASSUME Inv, OneFailureEach, phase = "checkout", pos > Size
  PROVE  /\ \A op \in Ops : status[op] # "not_attempted"
         /\ (\/ \E u \in Users : userFailures[u] > 0
             \/ \E a \in Assets : assetFailures[a] > 0)
            <=> \E op \in Ops : ~Settled(op)
<1>1. \A op \in Ops : status[op] # "not_attempted"
  <2>1. TAKE op \in Ops
  <2>2. CASE op[1] = "user"
    <3>1. op[2] \in Users /\ plan.user[op[2]] \in UserPhases \cup {"noop"}
      BY <2>2, OpShape DEF Inv, TypeOK, AllPlans, AssetPhases
    <3>2. CASE plan.user[op[2]] \in UserPhases
      BY <2>2, <3>2 DEF Passed, PassOf, Rank, UserPhases, Inv, VerdictsFollowLoop
    <3>3. CASE plan.user[op[2]] = "noop"
      BY <2>2, <3>3 DEF Planned, Inv, VerdictsFollowLoop
    <3>4. QED
      BY <3>1, <3>2, <3>3
  <2>3. CASE op[1] \in AssetPhases
    <3>1. op[2] \in Assets /\ op[2] <= NA /\ Size = NA
      BY <2>3, OpShape, SizeAssumption DEF Assets, Size, UserPhases, AssetPhases
    <3>2. op[2] < pos
      BY <3>1, SizeAssumption DEF Inv, TypeOK, Assets
    <3>3. Passed(op)
      BY <2>3, <3>2 DEF Passed, PassOf, Rank, AssetPhases
    <3>4. QED
      BY <3>3 DEF Inv, VerdictsFollowLoop
  <2>4. QED
    BY <2>2, <2>3, OpShape
<1>2. \A op \in Ops : ~Settled(op) <=> status[op] \in {"failed", "blocked"}
  BY <1>1 DEF Settled, Inv, TypeOK, Status
<1>3. \A u \in Users : userFailures[u] > 0 <=> ~Settled(<<"user", u>>)
  <2>1. TAKE u \in Users
  <2>2. <<"user", u>> \in Ops /\ status[<<"user", u>>] # "blocked"
    BY OpsOfPlan DEF Inv, VerdictsFollowLoop
  <2>3. QED
    BY <1>2, <2>2 DEF OneFailureEach
<1>4. \A a \in Assets : assetFailures[a] > 0 <=> \E kind \in AssetPhases : ~Settled(<<kind, a>>)
  BY <1>2, OpsOfPlan DEF OneFailureEach
<1>5. QED
  <2>1. ASSUME NEW op \in Ops, ~Settled(op)
        PROVE  \/ \E u \in Users : userFailures[u] > 0
               \/ \E a \in Assets : assetFailures[a] > 0
    BY <1>3, <1>4, <2>1, OpShape
  <2>2. QED
    BY <1>1, <1>3, <1>4, <2>1, OpsOfPlan

LEMMA ReturnKeepsError ==
  ASSUME Inv, OneFailureEach, ErrorIffIncomplete, [Next]_vars
  PROVE  ErrorIffIncomplete'
<1>1. CASE phase' # "returned"
  BY <1>1 DEF ErrorIffIncomplete
<1>2. CASE Interrupt
  <2>1. err' /\ cancelled' /\ status' = status /\ AtItem /\ Selected
    BY <1>2 DEF Interrupt, report
  <2>2. PICK op \in Ops : ~Settled(op)
    BY <2>1, InterruptLeavesOpen
  <2>3. ~Settled(op)'
    BY <2>1, <2>2 DEF Settled
  <2>4. QED
    BY <2>1, <2>3 DEF ErrorIffIncomplete
<1>3. CASE EndPass /\ phase' = "returned"
  <2>1. /\ phase = "checkout" /\ pos > Size /\ status' = status
        /\ err' = (\/ \E u \in Users : userFailures[u] > 0
                   \/ \E a \in Assets : assetFailures[a] > 0)
    BY <1>3 DEF EndPass, NextPhase, report, Inv, TypeOK, UserPhases, AssetPhases
  <2>2. /\ \A op \in Ops : status'[op] # "not_attempted"
        /\ err' <=> \E op \in Ops : ~Settled(op)
    BY <2>1, LastPassDecides
  <2>3. \A op \in Ops : Settled(op)' <=> Settled(op)
    BY <2>1 DEF Settled
  <2>4. QED
    BY <2>2, <2>3 DEF ErrorIffIncomplete
<1>4. CASE UNCHANGED <<phase, status, err, cancelled>>
  BY <1>4 DEF ErrorIffIncomplete, Settled
<1>5. CASE Skip \/ StartCall \/ PassPatch \/ Cancel \/ \E ok \in BOOLEAN : Finish(ok)
  <2>1. phase' # "returned"
    BY <1>5 DEF Skip, StartCall, PassPatch, Cancel, Finish, FinishUser, FinishPatch, FinishCheckin,
              FinishCheckout, Return, AtItem, progress, Inv, TypeOK, UserPhases, AssetPhases
  <2>2. QED
    BY <1>1, <2>1
<1>6. QED
  BY <1>1, <1>2, <1>3, <1>4, <1>5 DEF Next, System, Done, vars, report, progress

LEMMA SummaryInductive ==
  ASSUME Inv, SummaryTruthful, [Next]_vars
  PROVE  SummaryTruthful'
<1>1. Inv'
  BY InvInductive
<1>2. CountersMatchReport /\ OneFailureEach /\ ErrorIffIncomplete
  BY DEF SummaryTruthful
<1>3. CASE Skip \/ Interrupt \/ StartCall \/ EndPass \/ Cancel \/ UNCHANGED vars
  <2>1. UNCHANGED <<plan, status, usersApplied, assetsApplied, userFailures, assetFailures>>
    BY <1>3 DEF Skip, Interrupt, StartCall, EndPass, Cancel, vars, report
  <2>2. QED
    BY <1>2, <2>1, QuietKeepsSummary, ReturnKeepsError DEF SummaryTruthful
<1>4. CASE PassPatch
  BY <1>1, <1>2, <1>4, PassPatchKeepsSummary, ReturnKeepsError DEF SummaryTruthful
<1>5. ASSUME NEW ok \in BOOLEAN, Finish(ok) PROVE SummaryTruthful'
  BY <1>1, <1>2, <1>5, FinishUserKeepsSummary, FinishAssetKeepsSummary, ReturnKeepsError
     DEF SummaryTruthful, Finish
<1>6. QED
  BY <1>3, <1>4, <1>5 DEF Next, System, Done

LEMMA SummaryInit == Init => SummaryTruthful
<1> SUFFICES ASSUME Init PROVE SummaryTruthful
  OBVIOUS
<1>1. /\ phase = "create" /\ usersApplied = 0 /\ assetsApplied = 0
      /\ userFailures = [u \in Users |-> 0] /\ assetFailures = [a \in Assets |-> 0]
      /\ \A op \in Ops : status[op] = IF Planned(op) THEN "not_attempted" ELSE "none"
  BY DEF Init, InitialStatus
<1>2. AppliedUsers = {}
  BY <1>1, OpsOfPlan DEF AppliedUsers, Applied
<1>3. Complete = {}
  <2>1. SUFFICES ASSUME NEW a \in Assets, HasChanges(a)
                 PROVE  \E kind \in AssetPhases : ~Settled(<<kind, a>>)
    BY DEF Complete, AssetComplete
  <2>2. \E kind \in AssetPhases : Planned(<<kind, a>>)
    BY <2>1 DEF HasChanges, Planned, AssetPhases
  <2>3. QED
    BY <1>1, <2>2, OpsOfPlan DEF Settled
<1>4. CountersMatchReport
  BY <1>1, <1>2, <1>3, FS_EmptySet DEF CountersMatchReport, AppliedUsers, Complete
<1>5. OneFailureEach
  BY <1>1, OpsOfPlan DEF OneFailureEach
<1>6. QED
  BY <1>1, <1>4, <1>5 DEF SummaryTruthful, ErrorIffIncomplete

\* For every plan and every pattern of failures and cancellation, the counters
\* and the failures of the ApplyResult are what the verdicts add up to, and the
\* error is nil exactly when every planned operation was applied.
THEOREM SummaryIsTruthful == Spec => []SummaryTruthful
BY SummaryInit, SummaryInductive, InvHolds, PTL DEF Spec

----------------------------------------------------------------------------
(* The contract.                                                          *)

\* What the mapping makes of a state.
Needed == [op \in Ops |-> Needs(op)]
Over   == phase = "returned"

LEMMA NeedsAreOps ==
  ASSUME plan \in AllPlans, NEW op \in Ops
  PROVE  Needs(op) \subseteq Ops
<1>1. CASE op[1] = "user"
  BY <1>1 DEF Needs
<1>2. CASE op[1] \in AssetPhases
  <2>1. op[2] \in Assets
    BY <1>2, OpShape DEF AssetPhases
  <2>2. plan.asset[op[2]].checkout \in 0..NU
    BY <2>1 DEF AllPlans, AssetPlans
  <2>3. plan.asset[op[2]].checkout # 0 => plan.asset[op[2]].checkout \in Users
    BY <2>2, SizeAssumption DEF Users
  <2>4. QED
    BY <1>2, <2>1, <2>3, OpsOfPlan DEF Needs, AssetPhases
<1>3. QED
  BY <1>1, <1>2, OpShape

\* The result entries before the first call are an initial state of the contract.
LEMMA InitImplements == Init => Contract!CInit
<1> SUFFICES ASSUME Init PROVE Contract!CInit
  OBVIOUS
<1>1. plan \in AllPlans
  BY PlansAssumption DEF Init
<1>2. Needed \in [Ops -> SUBSET Ops]
  BY <1>1, NeedsAreOps DEF Needed
<1>3. status \in [Ops -> {"none", "not_attempted"}]
  BY DEF Init, InitialStatus
<1>4. written = {} /\ ~Over
  BY DEF Init, Over
<1>5. QED
  BY <1>2, <1>3, <1>4 DEF Contract!CInit, Needed, Over

\* A step that changes no verdict and sends nothing: a stutter, or the return.
LEMMA QuietStep ==
  ASSUME UNCHANGED <<plan, status, written>>, phase' # phase => phase # "returned"
  PROVE  [Contract!CNext]_Contract!cvars
<1>1. Needed' = Needed
  BY DEF Needed, Needs
<1>2. CASE Over' = Over
  <2>1. UNCHANGED Contract!cvars
    BY <1>1, <1>2 DEF Contract!cvars, Needed, Over
  <2>2. QED
    BY <2>1
<1>3. CASE Over' # Over
  <2>1. ~Over /\ Over'
    BY <1>3 DEF Over
  <2>2. Contract!Return
    BY <1>1, <2>1 DEF Contract!Return, Needed, Over
  <2>3. QED
    BY <2>2 DEF Contract!CNext
<1>4. QED
  BY <1>2, <1>3

\* An asset whose check-out user has no ID when its patch turn comes waits for
\* an account that could not be created.
LEMMA MissingOwnerFailed ==
  ASSUME Inv, phase = "patch", NEW a \in Assets, AssignmentErr(a),
         NEW op \in Ops, op[1] \in {"checkin", "checkout"}, op[2] = a
  PROVE  \E p \in Needs(op) : p[1] = "user" /\ p \in Ops /\ status[p] = "failed"
<1> DEFINE u == plan.asset[a].checkout
           p == <<"user", u>>
<1>1. u \in 0..NU /\ u # 0 /\ checkoutID[a] = 0
  BY DEF Inv, TypeOK, AllPlans, AssetPlans, AssignmentErr
<1>2. u \in Users
  BY <1>1, SizeAssumption DEF Users
<1>3. p \in Ops
  BY <1>2, OpsOfPlan
<1>4. checkoutID[a] = userIDs[u]
  BY <1>1 DEF Inv, IDsFollowStatus, AssetPhases
<1>5. plan.user[u] = "create" /\ status[p] # "applied"
  BY <1>1, <1>2, <1>4 DEF Inv, IDsFollowStatus, Applied
<1>6. Passed(p) /\ Planned(p)
  BY <1>5 DEF Passed, PassOf, Rank, Planned
<1>7. status[p] \in Status /\ status[p] \notin {"none", "not_attempted", "blocked"}
  BY <1>3, <1>6 DEF Inv, TypeOK, VerdictsFollowLoop
<1>8. p \in Needs(op)
  BY <1>1, <1>5 DEF Needs
<1>9. QED
  BY <1>3, <1>5, <1>7, <1>8 DEF Status

\* The operation that is being carried out waits for nothing any more.
LEMMA CurrentReady ==
  ASSUME Inv, call
  PROVE  \A p \in Needs(Current) : status[p] \in {"none", "applied"}
<1>1. phase # "returned" /\ pos <= Size /\ Attempted(Current)
  BY DEF Inv, TypeOK, Attempted
<1>2. CASE phase \in UserPhases \cup {"patch"}
  BY <1>2 DEF Needs, Current, UserPhases
<1>3. CASE phase = "checkin"
  <2>1. pos \in Assets /\ Current = <<"checkin", pos>>
    BY <1>1, <1>3, CurrentItem DEF Inv, Current, UserPhases, AssetPhases
  <2>2. /\ Settled(<<"patch", pos>>)
        /\ plan.asset[pos].checkout # 0 => OwnerExists(pos)
    BY <1>1, <2>1 DEF Inv, Prerequisites
  <2>3. QED
    BY <2>1, <2>2 DEF Needs, Settled, OwnerExists, Applied
<1>4. CASE phase = "checkout"
  <2>1. pos \in Assets /\ Current = <<"checkout", pos>>
    BY <1>1, <1>4, CurrentItem DEF Inv, Current, UserPhases, AssetPhases
  <2>2. Settled(<<"patch", pos>>) /\ Settled(<<"checkin", pos>>) /\ OwnerExists(pos)
    BY <1>1, <2>1 DEF Inv, Prerequisites
  <2>3. QED
    BY <2>1, <2>2 DEF Needs, Settled, OwnerExists, Applied
<1>5. QED
  BY <1>1, <1>2, <1>3, <1>4 DEF Inv, TypeOK, AssetPhases

\* A verdict of the pass itself changes as Contract!OthersGiveUp allows, when
\* what it blocks has a failed prerequisite.
LEMMA BlockingGivesUp ==
  ASSUME Inv, plan' = plan, NEW answer, NEW block, status' = Answered(answer, block),
         status' \in [Ops -> Status], NEW tried,
         Current \in tried \/ answer = status[Current],
         block => \A op \in Ops : op[1] \in {"checkin", "checkout"} /\ op[2] = pos /\ op # Current =>
                    \E p \in Needs(op) : p \in Ops /\ status'[p] = "failed"
  PROVE  Contract!OthersGiveUp(tried)
<1>1. status' \in [Ops -> Contract!Verdicts]
  BY DEF Status, Contract!Verdicts
<1>2. SUFFICES ASSUME NEW op \in Ops \ tried, status'[op] # status[op]
               PROVE  Contract!GiveUp(op)
  BY <1>1, Zenon DEF Contract!OthersGiveUp
<1>3. status'[op] = IF op = Current THEN answer
                    ELSE IF /\ block
                            /\ op[1] \in {"checkin", "checkout"}
                            /\ op[2] = pos
                            /\ status[op] = "not_attempted"
                         THEN "blocked" ELSE status[op]
  BY DEF Answered
<1>4. op # Current
  BY <1>2, <1>3
<1>5. /\ block /\ op[1] \in {"checkin", "checkout"} /\ op[2] = pos
      /\ status[op] = "not_attempted" /\ status'[op] = "blocked"
  BY <1>2, <1>3, <1>4
<1>6. \E p \in Needs(op) : p \in Ops /\ status'[p] = "failed"
  BY <1>2, <1>4, <1>5
<1>7. QED
  BY <1>5, <1>6 DEF Contract!GiveUp

\* What an asset pass blocks waits for something that failed.
LEMMA BlockedForCause ==
  ASSUME Inv, TypeOK', plan' = plan, phase \in {"patch", "checkin"}, pos \in Assets,
         NEW answer, NEW block, status' = Answered(answer, block),
         \/ answer = "failed" /\ block
         \/ phase = "patch" /\ (block => AssignmentErr(pos)),
         NEW op \in Ops, op[1] \in {"checkin", "checkout"}, op[2] = pos, op # Current, block
  PROVE  \E p \in Needs(op) : p \in Ops /\ status'[p] = "failed"
<1>1. Current = <<phase, pos>> /\ Current \in Ops
  BY OpsOfPlan DEF Current, UserPhases, AssetPhases
<1>2. CASE answer = "failed"
  <2>1. status'[Current] = "failed"
    BY <1>1, <1>2 DEF Answered
  <2>2. Current \in Needs(op)
    BY <1>1, OpShape DEF Needs
  <2>3. QED
    BY <1>1, <2>1, <2>2
<1>3. CASE phase = "patch" /\ AssignmentErr(pos)
  <2>1. PICK p \in Needs(op) : p[1] = "user" /\ p \in Ops /\ status[p] = "failed"
    BY <1>3, MissingOwnerFailed
  <2>2. p # Current
    BY <1>1, <2>1
  <2>3. status'[p] = "failed"
    BY <2>1, <2>2 DEF Answered
  <2>4. QED
    BY <2>1, <2>3
<1>4. QED
  BY <1>2, <1>3

\* An answered call is an attempt of the contract.
LEMMA FinishImplements ==
  ASSUME Inv, TypeOK', NEW ok \in BOOLEAN, Finish(ok)
  PROVE  Contract!Step
<1> DEFINE answer == IF ok THEN "applied" ELSE "failed"
<1>1. /\ call /\ plan' = plan /\ phase' = phase
      /\ written' = written \/ written' = written \cup {Current}
      /\ ok => written' = written \cup {Current}
  BY DEF Finish, FinishUser, FinishPatch, FinishCheckin, FinishCheckout, Return
<1>2. phase # "returned" /\ pos <= Size /\ Selected /\ (phase = "patch" => plan.asset[pos].patch)
  BY <1>1 DEF Inv, TypeOK, CallIsSelected
<1>3. /\ Current \in Ops /\ status[Current] = "not_attempted"
      /\ phase \in AssetPhases => pos \in Assets
  BY <1>2, CurrentPending, CurrentItem DEF Inv
<1>4. PICK block \in BOOLEAN :
        /\ status' = Answered(answer, block)
        /\ phase \notin {"patch", "checkin"} => ~block
        /\ \/ answer = "failed" /\ block
           \/ phase = "patch" /\ (block => AssignmentErr(pos))
           \/ ~block
  <2>1. CASE FinishUser(ok)
    BY <2>1 DEF FinishUser
  <2>2. CASE FinishPatch(ok)
    <3>1. status' = Answered(answer, ~ok \/ AssignmentErr(pos)) /\ phase = "patch"
      BY <2>2 DEF FinishPatch
    <3>2. (~ok \/ AssignmentErr(pos)) \in BOOLEAN
      BY DEF AssignmentErr
    <3>3. QED
      BY <3>1, <3>2
  <2>3. CASE FinishCheckin(ok)
    BY <2>3 DEF FinishCheckin
  <2>4. CASE FinishCheckout(ok)
    BY <2>4 DEF FinishCheckout
  <2>5. QED
    BY <2>1, <2>2, <2>3, <2>4 DEF Finish
<1>5. block => \A op \in Ops : op[1] \in {"checkin", "checkout"} /\ op[2] = pos /\ op # Current =>
                 \E p \in Needs(op) : p \in Ops /\ status'[p] = "failed"
  <2>1. SUFFICES ASSUME block, NEW op \in Ops, op[1] \in {"checkin", "checkout"}, op[2] = pos, op # Current
                 PROVE  \E p \in Needs(op) : p \in Ops /\ status'[p] = "failed"
    OBVIOUS
  <2>2. phase \in {"patch", "checkin"} /\ pos \in Assets
    BY <1>3, <1>4, <2>1 DEF AssetPhases
  <2>3. \/ answer = "failed" /\ block
        \/ phase = "patch" /\ (block => AssignmentErr(pos))
    BY <1>4, <2>1
  <2>4. QED
    BY <1>1, <1>4, <2>1, <2>2, <2>3, BlockedForCause
<1>6. Contract!OthersGiveUp({Current})
  <2>1. status' \in [Ops -> Status]
    BY DEF TypeOK
  <2>2. Current \in {Current}
    OBVIOUS
  <2>3. QED
    BY <1>1, <1>4, <1>5, <2>1, <2>2, BlockingGivesUp
<1>7. Contract!Attempt(Current)
  <2>1. Needed' = Needed /\ Over' = Over
    BY <1>1 DEF Needed, Needs, Over
  <2>2. status'[Current] = answer
    BY <1>3, <1>4 DEF Answered
  <2>3. Contract!Ready(Current)
    BY <1>1, <1>3, CurrentReady DEF Contract!Ready
  <2>4. written' \in {written, written \cup {Current}}
    BY <1>1
  <2>5. status'[Current] \in {"applied", "failed"} /\ (status'[Current] = "applied" => Current \in written')
    BY <1>1, <2>2
  <2>6. QED
    BY <1>3, <2>1, <2>3, <2>4, <2>5 DEF Contract!Attempt, Needed, Over
<1>8. QED
  BY <1>2, <1>3, <1>6, <1>7 DEF Contract!Step

\* A patch pass without a call gives up what cannot be done any more.
LEMMA PassPatchImplements ==
  ASSUME Inv, TypeOK', PassPatch
  PROVE  Contract!Step
<1> DEFINE block == AssignmentErr(pos)
<1>1. /\ phase = "patch" /\ phase' = phase /\ plan' = plan /\ written' = written /\ pos <= Size
      /\ status' = Answered("none", block)
  BY DEF PassPatch, AtItem
<1>2. Current \in Ops /\ pos \in Assets
  BY <1>1, CurrentItem DEF Inv, AssetPhases
<1>3. status[Current] = "none"
  <2>1. ~Planned(Current)
    BY <1>1 DEF PassPatch, Planned, Current, UserPhases
  <2>2. QED
    BY <1>2, <2>1 DEF Inv, VerdictsFollowLoop
<1>4. block => \A op \in Ops : op[1] \in {"checkin", "checkout"} /\ op[2] = pos /\ op # Current =>
                 \E p \in Needs(op) : p \in Ops /\ status'[p] = "failed"
  BY <1>1, <1>2, BlockedForCause
<1>5. Contract!OthersGiveUp({})
  <2>1. status' \in [Ops -> Status]
    BY DEF TypeOK
  <2>2. QED
    BY <1>1, <1>3, <1>4, <2>1, BlockingGivesUp
<1>6. Needed' = Needed /\ Over' = Over
  BY <1>1 DEF Needed, Needs, Over
<1>7. QED
  BY <1>1, <1>5, <1>6 DEF Contract!Step, Needed, Over

\* Every step of apply is a step of the contract, or changes nothing it sees.
LEMMA StepImplements ==
  ASSUME Inv, [Next]_vars
  PROVE  [Contract!CNext]_Contract!cvars
<1>1. TypeOK'
  BY TypeInductive DEF Inv
<1>2. CASE Skip \/ Interrupt \/ StartCall \/ EndPass \/ Cancel \/ UNCHANGED vars
  <2>1. UNCHANGED <<plan, status, written>> /\ (phase' # phase => phase # "returned")
    BY <1>2 DEF Skip, Interrupt, StartCall, EndPass, Cancel, AtItem, vars, report, progress
  <2>2. QED
    BY <2>1, QuietStep
<1>3. CASE PassPatch
  BY <1>1, <1>3, PassPatchImplements DEF Contract!CNext
<1>4. ASSUME NEW ok \in BOOLEAN, Finish(ok) PROVE [Contract!CNext]_Contract!cvars
  BY <1>1, <1>4, FinishImplements DEF Contract!CNext
<1>5. QED
  BY <1>2, <1>3, <1>4 DEF Next, System, Done

\* apply carries a plan out as ApplyContract promises: at most one verdict per
\* operation, an attempt only after what it waits for, nothing given up without
\* a failure to blame, and no verdict after the return.
THEOREM ApplyImplementsContract == Spec => ImplementsContract
BY InitImplements, StepImplements, InvHolds, PTL DEF Spec, ImplementsContract, Contract!Spec
============================================================================
