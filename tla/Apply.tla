------------------------------- MODULE Apply -------------------------------
(***************************************************************************)
(* Applying one reconciliation plan: Service.apply in                      *)
(* internal/app/service.go.  The plan is a finished value when apply       *)
(* starts.  apply walks it six times (three user actions, then asset       *)
(* patches, check-ins and check-outs), making one blocking Snipe call at a *)
(* time, and fills in an ApplyResult as it goes.  The context may be       *)
(* cancelled between any two steps, also while a call is outstanding, and  *)
(* a call that reports an error may or may not have taken effect in Snipe. *)
(***************************************************************************)
EXTENDS Integers, FiniteSets

CONSTANTS NU,     \* the emails of the plan are 1..NU, in plan order
          NA,     \* the asset plans are 1..NA, in plan order
          Plans   \* the plans apply may be handed

Users  == 1..NU
Assets == 1..NA

\* The three passes over the users, in the order of the slice literal the
\* outer loop ranges over, and the three passes over the assets.
UserPhases  == {"create", "update", "move_department"}
AssetPhases == {"patch", "checkin", "checkout"}

\* The answer of planner.Plan.  A user without a plan, or with UserNoop, is
\* "noop".  checkout is the email to check out to, 0 for none.
AssetPlans == [patch : BOOLEAN, checkin : BOOLEAN, checkout : 0..NU]
AllPlans   == [user  : [Users -> UserPhases \cup {"noop"}],
               asset : [Assets -> AssetPlans]]

ASSUME SizeAssumption == NU \in Nat /\ NA \in Nat
ASSUME PlansAssumption == Plans \subseteq AllPlans

\* One operation per UserResult and per Patch, Checkin, Checkout pointer of
\* an AssetResult.  The status "none" stands for a nil pointer.
UserOps  == {"user"} \X Users
AssetOps == AssetPhases \X Assets
Ops      == UserOps \cup AssetOps
Status   == {"none", "not_attempted", "applied", "failed", "blocked"}

VARIABLES
  plan,          \* the plan, never modified
  phase,         \* the pass being made, "returned" at the end
  pos,           \* the next index of that pass
  call,          \* a Snipe call for that index is outstanding
  cancelled,     \* ctx.Err() # nil
  userIDs,       \* email -> Snipe ID, 0 for no entry
  checkoutID,    \* assetApplyState.checkoutUserID
  failed,        \* assetApplyState.failed
  status,        \* OperationResult.Status of every operation
  usersApplied,  \* ApplyResult.UsersApplied
  assetsApplied, \* ApplyResult.AssetsApplied
  userFailures,  \* how many ApplyResult.Failures name the user
  assetFailures, \* how many ApplyResult.Failures name the asset
  err,           \* the returned error is not nil
  written        \* the operations whose write Snipe has carried out

progress == <<phase, pos, call>>
report   == <<status, usersApplied, assetsApplied, userFailures, assetFailures>>
vars == <<plan, progress, cancelled, userIDs, checkoutID, failed, report, err, written>>

----------------------------------------------------------------------------
(* The plan, and the loop over it.                                         *)

HasChanges(a) == LET p == plan.asset[a] IN p.patch \/ p.checkin \/ p.checkout # 0

Planned(op) ==
  CASE op[1] = "user"     -> plan.user[op[2]] # "noop"
    [] op[1] = "patch"    -> plan.asset[op[2]].patch
    [] op[1] = "checkin"  -> plan.asset[op[2]].checkin
    [] op[1] = "checkout" -> plan.asset[op[2]].checkout # 0

\* Result entries before the first call.
InitialStatus == [op \in Ops |-> IF Planned(op) THEN "not_attempted" ELSE "none"]

Size == IF phase \in UserPhases THEN NU ELSE NA

\* Fault: devices are checked out before they are checked in.
NextPhase_CheckoutFirst ==
  CASE phase = "create"          -> "update"
    [] phase = "update"          -> "move_department"
    [] phase = "move_department" -> "patch"
    [] phase = "patch"           -> "checkout"
    [] phase = "checkin"         -> "returned"
    [] phase = "checkout"        -> "checkin"

NextPhase ==
  CASE phase = "create"          -> "update"
    [] phase = "update"          -> "move_department"
    [] phase = "move_department" -> "patch"
    [] phase = "patch"           -> "checkin"
    [] phase = "checkin"         -> "checkout"
    [] phase = "checkout"        -> "returned"

\* Fault: the check-in pass forgets that the asset has already failed.
Selected_CheckinAfterFailure ==
  /\ phase \in UserPhases => plan.user[pos] = phase
  /\ phase = "patch"      => HasChanges(pos)
  /\ phase = "checkin"    => plan.asset[pos].checkin
  /\ phase = "checkout"   => ~failed[pos] /\ plan.asset[pos].checkout # 0

\* Fault: so does the check-out pass.
Selected_CheckoutAfterFailure ==
  /\ phase \in UserPhases => plan.user[pos] = phase
  /\ phase = "patch"      => HasChanges(pos)
  /\ phase = "checkin"    => ~failed[pos] /\ plan.asset[pos].checkin
  /\ phase = "checkout"   => plan.asset[pos].checkout # 0

\* The loop body does not `continue' past index pos.
Selected ==
  /\ phase \in UserPhases => plan.user[pos] = phase
  /\ phase = "patch"      => HasChanges(pos)
  /\ phase = "checkin"    => ~failed[pos] /\ plan.asset[pos].checkin
  /\ phase = "checkout"   => ~failed[pos] /\ plan.asset[pos].checkout # 0

AtItem == phase # "returned" /\ ~call /\ pos <= Size

\* The operation of index pos in this pass.
Current == IF phase \in UserPhases THEN <<"user", pos>> ELSE <<phase, pos>>

\* Fault: the missing user is never noticed.
AssignmentErr_Unchecked(a) == FALSE

\* Fault: an asset that is not to be checked out is taken to miss its user.
AssignmentErr_WithoutCheckout(a) == checkoutID[a] = 0

\* The plan wants the asset checked out and its user has no Snipe ID.
AssignmentErr(a) == plan.asset[a].checkout # 0 /\ checkoutID[a] = 0

\* Fault: blockAssignment overwrites the verdict just recorded.
Answered_BlockOverwrites(answer, block) ==
  [op \in Ops |->
     IF /\ block
        /\ op[1] \in {"checkin", "checkout"}
        /\ op[2] = pos
        /\ status[op] # "none"
     THEN "blocked"
     ELSE IF op = Current THEN answer ELSE status[op]]

\* The status map once the current operation has answered `answer' and, if
\* `block' holds, blockAssignment has run for its asset.
Answered(answer, block) ==
  [op \in Ops |->
     IF op = Current THEN answer
     ELSE IF /\ block
             /\ op[1] \in {"checkin", "checkout"}
             /\ op[2] = pos
             /\ status[op] = "not_attempted"
          THEN "blocked"
          ELSE status[op]]

----------------------------------------------------------------------------
Init ==
  /\ plan \in Plans
  /\ phase = "create" /\ pos = 1 /\ call = FALSE
  /\ cancelled = FALSE
  /\ userIDs = [u \in Users |-> IF plan.user[u] = "create" THEN 0 ELSE u]
  /\ checkoutID = [a \in Assets |-> 0]
  /\ failed = [a \in Assets |-> FALSE]
  /\ status = InitialStatus
  /\ usersApplied = 0 /\ assetsApplied = 0
  /\ userFailures = [u \in Users |-> 0]
  /\ assetFailures = [a \in Assets |-> 0]
  /\ err = FALSE
  /\ written = {}

\* Fault: the index stays at an item for which there is nothing to do.
Skip_InPlace ==
  /\ AtItem /\ ~Selected
  /\ pos' = pos
  /\ UNCHANGED <<plan, phase, call, cancelled, userIDs, checkoutID, failed, report, err, written>>

\* `continue': the pass has nothing to do for this index.
Skip ==
  /\ AtItem /\ ~Selected
  /\ pos' = pos + 1
  /\ UNCHANGED <<plan, phase, call, cancelled, userIDs, checkoutID, failed, report, err, written>>

\* Fault: apply returns while its request is still outstanding.
Interrupt_DuringCall ==
  /\ phase # "returned" /\ pos <= Size /\ Selected /\ cancelled
  /\ phase' = "returned"
  /\ err' = TRUE
  /\ UNCHANGED <<plan, pos, call, cancelled, userIDs, checkoutID, failed, report, written>>

\* The context check in front of an item finds the context cancelled: return
\* the failures so far joined with the context's error.
Interrupt ==
  /\ AtItem /\ Selected /\ cancelled
  /\ phase' = "returned"
  /\ err' = TRUE
  /\ UNCHANGED <<plan, pos, call, cancelled, userIDs, checkoutID, failed, report, written>>

\* Fault: the context is not checked before a call.
StartCall_Unchecked ==
  /\ AtItem /\ Selected
  /\ phase = "patch" => plan.asset[pos].patch
  /\ call' = TRUE
  /\ UNCHANGED <<plan, phase, pos, cancelled, userIDs, checkoutID, failed, report, err, written>>

\* The context check passes and the Snipe request is sent.
StartCall ==
  /\ AtItem /\ Selected /\ ~cancelled
  /\ phase = "patch" => plan.asset[pos].patch
  /\ call' = TRUE
  /\ UNCHANGED <<plan, phase, pos, cancelled, userIDs, checkoutID, failed, report, err, written>>

\* What every answered call does: it may have taken effect even if it is
\* reported as an error (a timeout, a lost or undecodable reply).
Return(ok) ==
  /\ call
  /\ call' = FALSE
  /\ pos' = pos + 1
  /\ \E effect \in BOOLEAN :
       /\ ok => effect
       /\ written' = IF effect THEN written \cup {Current} ELSE written
  /\ UNCHANGED <<plan, phase, cancelled, checkoutID, err>>

FinishUser(ok) ==
  /\ phase \in UserPhases
  /\ Return(ok)
  /\ status' = Answered(IF ok THEN "applied" ELSE "failed", FALSE)
  /\ userIDs' = IF ok /\ phase = "create" THEN [userIDs EXCEPT ![pos] = pos] ELSE userIDs
  /\ usersApplied' = IF ok THEN usersApplied + 1 ELSE usersApplied
  /\ userFailures' = IF ok THEN userFailures ELSE [userFailures EXCEPT ![pos] = @ + 1]
  /\ UNCHANGED <<failed, assetsApplied, assetFailures>>

\* Fault: the failure is recorded but the asset is not marked as failed.
AssetOutcome_NotMarked(bad, last) ==
  /\ failed' = failed
  /\ assetFailures' = IF bad THEN [assetFailures EXCEPT ![pos] = @ + 1] ELSE assetFailures
  /\ assetsApplied' = IF ~bad /\ last THEN assetsApplied + 1 ELSE assetsApplied
  /\ UNCHANGED <<userIDs, usersApplied, userFailures>>

\* Bookkeeping for asset pos when a pass has dealt with it.  `bad': the pass
\* recorded a failure for it; `last': the plan asks for nothing after this pass.
AssetOutcome(bad, last) ==
  /\ failed' = IF bad THEN [failed EXCEPT ![pos] = TRUE] ELSE failed
  /\ assetFailures' = IF bad THEN [assetFailures EXCEPT ![pos] = @ + 1] ELSE assetFailures
  /\ assetsApplied' = IF ~bad /\ last THEN assetsApplied + 1 ELSE assetsApplied
  /\ UNCHANGED <<userIDs, usersApplied, userFailures>>

\* Fault: a pending check-out does not keep the asset from being counted.
NoAssignment_IgnoresCheckout(a) == ~plan.asset[a].checkin

NoAssignment(a) == ~plan.asset[a].checkin /\ plan.asset[a].checkout = 0

FinishPatch(ok) ==
  LET bad == ~ok \/ AssignmentErr(pos) IN
  /\ phase = "patch"
  /\ Return(ok)
  /\ status' = Answered(IF ok THEN "applied" ELSE "failed", bad)
  /\ AssetOutcome(bad, NoAssignment(pos))

\* An asset without a field patch still passes the context check and the
\* check of its checkout user.
PassPatch ==
  LET bad == AssignmentErr(pos) IN
  /\ AtItem /\ Selected /\ ~cancelled
  /\ phase = "patch" /\ ~plan.asset[pos].patch
  /\ pos' = pos + 1
  /\ status' = Answered("none", bad)
  /\ AssetOutcome(bad, NoAssignment(pos))
  /\ UNCHANGED <<plan, phase, call, cancelled, checkoutID, err, written>>

FinishCheckin(ok) ==
  /\ phase = "checkin"
  /\ Return(ok)
  /\ status' = Answered(IF ok THEN "applied" ELSE "failed", ~ok)
  /\ AssetOutcome(~ok, plan.asset[pos].checkout = 0)

FinishCheckout(ok) ==
  /\ phase = "checkout"
  /\ Return(ok)
  /\ status' = Answered(IF ok THEN "applied" ELSE "failed", FALSE)
  /\ AssetOutcome(~ok, TRUE)

\* Fault: only the failures of the asset stages are returned.
EndPass_DropsUserFailures ==
  /\ phase # "returned" /\ ~call /\ pos > Size
  /\ phase' = NextPhase
  /\ pos' = 1
  /\ checkoutID' =
       IF phase = "move_department"
       THEN [a \in Assets |-> LET u == plan.asset[a].checkout IN IF u = 0 THEN 0 ELSE userIDs[u]]
       ELSE checkoutID
  /\ err' = IF phase = "checkout" THEN \E a \in Assets : assetFailures[a] > 0 ELSE err
  /\ UNCHANGED <<plan, call, cancelled, userIDs, failed, report, written>>

\* The pass is over.  Before the first asset pass the check-out users are
\* looked up; after the last pass apply returns its joined failures.
EndPass ==
  /\ phase # "returned" /\ ~call /\ pos > Size
  /\ phase' = NextPhase
  /\ pos' = 1
  /\ checkoutID' =
       IF phase = "move_department"
       THEN [a \in Assets |-> LET u == plan.asset[a].checkout IN IF u = 0 THEN 0 ELSE userIDs[u]]
       ELSE checkoutID
  /\ err' = IF phase = "checkout"
            THEN \/ \E u \in Users : userFailures[u] > 0
                 \/ \E a \in Assets : assetFailures[a] > 0
            ELSE err
  /\ UNCHANGED <<plan, call, cancelled, userIDs, failed, report, written>>

\* The caller cancels the context, at any time.
Cancel ==
  /\ phase # "returned" /\ ~cancelled
  /\ cancelled' = TRUE
  /\ UNCHANGED <<plan, progress, userIDs, checkoutID, failed, report, err, written>>

Finish(ok) == FinishUser(ok) \/ FinishPatch(ok) \/ FinishCheckin(ok) \/ FinishCheckout(ok)

System == Skip \/ Interrupt \/ StartCall \/ PassPatch \/ EndPass \/ \E ok \in BOOLEAN : Finish(ok)

Done == phase = "returned" /\ UNCHANGED vars

Next == System \/ Cancel \/ Done

\* apply runs on, and every Snipe call returns: the HTTP client has a timeout.
Spec == Init /\ [][Next]_vars /\ WF_vars(System)

----------------------------------------------------------------------------
(* Properties.                                                             *)

TypeOK ==
  /\ plan \in AllPlans
  /\ phase \in UserPhases \cup AssetPhases \cup {"returned"}
  /\ pos \in Nat /\ pos >= 1 /\ call \in BOOLEAN
  /\ call => phase # "returned" /\ pos <= Size
  /\ cancelled \in BOOLEAN /\ err \in BOOLEAN
  /\ userIDs \in [Users -> 0..NU]
  /\ checkoutID \in [Assets -> 0..NU]
  /\ failed \in [Assets -> BOOLEAN]
  /\ status \in [Ops -> Status]
  /\ usersApplied \in Nat /\ assetsApplied \in Nat
  /\ userFailures \in [Users -> Nat] /\ assetFailures \in [Assets -> Nat]
  /\ written \subseteq Ops

Applied(op)   == status[op] = "applied"
Settled(op)   == status[op] \in {"none", "applied"}
\* A request for the operation has been sent.
Attempted(op) == status[op] \in {"applied", "failed"} \/ (call /\ op = Current)

\* The plan's check-out user of asset a has a Snipe account: it was in the
\* snapshot, or its creation was reported as successful.
OwnerExists(a) ==
  LET u == plan.asset[a].checkout
  IN u # 0 /\ (plan.user[u] = "create" => Applied(<<"user", u>>))

\* The report can be believed (model.go:60-61): what it calls applied is in
\* Snipe, and what it calls not attempted or blocked never reached Snipe;
\* only "failed" leaves the outcome open.
ReportTruthful ==
  \A op \in Ops :
    /\ Applied(op) => op \in written
    /\ op \in written => status[op] \in {"applied", "failed"}

\* No assignment change is sent for an asset before everything it depends on
\* has succeeded: the asset's own patch, the account of the user to check out
\* to, and, for a check-out, the asset's own check-in.
Prerequisites ==
  \A a \in Assets :
    /\ Attempted(<<"checkin", a>>) =>
         /\ Settled(<<"patch", a>>)
         /\ plan.asset[a].checkout # 0 => OwnerExists(a)
    /\ Attempted(<<"checkout", a>>) =>
         /\ Settled(<<"patch", a>>) /\ Settled(<<"checkin", a>>)
         /\ OwnerExists(a)

\* A check-out is only ever sent with the ID of the planned user, never with
\* the zero value of a missing map entry.
CheckoutHasRealUser ==
  \A a \in Assets :
    Attempted(<<"checkout", a>>) => checkoutID[a] = plan.asset[a].checkout /\ checkoutID[a] # 0

\* "blocked operations have a failed prerequisite" (model.go:61).
BlockedHasFailedPrerequisite ==
  \A a \in Assets : \A op \in {<<"checkin", a>>, <<"checkout", a>>} :
    status[op] = "blocked" =>
      \/ status[<<"patch", a>>] = "failed"
      \/ op[1] = "checkout" /\ status[<<"checkin", a>>] = "failed"
      \/ LET u == plan.asset[a].checkout
         IN u # 0 /\ status[<<"user", u>>] = "failed"

\* The passes are barriers over the whole plan: no asset is touched while a
\* user is outstanding, no check-in while a patch is, and no check-out while a
\* check-in is.
PhaseBarrier ==
  \A a \in Assets :
    /\ \A kind \in AssetPhases : Attempted(<<kind, a>>) =>
         \A u \in Users : status[<<"user", u>>] # "not_attempted"
    /\ Attempted(<<"checkin", a>>) =>
         \A b \in Assets : status[<<"patch", b>>] # "not_attempted"
    /\ Attempted(<<"checkout", a>>) =>
         \A b \in Assets : status[<<"checkin", b>>] # "not_attempted"

\* Every operation of asset a the plan asks for has been applied.
AssetComplete(a) == HasChanges(a) /\ \A kind \in AssetPhases : Settled(<<kind, a>>)

\* UsersApplied and AssetsApplied count what the statuses say: an asset once,
\* and only when the last of its operations has succeeded.  (An asset with
\* nothing but a failed account is blocked, so it is not counted.)
CountersMatchReport ==
  /\ usersApplied = Cardinality({u \in Users : Applied(<<"user", u>>)})
  /\ assetsApplied = Cardinality({a \in Assets : AssetComplete(a)})

\* Failures names a user or an asset exactly once when one of its operations
\* failed or was blocked, however many were, and never otherwise.
OneFailureEach ==
  /\ \A u \in Users :
       userFailures[u] = IF status[<<"user", u>>] = "failed" THEN 1 ELSE 0
  /\ \A a \in Assets :
       assetFailures[a] =
         IF \E kind \in AssetPhases : status[<<kind, a>>] \in {"failed", "blocked"}
         THEN 1 ELSE 0

\* apply returns no error exactly when every planned operation was applied,
\* however late the context was cancelled; and when it was not interrupted it
\* leaves no operation without a verdict.
ErrorIffIncomplete ==
  phase = "returned" =>
    /\ ~err <=> \A op \in Ops : Settled(op)
    /\ ~cancelled => \A op \in Ops : status[op] # "not_attempted"

\* What apply sums up (the counters and failures of the ApplyResult, and its
\* error) is what the verdicts of the operations say.
SummaryTruthful == CountersMatchReport /\ OneFailureEach /\ ErrorIffIncomplete

\* A verdict is final: no step changes the status of an operation that has
\* one, takes back a write, or touches an operation the plan does not hold.
VerdictsAreFinal ==
  [][/\ \A op \in Ops : status[op] # "not_attempted" => status'[op] = status[op]
     /\ written \subseteq written'
     /\ \A op \in written' \ written : status[op] = "not_attempted"]_vars

\* After a cancellation no further request is sent; the outstanding one is
\* still waited for and recorded.
NoCallAfterCancel == [][cancelled /\ ~call => ~call']_vars

\* apply always returns, with or without a cancellation.
Returns == <>(phase = "returned")

----------------------------------------------------------------------------
(* The inductive invariant behind the safety properties.                   *)

\* The pass that deals with an operation, and the order of the passes.
PassOf(op) == IF op[1] = "user" THEN plan.user[op[2]] ELSE op[1]

Rank(p) ==
  CASE p = "create"          -> 1
    [] p = "update"          -> 2
    [] p = "move_department" -> 3
    [] p = "patch"           -> 4
    [] p = "checkin"         -> 5
    [] p = "checkout"        -> 6
    [] OTHER                 -> 7

\* The loops have gone past the operation.
Passed(op) == Rank(PassOf(op)) < Rank(phase) \/ (PassOf(op) = phase /\ op[2] < pos)

\* An operation the plan holds has a verdict once it is passed, and before
\* that none but "blocked".
VerdictsFollowLoop ==
  /\ \A op \in Ops : status[op] = "none" <=> ~Planned(op)
  /\ \A op \in Ops : status[op] = "blocked" => op[1] \in {"checkin", "checkout"}
  /\ phase # "returned" => \A op \in Ops :
       IF Passed(op) THEN status[op] # "not_attempted"
                     ELSE status[op] \in {"none", "not_attempted", "blocked"}

\* failed marks the assets with an operation that failed or was blocked, and
\* such an asset has nothing left to do.  None is marked before its patch turn.
FailedFollowsStatus ==
  \A a \in Assets :
    /\ failed[a] <=> \E kind \in AssetPhases : status[<<kind, a>>] \in {"failed", "blocked"}
    /\ failed[a] => \A kind \in AssetPhases : status[<<kind, a>>] # "not_attempted"
    /\ failed[a] => phase \notin UserPhases /\ (phase = "patch" => a < pos)

\* The ID map holds the users of the snapshot and those created so far, and
\* the asset passes work with the IDs of the users they were planned for.
IDsFollowStatus ==
  /\ \A u \in Users :
       userIDs[u] = IF plan.user[u] = "create" /\ ~Applied(<<"user", u>>) THEN 0 ELSE u
  /\ phase \in AssetPhases => \A a \in Assets :
       LET u == plan.asset[a].checkout IN
       /\ checkoutID[a] = IF u = 0 THEN 0 ELSE userIDs[u]
       /\ HasChanges(a) /\ (phase = "patch" => a < pos) /\ ~failed[a] => ~AssignmentErr(a)

\* The call that is outstanding passed the guard of its loop.
CallIsSelected == call => Selected /\ (phase = "patch" => plan.asset[pos].patch)

Inv ==
  /\ TypeOK
  /\ VerdictsFollowLoop
  /\ FailedFollowsStatus
  /\ IDsFollowStatus
  /\ CallIsSelected
  /\ ReportTruthful
  /\ Prerequisites
  /\ CheckoutHasRealUser
  /\ BlockedHasFailedPrerequisite
  /\ PhaseBarrier

----------------------------------------------------------------------------
(* What apply promises, without passes and positions: see ApplyContract.   *)

\* What an operation waits for.
Needs(op) ==
  LET a == op[2]
      u == plan.asset[a].checkout
      owner == IF u # 0 /\ plan.user[u] = "create" THEN {<<"user", u>>} ELSE {}
  IN CASE op[1] = "checkin"  -> {<<"patch", a>>} \cup owner
       [] op[1] = "checkout" -> {<<"patch", a>>, <<"checkin", a>>} \cup owner
       [] OTHER              -> {}

Contract == INSTANCE ApplyContract
              WITH needs <- [op \in Ops |-> Needs(op)], returned <- phase = "returned"

\* apply implements the contract.
ImplementsContract == Contract!Spec
=============================================================================
