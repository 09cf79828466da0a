----------------------------- MODULE Reconcile -----------------------------
(***************************************************************************)
(* The continuous service: cycle after cycle reads the sources and Snipe,  *)
(* plans (Planner) and applies the plan (the order of Apply), against a    *)
(* world that changes at any moment.  A cycle reads every part of its      *)
(* snapshot at a moment of its own, its plan is as old as those readings,  *)
(* its calls fail or lose their replies, and it may be cut short by a      *)
(* crash, a cancellation or a failed read.  Nothing but the world survives *)
(* a cycle.  The identity source is read as EntraSource promises: every    *)
(* user as of some moment of the read.                                     *)
(***************************************************************************)
EXTENDS Planner

CONSTANTS
  UserRecords, DeviceRecords, AccountRecords, AssetRecords, \* what others may write
  Worlds,      \* the initial worlds: [users, listing, accounts, assets]
  MaxChanges,  \* bound: changes to the world by others
  MaxFaults    \* bound: failed reads, lost calls and replies, crashes

ASSUME BoundAssumption == MaxChanges \in Nat /\ MaxFaults \in Nat

AssetFields == {"name", "managed_by", "status", "archived", "manufacturer", "assigned"}

\* The sources and Snipe: who and what they hold, by email and serial number.
IsWorld(w) ==
  /\ DOMAIN w = {"users", "listing", "accounts", "assets"}
  /\ DOMAIN w.users \subseteq Emails /\ DOMAIN w.accounts \subseteq Emails
  /\ DOMAIN w.listing = DOMAIN ManagedBy
  /\ \A i \in DOMAIN w.listing : DOMAIN w.listing[i] \subseteq Serials
  /\ DOMAIN w.assets \subseteq Serials
  /\ \A e \in DOMAIN w.accounts : DOMAIN w.accounts[e] = UserFields
  /\ \A s \in DOMAIN w.assets : DOMAIN w.assets[s] = AssetFields

\* No email is blank, and the device sources are numbered.
ASSUME KeyAssumption == None \notin Emails /\ DOMAIN ManagedBy \subseteq Nat

ASSUME WorldAssumption ==
  /\ \A w \in Worlds : IsWorld(w)
  /\ \A account \in AccountRecords : DOMAIN account = UserFields
  /\ \A asset \in AssetRecords : DOMAIN asset = AssetFields

VARIABLES
  world,    \* the sources and Snipe
  changes,  \* how often others have changed it
  faults,   \* how many faults there were
  pc,       \* "idle", "reading" or "applying"
  unread,   \* the parts of the snapshot still to be read
  seen,     \* the parts read, as a world
  plan,     \* [users, assets], by email and serial number
  todo,     \* the operations of the plan without a verdict
  touched   \* history: emails and serials changed by others, or with a failed
            \* operation, since the cycle began

env   == <<world, changes>>
cycle == <<pc, unread, seen, plan, todo>>
vars  == <<env, faults, cycle, touched>>

----------------------------------------------------------------------------
(* Others: administrators, users, enrolments.                              *)

Put(f, key, value) == [k \in DOMAIN f \cup {key} |-> IF k = key THEN value ELSE f[k]]
Drop(f, key)       == [k \in DOMAIN f \ {key} |-> f[k]]

\* Every way to add, replace or remove one entry of a map.
Edits(f, key, values) == ({Put(f, key, v) : v \in values} \cup {Drop(f, key)}) \ {f}

Change(key) ==
  /\ changes < MaxChanges
  /\ changes' = changes + 1
  /\ touched' = touched \cup {key}
  /\ UNCHANGED <<faults, cycle>>

ChangeUser(e) ==
  /\ Change(e)
  /\ \E users \in Edits(world.users, e, UserRecords) : world' = [world EXCEPT !.users = users]

ChangeDevice(i, s) ==
  /\ Change(s)
  /\ \E devices \in Edits(world.listing[i], s, DeviceRecords) :
       world' = [world EXCEPT !.listing[i] = devices]

ChangeAccount(e) ==
  /\ Change(e)
  /\ \E accounts \in Edits(world.accounts, e, AccountRecords) :
       world' = [world EXCEPT !.accounts = accounts]

ChangeAsset(s) ==
  /\ Change(s)
  /\ \E assets \in Edits(world.assets, s, AssetRecords) : world' = [world EXCEPT !.assets = assets]

----------------------------------------------------------------------------
(* Reading and planning.                                                   *)

NoSnapshot == [users |-> NoPatch, listing |-> <<>>, accounts |-> NoPatch, assets |-> NoPatch]
NoPlan == [users |-> NoPatch, assets |-> NoPatch]

Parts == {<<"users", 0>>, <<"accounts", 0>>, <<"assets", 0>>}
           \cup {<<"listing", i>> : i \in DOMAIN ManagedBy}

Begin ==
  /\ pc = "idle"
  /\ pc' = "reading"
  /\ unread' = Parts
  /\ seen' = [NoSnapshot EXCEPT !.listing = [i \in DOMAIN ManagedBy |-> NoPatch]]
  /\ touched' = {}
  /\ UNCHANGED <<env, faults, plan, todo>>

\* The reads run concurrently; only the assets are read after the accounts.
Read(part) ==
  /\ pc = "reading" /\ part \in unread
  /\ part[1] = "assets" => <<"accounts", 0>> \notin unread
  /\ unread' = unread \ {part}
  /\ seen' = IF part[1] = "listing"
             THEN [seen EXCEPT !.listing[part[2]] = world.listing[part[2]]]
             ELSE [seen EXCEPT ![part[1]] = world[part[1]]]
  /\ UNCHANGED <<env, faults, pc, plan, todo, touched>>

UserOp(e) == <<"user", e>>

\* The operations a plan asks for.
OpsOf(p) ==
  {UserOp(e) : e \in {d \in DOMAIN p.users : p.users[d].action # "noop"}}
    \cup {<<"patch", s>>    : s \in {t \in DOMAIN p.assets : p.assets[t].patch # NoPatch}}
    \cup {<<"checkin", s>>  : s \in {t \in DOMAIN p.assets : p.assets[t].checkin}}
    \cup {<<"checkout", s>> : s \in {t \in DOMAIN p.assets : p.assets[t].checkout # None}}

PlanOf(w) ==
  LET devices == SelectDevices(w.listing)
      creates == PlannedCreates(w.users, w.accounts)
  IN [users  |-> [e \in DOMAIN w.users \cup DOMAIN w.accounts |-> PlanUser(e, w.users, w.accounts)],
      assets |-> [s \in DOMAIN devices \cup DOMAIN w.assets |->
                    PlanAsset(s, devices, w.assets, w.accounts, creates)]]

MakePlan ==
  /\ pc = "reading" /\ unread = {}
  /\ pc' = "applying"
  /\ plan' = PlanOf(seen)
  /\ todo' = OpsOf(PlanOf(seen))
  /\ seen' = NoSnapshot
  /\ UNCHANGED <<env, faults, unread, touched>>

----------------------------------------------------------------------------
(* Applying.                                                               *)

Rank(op) ==
  CASE op[1] = "user"     -> IF plan.users[op[2]].action = "create" THEN 1
                             ELSE IF plan.users[op[2]].action = "update" THEN 2 ELSE 3
    [] op[1] = "patch"    -> 4
    [] op[1] = "checkin"  -> 5
    [] op[1] = "checkout" -> 6

\* One pass after the other.
Due(op) == op \in todo /\ \A other \in todo : Rank(op) <= Rank(other)

\* The operations that are blocked when this one fails.
Dependents(op) ==
  LET s == op[2] IN
  CASE op[1] = "patch"   -> {<<"checkin", s>>, <<"checkout", s>>}
    [] op[1] = "checkin" -> {<<"checkout", s>>}
    [] op[1] = "user" /\ plan.users[op[2]].action = "create" ->
         {<<kind, t>> : kind \in {"checkin", "checkout"},
                        t \in {u \in DOMAIN plan.assets : plan.assets[u].checkout = op[2]}}
    [] OTHER -> {}

\* Snipe: a sparse update of a record, and of one with nothing in it yet.
Overlay(patch, record) == [f \in DOMAIN record |-> IF f \in DOMAIN patch THEN patch[f] ELSE record[f]]

NoAccount == [f \in UserFields |-> None]

\* Snipe: whether it can carry out an operation, and what becomes of it.
Works(op) ==
  LET id == op[2] IN
  CASE op[1] = "user"     -> (plan.users[id].action = "create") <=> (id \notin DOMAIN world.accounts)
    [] op[1] = "patch"    -> id \in DOMAIN world.assets
    [] op[1] = "checkin"  -> id \in DOMAIN world.assets /\ world.assets[id].assigned # None
    [] op[1] = "checkout" -> /\ id \in DOMAIN world.assets /\ world.assets[id].assigned = None
                             /\ plan.assets[id].checkout \in DOMAIN world.accounts

Carry(op) ==
  LET id == op[2] IN
  CASE op[1] = "user" ->
         LET old == IF id \in DOMAIN world.accounts THEN world.accounts[id] ELSE NoAccount
         IN [world EXCEPT !.accounts = Put(@, id, Overlay(plan.users[id].patch, old))]
    [] op[1] = "patch"    -> [world EXCEPT !.assets[id] = Overlay(plan.assets[id].patch, @)]
    [] op[1] = "checkin"  -> [world EXCEPT !.assets[id].assigned = None]
    [] op[1] = "checkout" -> [world EXCEPT !.assets[id].assigned = plan.assets[id].checkout]

Succeed(op) ==
  /\ pc = "applying" /\ Due(op) /\ Works(op)
  /\ world' = Carry(op)
  /\ todo' = todo \ {op}
  /\ UNCHANGED <<changes, faults, pc, unread, seen, plan, touched>>

\* The operation is reported as failed, and what depends on it is dropped.
Failed(op) ==
  /\ pc = "applying" /\ Due(op)
  /\ todo' = todo \ ({op} \cup Dependents(op))
  /\ touched' = touched \cup {op[2]}
  /\ UNCHANGED <<changes, pc, unread, seen, plan>>

\* Snipe refuses what the plan, made from older readings, asks for.
Refused(op) ==
  /\ Failed(op) /\ ~Works(op)
  /\ UNCHANGED <<world, faults>>

\* The request or the reply is lost.
Lost(op) ==
  /\ faults < MaxFaults /\ faults' = faults + 1
  /\ Failed(op) /\ Works(op)
  /\ world' \in {world, Carry(op)}

\* Every operation has a verdict.
EndCycle ==
  /\ pc = "applying" /\ todo = {}
  /\ pc' = "idle"
  /\ plan' = NoPlan
  /\ UNCHANGED <<env, faults, unread, seen, todo, touched>>

\* Fault: what was left to do outlives the cycle.
Abort_KeepsTodo ==
  /\ pc # "idle" /\ faults < MaxFaults
  /\ faults' = faults + 1
  /\ pc' = "idle"
  /\ unread' = {} /\ seen' = NoSnapshot
  /\ UNCHANGED <<env, plan, todo, touched>>

\* A read fails, the context is cancelled, or the process dies and is started
\* again: the cycle ends where it is.
Abort ==
  /\ pc # "idle" /\ faults < MaxFaults
  /\ faults' = faults + 1
  /\ pc' = "idle"
  /\ unread' = {} /\ seen' = NoSnapshot /\ plan' = NoPlan /\ todo' = {}
  /\ UNCHANGED <<env, touched>>

----------------------------------------------------------------------------
Init ==
  /\ world \in Worlds
  /\ changes = 0 /\ faults = 0
  /\ pc = "idle" /\ unread = {} /\ seen = NoSnapshot /\ plan = NoPlan /\ todo = {}
  /\ touched = {}

System ==
  \/ Begin \/ MakePlan \/ EndCycle
  \/ \E part \in Parts : Read(part)
  \/ \E op \in todo : Succeed(op) \/ Refused(op)

Others ==
  \/ \E e \in Emails : ChangeUser(e) \/ ChangeAccount(e)
  \/ \E s \in Serials : ChangeAsset(s) \/ \E i \in DOMAIN ManagedBy : ChangeDevice(i, s)

Faults == Abort \/ \E op \in todo : Lost(op)

Next == System \/ Others \/ Faults

\* The loop keeps running cycles, and requests are answered.
Spec == Init /\ [][Next]_vars /\ WF_vars(System)

----------------------------------------------------------------------------
(* What it means for Snipe to agree with the sources, said without plans.  *)

UserMirrored(e) ==
  LET user == world.users[e] IN
  IF e \in Eligible(world.users)
  THEN /\ e \in DOMAIN world.accounts
       /\ \A f \in Known(user) : world.accounts[e][f] = Desired(user)[f]
  ELSE e \in DOMAIN world.accounts \cap Internal => world.accounts[e].department = AbsentDepartment

DeviceOf(s) == SelectDevices(world.listing)[s]

\* Asset s agrees with the device that the first source reports for it.
PresentMirrored(s) ==
  LET asset   == world.assets[s]
      device  == DeviceOf(s)
      skipped == SkipFields(device, asset)
  IN /\ asset.status \in Writable
     /\ device.name # None => asset.name = device.name \/ "name" \in skipped
     /\ asset.managed_by = ManagedBy[device.source] \/ "managed_by" \in skipped
     /\ \/ "assignment" \in skipped
        \/ /\ device.user \in DOMAIN world.accounts => asset.assigned = device.user
           /\ device.user = None /\ device.name # None => asset.assigned = None

AssetMirrored(s) ==
  s \in DOMAIN world.assets /\ ~OutOfScope(world.assets[s]) =>
    IF s \in DOMAIN SelectDevices(world.listing)
    THEN StatusBlocks(world.assets[s]) \/ PresentMirrored(s)
    ELSE AbsentAssets =>
           \A f \in {"name", "managed_by", "assigned"} : world.assets[s][f] = None

\* Neither s nor the user of its device was changed or failed in this cycle.
Undisturbed(s) ==
  /\ s \notin touched
  /\ s \in DOMAIN SelectDevices(world.listing) => DeviceOf(s).user \notin touched

----------------------------------------------------------------------------
(* Properties.                                                             *)

TypeOK ==
  /\ IsWorld(world)
  /\ changes \in 0..MaxChanges /\ faults \in 0..MaxFaults
  /\ pc \in {"idle", "reading", "applying"}
  /\ unread \subseteq Parts /\ todo \subseteq OpsOf(plan)
  /\ pc # "applying" => todo = {} /\ plan = NoPlan
  /\ touched \subseteq Emails \cup Serials

\* The tool never writes to an account or an asset that already agrees with
\* the sources (or is out of its scope), unless the item itself was changed
\* under its hands, or a call for it failed, in the same cycle.
NoNeedlessWrite ==
  [][changes' = changes =>
       /\ \A e \in DOMAIN world'.accounts \ touched :
            UserMirrored(e) => world'.accounts[e] = world.accounts[e]
       /\ \A s \in DOMAIN world.assets :
            Undisturbed(s) /\ AssetMirrored(s) => world'.assets[s] = world.assets[s]]_vars

\* A cycle that runs to its end leaves every account and asset in agreement
\* with the sources that was left alone, and had no failure, in the meantime.
OneCycleSuffices ==
  [][EndCycle =>
       /\ \A e \in Emails \ touched : UserMirrored(e)
       /\ \A s \in Serials : Undisturbed(s) => AssetMirrored(s)]_vars

\* "StatusPromotion maps blocked source statuses to a writable target status"
\* (config/schema.go:105): a status the tool sets is one that does not block.
PromotionUnblocks ==
  [][changes' = changes => \A s \in DOMAIN world.assets :
       world'.assets[s].status # world.assets[s].status => world'.assets[s].status \in Writable]_vars

\* "UserAbsent selects the department for internal target users absent from
\* Entra" (config/schema.go:85), and the report calls the move "absent from
\* source" (output.go:119): the tool moves nobody whom the source lists.
MovesOnlyAbsentUsers ==
  [][changes' = changes => \A e \in DOMAIN world.accounts \ touched :
       /\ world'.accounts[e].department # world.accounts[e].department
       /\ world'.accounts[e].department = AbsentDepartment
       => e \notin DOMAIN world.users]_vars

\* When the world stays as it is and faults cease, Snipe comes to agree with
\* the sources and stays so, whatever was lost or left half done before: an
\* asset checked in but not out again, an account created without a reply.
Converges ==
  <>[](/\ \A e \in Emails : UserMirrored(e)
       /\ \A s \in Serials : AssetMirrored(s))
=============================================================================
