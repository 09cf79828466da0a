------------------------------ MODULE Planner ------------------------------
(***************************************************************************)
(* The decisions of internal/planner/planner.go as functions of the        *)
(* snapshots a cycle has read.  The maps of the Go code are functions here *)
(* whose domain is the set of their keys: accounts and assets are what     *)
(* Snipe holds by email and by serial number, users what the identity      *)
(* source lists by email, devices what is left of all device listings.     *)
(***************************************************************************)
EXTENDS Policy

CONSTANTS
  Emails,               \* normalized user principal names
  Serials,              \* normalized serial numbers
  LocationMatches(_,_), \* the condition of case i holds for a user
  SkipMatches(_,_,_)    \* the condition of rule i holds for a device and an asset

\* validateAndCompile, Snapshot and New return an error otherwise.
ASSUME PolicyAssumption == Accepted

AbsentAssets == Config.assets.absent_enabled

----------------------------------------------------------------------------
(* Users.  A user record holds `included', whether the presence, domain,   *)
(* given-name and include_when conditions of planUsers hold; `profile',    *)
(* the names; `start', the creation date; and `department', a name.        *)

UserFields == {"profile", "start_date", "department", "location"}

Internal == {e \in Emails : IsInternal(e)}

Eligible(users) == {e \in DOMAIN users \cap Internal : users[e].included}

\* The cases whose condition holds; the first one counts.
LocationHits(user) == {i \in DOMAIN Locations : LocationMatches(i, user)}

Known(user) ==
  {"profile"} \cup (IF user.start # None THEN {"start_date"} ELSE {})
              \cup (IF DepartmentKnown(user) THEN {"department"} ELSE {})
              \cup (IF LocationHits(user) # {} THEN {"location"} ELSE {})

\* What Snipe should say of a user.  A field that is not known is left alone.
Desired(user) ==
  [f \in Known(user) |->
     CASE f = "profile"    -> user.profile
       [] f = "start_date" -> user.start
       [] f = "department" -> DepartmentOf(user)
       [] f = "location"   -> Locations[CHOOSE i \in LocationHits(user) : \A j \in LocationHits(user) : i <= j]]

Differing(user, account) == {f \in Known(user) : Desired(user)[f] # account[f]}

NoPatch == [f \in {} |-> None]

\* The UserPlan of an email.  "noop" also stands for no plan at all.
PlanUser(e, users, accounts) ==
  CASE e \in Eligible(users) /\ e \notin DOMAIN accounts ->
         [action |-> "create", patch |-> Desired(users[e])]
    [] e \in Eligible(users) /\ e \in DOMAIN accounts ->
         LET fields == Differing(users[e], accounts[e])
         IN [action |-> IF fields = {} THEN "noop" ELSE "update",
             patch  |-> [f \in fields |-> Desired(users[e])[f]]]
    [] /\ e \in DOMAIN accounts \cap Internal
       /\ e \notin Eligible(users)
       /\ accounts[e].department # AbsentDepartment ->
         [action |-> "move_department", patch |-> [f \in {"department"} |-> AbsentDepartment]]
    [] OTHER -> [action |-> "noop", patch |-> NoPatch]

PlannedCreates(users, accounts) == Eligible(users) \ DOMAIN accounts

----------------------------------------------------------------------------
(* Devices.  A listing is the sequence of what every source has reported,  *)
(* by serial number and without the duplicates that Selection removes.     *)

\* The sources that report a serial number.
Reporting(listing, s) == {i \in DOMAIN listing : s \in DOMAIN listing[i]}

\* Every serial number goes to the source of the highest priority.
SelectDevices(listing) ==
  [s \in {t \in Serials : Reporting(listing, t) # {}} |->
     LET source == CHOOSE i \in Reporting(listing, s) : \A j \in Reporting(listing, s) : i <= j
     IN [name   |-> listing[source][s].name,
         user   |-> listing[source][s].user,
         source |-> source]]

----------------------------------------------------------------------------
(* Assets.  An asset is assigned to an email, to `Elsewhere' (a location,  *)
(* an asset, or a user without a known email), or to nobody.               *)

Elsewhere == "elsewhere"

NoAssetPlan == [patch |-> NoPatch, checkin |-> FALSE, checkout |-> None]

\* Snipe fields of an asset that must not be touched at all.
OutOfScope(asset) == asset.archived \/ ~Supported(asset.manufacturer)

\* The status blocks sync and is not promoted.
StatusBlocks(asset) == asset.status \notin Writable \cup PromoteFrom

\* The fields of all skip rules that match.
SkipFields(device, asset) ==
  UNION {{Config.assets.skip[i].fields[k] : k \in DOMAIN Config.assets.skip[i].fields} :
           i \in {r \in DOMAIN Config.assets.skip : SkipMatches(r, device, asset)}}

\* The target values of a present device.
PresentValue(device) ==
  [status |-> PromoteTo, name |-> device.name, managed_by |-> ManagedBy[device.source]]

\* Fault: a blank device name erases the asset's.
PresentFields_Blank(device, asset) ==
  {f \in {"status", "name", "managed_by"} :
     CASE f = "status"     -> asset.status \notin Writable
       [] f = "name"       -> device.name # asset.name /\ f \notin SkipFields(device, asset)
       [] f = "managed_by" -> ManagedBy[device.source] # asset.managed_by /\ f \notin SkipFields(device, asset)}

\* The fields they replace.  A blank device name does not erase the asset's,
\* and a promotion cannot be skipped.
PresentFields(device, asset) ==
  {f \in {"status", "name", "managed_by"} :
     CASE f = "status"     -> asset.status \notin Writable
       [] f = "name"       -> device.name \notin {None, asset.name} /\ f \notin SkipFields(device, asset)
       [] f = "managed_by" -> ManagedBy[device.source] # asset.managed_by /\ f \notin SkipFields(device, asset)}

\* Fault: accounts this very plan creates are not taken into account.
Reassigned_KnownOnly(device, asset, accounts, creates) ==
  /\ "assignment" \notin SkipFields(device, asset)
  /\ device.user # None /\ device.user \in DOMAIN accounts
  /\ asset.assigned # device.user

\* The device has a primary user who is or will be in Snipe, and someone else,
\* or nobody, has the asset.
Reassigned(device, asset, accounts, creates) ==
  /\ "assignment" \notin SkipFields(device, asset)
  /\ device.user # None /\ device.user \in DOMAIN accounts \cup creates
  /\ asset.assigned # device.user

\* A device with a name but without a user has been given back.
Released(device, asset) ==
  /\ "assignment" \notin SkipFields(device, asset)
  /\ device.user = None /\ asset.assigned # None /\ device.name # None

\* Fault: an asset is checked out over its present assignment.
PlanPresentAsset_CheckoutOnly(device, asset, accounts, creates) ==
  LET reassigned == Reassigned(device, asset, accounts, creates)
  IN [patch    |-> [f \in PresentFields(device, asset) |-> PresentValue(device)[f]],
      checkin  |-> Released(device, asset),
      checkout |-> IF reassigned THEN device.user ELSE None]

PlanPresentAsset(device, asset, accounts, creates) ==
  LET reassigned == Reassigned(device, asset, accounts, creates)
  IN [patch    |-> [f \in PresentFields(device, asset) |-> PresentValue(device)[f]],
      checkin  |-> (reassigned /\ asset.assigned # None) \/ Released(device, asset),
      checkout |-> IF reassigned THEN device.user ELSE None]

\* The asset of a device no source reports any more: whatever its status.
PlanAbsentAsset(asset) ==
  [patch    |-> [f \in {g \in {"name", "managed_by"} : asset[g] # None} |-> None],
   checkin  |-> asset.assigned # None,
   checkout |-> None]

PlanAsset(s, devices, assets, accounts, creates) ==
  CASE s \notin DOMAIN assets -> NoAssetPlan
    [] s \in DOMAIN assets /\ OutOfScope(assets[s]) -> NoAssetPlan
    [] s \in DOMAIN assets \cap DOMAIN devices /\ ~OutOfScope(assets[s]) ->
         IF StatusBlocks(assets[s]) THEN NoAssetPlan
         ELSE PlanPresentAsset(devices[s], assets[s], accounts, creates)
    [] s \in DOMAIN assets \ DOMAIN devices /\ ~OutOfScope(assets[s]) ->
         IF AbsentAssets THEN PlanAbsentAsset(assets[s]) ELSE NoAssetPlan
=============================================================================
