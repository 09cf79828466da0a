-------------------------- MODULE ReconcileProofs --------------------------
(***************************************************************************)
(* A cycle does what its plan was made for, for any people, devices and    *)
(* configuration: at every moment, what is left to do for an item that was *)
(* left alone is exactly what a plan made at that moment would ask for.    *)
(***************************************************************************)
EXTENDS Reconcile, WellFoundedInduction, TLAPS

----------------------------------------------------------------------------
(* The invariant.                                                          *)

\* Two maps have the same entry, or both none, for a key.
SameAt(f, g, key) ==
  /\ key \in DOMAIN f <=> key \in DOMAIN g
  /\ key \in DOMAIN f => f[key] = g[key]

\* What has been read in this cycle is still so where nobody has changed it.
ReadingCurrent ==
  pc = "reading" =>
    /\ \A e \in Emails \ touched :
         /\ <<"users", 0>> \notin unread => SameAt(seen.users, world.users, e)
         /\ <<"accounts", 0>> \notin unread => SameAt(seen.accounts, world.accounts, e)
    /\ \A s \in Serials \ touched :
         /\ <<"assets", 0>> \notin unread => SameAt(seen.assets, world.assets, s)
         /\ \A i \in DOMAIN ManagedBy :
              <<"listing", i>> \notin unread => SameAt(seen.listing[i], world.listing[i], s)

SeenShape ==
  pc = "reading" =>
    /\ DOMAIN seen = {"users", "listing", "accounts", "assets"}
    /\ DOMAIN seen.users \subseteq Emails /\ DOMAIN seen.accounts \subseteq Emails
    /\ DOMAIN seen.listing = DOMAIN ManagedBy
    /\ DOMAIN seen.assets \subseteq Serials

PlanShape == DOMAIN plan.users \subseteq Emails /\ DOMAIN plan.assets \subseteq Serials

\* The operation of a user that is left, if any, is what a plan made now asks for.
UserNow(e) == PlanUser(e, world.users, world.accounts)

UserCurrent(e) ==
  /\ UserOp(e) \in todo <=> UserNow(e).action # "noop"
  /\ UserOp(e) \in todo => plan.users[e] = UserNow(e)

UsersCurrent == pc = "applying" => \A e \in Emails \ touched : UserCurrent(e)

\* The accounts still to be created.
Pending == {e \in Emails : UserOp(e) \in todo /\ plan.users[e].action = "create"}

\* The same of an asset, if the accounts still to be created are counted.
AssetNow(s) ==
  PlanAsset(s, SelectDevices(world.listing), world.assets, world.accounts, Pending)

AssetCurrent(s) ==
  LET now == AssetNow(s) IN
  /\ <<"patch", s>> \in todo <=> now.patch # NoPatch
  /\ <<"patch", s>> \in todo => plan.assets[s].patch = now.patch
  /\ <<"checkin", s>> \in todo <=> now.checkin
  /\ <<"checkout", s>> \in todo <=> now.checkout # None
  /\ <<"checkout", s>> \in todo => plan.assets[s].checkout = now.checkout

\* An asset is only ever checked out to the user of its device.
CheckoutOwn(s) ==
  s \in DOMAIN plan.assets /\ plan.assets[s].checkout # None =>
    s \in DOMAIN SelectDevices(world.listing) /\ plan.assets[s].checkout = DeviceOf(s).user

AssetsCurrent ==
  pc = "applying" => \A s \in Serials : Undisturbed(s) => AssetCurrent(s) /\ CheckoutOwn(s)

Types == TypeOK /\ SeenShape /\ PlanShape

IInv == Types /\ ReadingCurrent /\ UsersCurrent /\ AssetsCurrent

----------------------------------------------------------------------------
(* What the decisions depend on.                                           *)

\* Editing one entry of a map leaves the others alone.
LEMMA EditsKeepOthers ==
  ASSUME NEW f, NEW key, NEW values, NEW g \in Edits(f, key, values)
  PROVE  /\ DOMAIN g \subseteq DOMAIN f \cup {key}
         /\ \A k : k # key => SameAt(g, f, k)
         /\ \A k \in DOMAIN g : g[k] \in values \/ (k \in DOMAIN f /\ g[k] = f[k])
<1> DEFINE Kept == /\ DOMAIN g \subseteq DOMAIN f \cup {key}
                   /\ \A k : k # key => SameAt(g, f, k)
                   /\ \A k \in DOMAIN g : g[k] \in values \/ (k \in DOMAIN f /\ g[k] = f[k])
<1>1. ASSUME NEW v \in values, g = Put(f, key, v) PROVE Kept
  BY <1>1 DEF Put, SameAt
<1>2. CASE g = Drop(f, key)
  BY <1>2 DEF Drop, SameAt
<1>3. QED
  BY <1>1, <1>2 DEF Edits

\* The plan of a user depends on what is listed and held for that email only.
LEMMA PlanUserDepends ==
  ASSUME NEW e, NEW users, NEW users2, SameAt(users, users2, e),
         NEW accounts, NEW accounts2, SameAt(accounts, accounts2, e)
  PROVE  PlanUser(e, users, accounts) = PlanUser(e, users2, accounts2)
<1>1. e \in Eligible(users) <=> e \in Eligible(users2)
  BY DEF Eligible, SameAt
<1>2. e \in Eligible(users) => users[e] = users2[e]
  BY DEF Eligible, SameAt
<1>3. e \in DOMAIN accounts <=> e \in DOMAIN accounts2
  BY DEF SameAt
<1>4. e \in DOMAIN accounts => accounts[e] = accounts2[e]
  BY DEF SameAt
<1>5. QED
  BY <1>1, <1>2, <1>3, <1>4 DEF PlanUser

\* The first of the sources that report a device is one of them.
LEMMA FirstSource ==
  ASSUME NEW S, S \subseteq Nat, S # {}
  PROVE  \E i \in S : \A j \in S : i <= j
<1> DEFINE Less == {ss \in Nat \X Nat : ss[1] < ss[2]}
<1>1. IsWellFoundedOn(Less, Nat)
  BY NatLessThanWellFounded DEF OpToRel
<1>2. PICK i \in S : \A j \in S : <<j, i>> \notin Less
  <2> HIDE DEF Less
  <2> QED
    BY <1>1, WFMin
<1>3. ASSUME NEW j \in S, j < i PROVE FALSE
  <2>1. <<j, i>> \in Nat \X Nat /\ <<j, i>>[1] = j /\ <<j, i>>[2] = i
    OBVIOUS
  <2>2. <<j, i>> \in Less
    BY <1>3, <2>1
  <2>3. QED
    BY <1>2, <2>2
<1>4. QED
  BY <1>3

\* The device of a serial number is what the listings say under that number.
LEMMA SelectDepends ==
  ASSUME NEW s \in Serials, NEW listing, NEW listing2,
         DOMAIN listing = DOMAIN ManagedBy, DOMAIN listing2 = DOMAIN ManagedBy,
         \A i \in DOMAIN ManagedBy : SameAt(listing[i], listing2[i], s)
  PROVE  SameAt(SelectDevices(listing), SelectDevices(listing2), s)
<1>1. Reporting(listing, s) = Reporting(listing2, s)
  BY DEF Reporting, SameAt
<1> DEFINE R == Reporting(listing, s)
           first == CHOOSE i \in R : \A j \in R : i <= j
<1>2. CASE R = {}
  BY <1>1, <1>2 DEF SelectDevices, SameAt
<1>3. CASE R # {}
  <2>1. R \subseteq Nat
    BY KeyAssumption DEF Reporting
  <2>2. first \in R
    BY <1>3, <2>1, FirstSource
  <2>3. listing[first][s] = listing2[first][s]
    BY <2>2 DEF Reporting, SameAt
  <2>4. s \in DOMAIN SelectDevices(listing) /\ s \in DOMAIN SelectDevices(listing2)
    BY <1>1, <1>3 DEF SelectDevices
  <2>5. SelectDevices(listing)[s] = SelectDevices(listing2)[s]
    BY <1>1, <1>3, <2>3 DEF SelectDevices
  <2>6. QED
    BY <2>4, <2>5 DEF SameAt
<1>4. QED
  BY <1>2, <1>3

\* Whether there is, or will be, an account for the user of a device.
Served(devices, accounts, creates, s) ==
  s \in DOMAIN devices => devices[s].user \in DOMAIN accounts \cup creates

\* The plan of an asset depends on the asset, its device and whether the user of
\* the device is served.
LEMMA PlanAssetDepends ==
  ASSUME NEW s, NEW devices, NEW devices2, SameAt(devices, devices2, s),
         NEW assets, NEW assets2, SameAt(assets, assets2, s),
         NEW accounts, NEW accounts2, NEW creates, NEW creates2,
         s \in DOMAIN devices =>
           (devices[s].user \in DOMAIN accounts \cup creates
              <=> devices2[s].user \in DOMAIN accounts2 \cup creates2)
  PROVE  PlanAsset(s, devices, assets, accounts, creates)
           = PlanAsset(s, devices2, assets2, accounts2, creates2)
<1>1. CASE s \notin DOMAIN assets
  BY <1>1 DEF PlanAsset, SameAt
<1>2. CASE s \in DOMAIN assets \ DOMAIN devices
  BY <1>2 DEF PlanAsset, SameAt
<1>3. CASE s \in DOMAIN assets \cap DOMAIN devices
  <2>1. /\ s \in DOMAIN assets2 \cap DOMAIN devices2
        /\ assets[s] = assets2[s] /\ devices[s] = devices2[s]
    BY <1>3 DEF SameAt
  <2>2. Reassigned(devices[s], assets[s], accounts, creates)
          <=> Reassigned(devices2[s], assets2[s], accounts2, creates2)
    BY <1>3, <2>1 DEF Reassigned
  <2>3. PlanPresentAsset(devices[s], assets[s], accounts, creates)
          = PlanPresentAsset(devices2[s], assets2[s], accounts2, creates2)
    BY <2>1, <2>2 DEF PlanPresentAsset
  <2>4. QED
    BY <1>3, <2>1, <2>3 DEF PlanAsset
<1>4. QED
  BY <1>1, <1>2, <1>3

----------------------------------------------------------------------------
(* A plan asks for nothing where, and only where, Snipe agrees.            *)

LEMMA UserNowCases ==
  ASSUME NEW e
  PROVE  /\ e \in Eligible(world.users) /\ e \notin DOMAIN world.accounts =>
              UserNow(e) = [action |-> "create", patch |-> Desired(world.users[e])]
         /\ e \in Eligible(world.users) /\ e \in DOMAIN world.accounts =>
              UserNow(e) =
                [action |-> IF Differing(world.users[e], world.accounts[e]) = {} THEN "noop" ELSE "update",
                 patch  |-> [f \in Differing(world.users[e], world.accounts[e]) |-> Desired(world.users[e])[f]]]
         /\ e \notin Eligible(world.users) =>
              UserNow(e) =
                IF e \in DOMAIN world.accounts \cap Internal /\ world.accounts[e].department # AbsentDepartment
                THEN [action |-> "move_department", patch |-> [f \in {"department"} |-> AbsentDepartment]]
                ELSE [action |-> "noop", patch |-> NoPatch]
BY DEF UserNow, PlanUser

LEMMA CreatedIsMissing ==
  ASSUME NEW e, UserNow(e).action = "create"
  PROVE  e \in Eligible(world.users) /\ e \notin DOMAIN world.accounts
BY UserNowCases

LEMMA NoopIsMirrored ==
  ASSUME NEW e
  PROVE  UserNow(e).action = "noop" <=> UserMirrored(e)
<1>1. CASE e \in Eligible(world.users) /\ e \notin DOMAIN world.accounts
  BY <1>1, UserNowCases DEF UserMirrored
<1>2. CASE e \in Eligible(world.users) /\ e \in DOMAIN world.accounts
  <2>1. UserNow(e).action = "noop" <=> Differing(world.users[e], world.accounts[e]) = {}
    <3> DEFINE d == Differing(world.users[e], world.accounts[e])
    <3>1. UserNow(e) = [action |-> IF d = {} THEN "noop" ELSE "update",
                        patch  |-> [f \in d |-> Desired(world.users[e])[f]]]
      BY <1>2, UserNowCases
    <3> HIDE DEF d
    <3>2. UserNow(e).action = IF d = {} THEN "noop" ELSE "update"
      BY <3>1
    <3>3. QED
      BY <3>2 DEF d
  <2>2. Differing(world.users[e], world.accounts[e]) = {}
          <=> \A f \in Known(world.users[e]) : world.accounts[e][f] = Desired(world.users[e])[f]
    BY DEF Differing
  <2>3. QED
    BY <1>2, <2>1, <2>2 DEF UserMirrored
<1>3. CASE e \notin Eligible(world.users)
  BY <1>3, UserNowCases DEF UserMirrored
<1>4. QED
  BY <1>1, <1>2, <1>3

\* A patch is empty when it has no fields.
LEMMA EmptyPatch ==
  ASSUME NEW S, NEW p, p = [f \in S |-> p[f]]
  PROVE  p = NoPatch <=> S = {}
<1>1. DOMAIN p = S
  OBVIOUS
<1>2. S # {} => p # NoPatch
  BY <1>1 DEF NoPatch
<1>3. ASSUME S = {} PROVE p = NoPatch
  BY <1>3 DEF NoPatch
<1>4. QED
  BY <1>2, <1>3

Trivial(p) == p.patch = NoPatch /\ ~p.checkin /\ p.checkout = None

LEMMA PresentFieldsEmpty ==
  ASSUME NEW device, NEW asset
  PROVE  PresentFields(device, asset) = {} <=>
           /\ asset.status \in Writable
           /\ device.name \in {None, asset.name} \/ "name" \in SkipFields(device, asset)
           /\ ManagedBy[device.source] = asset.managed_by \/ "managed_by" \in SkipFields(device, asset)
<1>1. /\ "status" \in PresentFields(device, asset) <=> asset.status \notin Writable
      /\ "name" \in PresentFields(device, asset) <=>
           device.name \notin {None, asset.name} /\ "name" \notin SkipFields(device, asset)
      /\ "managed_by" \in PresentFields(device, asset) <=>
           ManagedBy[device.source] # asset.managed_by /\ "managed_by" \notin SkipFields(device, asset)
  BY DEF PresentFields
<1>2. PresentFields(device, asset) \subseteq {"status", "name", "managed_by"}
  BY DEF PresentFields
<1>3. QED
  BY <1>1, <1>2

LEMMA TrivialPresent ==
  ASSUME NEW device, NEW asset, NEW accounts, None \notin DOMAIN accounts
  PROVE  Trivial(PlanPresentAsset(device, asset, accounts, {})) <=>
           /\ PresentFields(device, asset) = {}
           /\ \/ "assignment" \in SkipFields(device, asset)
              \/ /\ device.user \in DOMAIN accounts => asset.assigned = device.user
                 /\ device.user = None /\ device.name # None => asset.assigned = None
<1> DEFINE p == PlanPresentAsset(device, asset, accounts, {})
           r == Reassigned(device, asset, accounts, {})
<1>1. /\ p.patch = [f \in PresentFields(device, asset) |-> PresentValue(device)[f]]
      /\ p.checkin = ((r /\ asset.assigned # None) \/ Released(device, asset))
      /\ p.checkout = IF r THEN device.user ELSE None
  BY DEF PlanPresentAsset
<1>2. p.patch = NoPatch <=> PresentFields(device, asset) = {}
  BY <1>1, EmptyPatch
<1>3. ~p.checkin /\ p.checkout = None <=> ~r /\ ~Released(device, asset)
  <2>1. r => device.user # None
    BY DEF Reassigned
  <2>2. QED
    BY <1>1, <2>1
<1>4. ~r /\ ~Released(device, asset) <=>
        \/ "assignment" \in SkipFields(device, asset)
        \/ /\ device.user \in DOMAIN accounts => asset.assigned = device.user
           /\ device.user = None /\ device.name # None => asset.assigned = None
  BY DEF Reassigned, Released
<1>5. QED
  BY <1>2, <1>3, <1>4 DEF Trivial

LEMMA TrivialIsMirrored ==
  ASSUME IsWorld(world), Pending = {}, NEW s
  PROVE  Trivial(AssetNow(s)) <=> AssetMirrored(s)
<1> DEFINE devices == SelectDevices(world.listing)
           asset == world.assets[s]
<1>1. AssetNow(s) = PlanAsset(s, devices, world.assets, world.accounts, {})
  BY DEF AssetNow
<1>2. Trivial(NoAssetPlan)
  BY DEF Trivial, NoAssetPlan
<1>3. CASE s \notin DOMAIN world.assets
  BY <1>1, <1>2, <1>3 DEF PlanAsset, AssetMirrored
<1>4. CASE s \in DOMAIN world.assets /\ OutOfScope(asset)
  BY <1>1, <1>2, <1>4 DEF PlanAsset, AssetMirrored
<1>5. CASE s \in DOMAIN world.assets /\ ~OutOfScope(asset) /\ s \in DOMAIN devices
  <2>1. CASE StatusBlocks(asset)
    BY <1>1, <1>2, <1>5, <2>1 DEF PlanAsset, AssetMirrored
  <2>2. CASE ~StatusBlocks(asset)
    <3>1. AssetNow(s) = PlanPresentAsset(devices[s], asset, world.accounts, {})
      BY <1>1, <1>5, <2>2 DEF PlanAsset
    <3>2. None \notin DOMAIN world.accounts
      BY KeyAssumption DEF IsWorld
    <3>3. AssetMirrored(s) <=> PresentMirrored(s)
      BY <1>5, <2>2 DEF AssetMirrored
    <3>4. PresentMirrored(s) <=>
            /\ PresentFields(devices[s], asset) = {}
            /\ \/ "assignment" \in SkipFields(devices[s], asset)
               \/ /\ devices[s].user \in DOMAIN world.accounts => asset.assigned = devices[s].user
                  /\ devices[s].user = None /\ devices[s].name # None => asset.assigned = None
      BY PresentFieldsEmpty DEF PresentMirrored, DeviceOf
    <3>5. QED
      BY <3>1, <3>2, <3>3, <3>4, TrivialPresent
  <2>3. QED
    BY <2>1, <2>2
<1>6. CASE s \in DOMAIN world.assets /\ ~OutOfScope(asset) /\ s \notin DOMAIN devices
  <2>1. AssetNow(s) = IF AbsentAssets THEN PlanAbsentAsset(asset) ELSE NoAssetPlan
    BY <1>1, <1>6 DEF PlanAsset
  <2>2. Trivial(PlanAbsentAsset(asset)) <=>
          asset["name"] = None /\ asset["managed_by"] = None /\ asset.assigned = None
    <3> DEFINE G == {g \in {"name", "managed_by"} : asset[g] # None}
    <3>1. PlanAbsentAsset(asset).patch = [f \in G |-> None]
      BY DEF PlanAbsentAsset
    <3>2. PlanAbsentAsset(asset).patch = NoPatch <=> G = {}
      BY <3>1, EmptyPatch
    <3>3. G = {} <=> asset["name"] = None /\ asset["managed_by"] = None
      OBVIOUS
    <3>4. QED
      BY <3>2, <3>3 DEF Trivial, PlanAbsentAsset
  <2>3. QED
    BY <1>2, <1>6, <2>1, <2>2 DEF AssetMirrored
<1>7. QED
  BY <1>3, <1>4, <1>5, <1>6

----------------------------------------------------------------------------
(* What is left of a plan when one of its operations has been carried out. *)

LEMMA OverlayFields ==
  ASSUME NEW patch, NEW record
  PROVE  /\ DOMAIN Overlay(patch, record) = DOMAIN record
         /\ \A f \in DOMAIN record :
              Overlay(patch, record)[f] = IF f \in DOMAIN patch THEN patch[f] ELSE record[f]
BY DEF Overlay

LEMMA KnownFields ==
  ASSUME NEW user
  PROVE  Known(user) \subseteq UserFields /\ DOMAIN Desired(user) = Known(user)
BY DEF Known, Desired, UserFields

\* A user whose operation was carried out has nothing left to do.
LEMMA CarriedUser ==
  ASSUME NEW e, NEW users, NEW accounts,
         e \in DOMAIN accounts => DOMAIN accounts[e] = UserFields,
         PlanUser(e, users, accounts).action # "noop",
         NEW accounts2, e \in DOMAIN accounts2,
         accounts2[e] = Overlay(PlanUser(e, users, accounts).patch,
                                IF e \in DOMAIN accounts THEN accounts[e] ELSE NoAccount)
  PROVE  PlanUser(e, users, accounts2).action = "noop"
<1> DEFINE p == PlanUser(e, users, accounts)
           old == IF e \in DOMAIN accounts THEN accounts[e] ELSE NoAccount
<1>1. DOMAIN old = UserFields
  BY DEF NoAccount
<1>2. \A f \in UserFields : accounts2[e][f] = IF f \in DOMAIN p.patch THEN p.patch[f] ELSE old[f]
  BY <1>1, OverlayFields
<1>3. CASE e \in Eligible(users)
  <2> DEFINE user == users[e]
  <2>1. CASE e \notin DOMAIN accounts
    <3>1. p.patch = Desired(user)
      BY <1>3, <2>1 DEF PlanUser
    <3>2. \A f \in Known(user) : accounts2[e][f] = Desired(user)[f]
      BY <1>2, <3>1, KnownFields
    <3>3. QED
      BY <3>2, <1>3 DEF PlanUser, Differing
  <2>2. CASE e \in DOMAIN accounts
    <3> DEFINE D == Differing(user, accounts[e])
    <3>1. p.patch = [f \in D |-> Desired(user)[f]]
      BY <1>3, <2>2 DEF PlanUser
    <3>2. \A f \in Known(user) : f \notin D => accounts[e][f] = Desired(user)[f]
      BY DEF Differing
    <3>3. \A f \in Known(user) : accounts2[e][f] = Desired(user)[f]
      <4> HIDE DEF D, p
      <4>1. DOMAIN p.patch = D /\ \A f \in D : p.patch[f] = Desired(user)[f]
        BY <3>1
      <4>2. QED
        BY <1>2, <2>2, <3>2, <4>1, KnownFields
    <3>4. QED
      BY <3>3, <1>3 DEF PlanUser, Differing
  <2>3. QED
    BY <2>1, <2>2
<1>4. CASE e \notin Eligible(users)
  <2>1. p.patch = [f \in {"department"} |-> AbsentDepartment]
    BY <1>4 DEF PlanUser
  <2>2. accounts2[e].department = AbsentDepartment
    BY <1>2, <2>1 DEF UserFields
  <2>3. QED
    BY <1>4, <2>2 DEF PlanUser
<1>5. QED
  BY <1>3, <1>4

\* Skip rules look at nothing that the tool itself writes.
SkipIgnoresWrites ==
  \A a, b : /\ DOMAIN a = AssetFields /\ DOMAIN b = AssetFields
            /\ a.archived = b.archived /\ a.manufacturer = b.manufacturer
            => \A i \in DOMAIN Config.assets.skip : \A device :
                 SkipMatches(i, device, a) <=> SkipMatches(i, device, b)

\* Assets are promoted, if at all, to a status that is writable.
PromotesToWritable == PromoteFrom # {} => PromoteTo \in Writable

SameIdentity(a, b) ==
  /\ DOMAIN a = AssetFields /\ DOMAIN b = AssetFields
  /\ a.archived = b.archived /\ a.manufacturer = b.manufacturer

LEMMA SkipFieldsSame ==
  ASSUME SkipIgnoresWrites, NEW a, NEW b, SameIdentity(a, b), NEW device
  PROVE  SkipFields(device, a) = SkipFields(device, b)
<1>1. {r \in DOMAIN Config.assets.skip : SkipMatches(r, device, a)}
        = {r \in DOMAIN Config.assets.skip : SkipMatches(r, device, b)}
  BY DEF SkipIgnoresWrites, SameIdentity
<1>2. QED
  BY <1>1 DEF SkipFields

LEMMA ScopeSame ==
  ASSUME NEW a, NEW b, SameIdentity(a, b)
  PROVE  OutOfScope(a) <=> OutOfScope(b)
BY DEF OutOfScope, SameIdentity

\* The shape of what a plan can ask of an asset.
LEMMA PlanAssetCases ==
  ASSUME NEW s, NEW devices, NEW assets, NEW accounts, NEW creates, s \in DOMAIN assets
  PROVE  PlanAsset(s, devices, assets, accounts, creates) =
           IF OutOfScope(assets[s]) THEN NoAssetPlan
           ELSE IF s \in DOMAIN devices
                THEN IF StatusBlocks(assets[s]) THEN NoAssetPlan
                     ELSE PlanPresentAsset(devices[s], assets[s], accounts, creates)
                ELSE IF AbsentAssets THEN PlanAbsentAsset(assets[s]) ELSE NoAssetPlan
BY DEF PlanAsset

\* What the patch of a present asset makes of its fields.
LEMMA PatchedPresent ==
  ASSUME SkipIgnoresWrites, PromotesToWritable,
         NEW device, NEW a, DOMAIN a = AssetFields, ~StatusBlocks(a),
         NEW b, b = Overlay([f \in PresentFields(device, a) |-> PresentValue(device)[f]], a)
  PROVE  /\ SameIdentity(a, b) /\ b.assigned = a.assigned /\ ~StatusBlocks(b)
         /\ PresentFields(device, b) = {}
<1> DEFINE F == PresentFields(device, a)
           patch == [f \in F |-> PresentValue(device)[f]]
<1>1. F \subseteq {"status", "name", "managed_by"}
  BY DEF PresentFields
<1>2. DOMAIN b = AssetFields /\ \A f \in AssetFields : b[f] = IF f \in F THEN PresentValue(device)[f] ELSE a[f]
  <2> HIDE DEF F
  <2>1. DOMAIN patch = F /\ \A f \in F : patch[f] = PresentValue(device)[f]
    OBVIOUS
  <2> HIDE DEF patch
  <2>2. b = Overlay(patch, a)
    BY DEF F, patch
  <2>3. /\ DOMAIN Overlay(patch, a) = AssetFields
        /\ \A f \in AssetFields : Overlay(patch, a)[f] = IF f \in DOMAIN patch THEN patch[f] ELSE a[f]
    BY OverlayFields
  <2>4. QED
    BY <2>1, <2>2, <2>3
<1>3. /\ "status" \in F <=> a.status \notin Writable
      /\ "name" \in F <=> device.name \notin {None, a.name} /\ "name" \notin SkipFields(device, a)
      /\ "managed_by" \in F <=>
           ManagedBy[device.source] # a.managed_by /\ "managed_by" \notin SkipFields(device, a)
  BY DEF PresentFields
<1> HIDE DEF F
<1>4. SameIdentity(a, b) /\ b.assigned = a.assigned
  BY <1>1, <1>2 DEF SameIdentity, AssetFields
<1>5. SkipFields(device, b) = SkipFields(device, a)
  BY <1>4, SkipFieldsSame
<1>6. b.status \in Writable
  <2>1. CASE a.status \in Writable
    BY <1>2, <1>3, <2>1 DEF AssetFields
  <2>2. CASE a.status \notin Writable
    <3>1. b.status = PromoteTo
      BY <1>2, <1>3, <2>2 DEF AssetFields, PresentValue
    <3>2. a.status \in PromoteFrom
      BY <2>2 DEF StatusBlocks
    <3>3. QED
      BY <3>1, <3>2 DEF PromotesToWritable
  <2>3. QED
    BY <2>1, <2>2
<1>7. device.name \in {None, b.name} \/ "name" \in SkipFields(device, b)
  BY <1>2, <1>3, <1>5 DEF AssetFields, PresentValue
<1>8. ManagedBy[device.source] = b.managed_by \/ "managed_by" \in SkipFields(device, b)
  BY <1>2, <1>3, <1>5 DEF AssetFields, PresentValue
<1>9. PresentFields(device, b) = {}
  BY <1>6, <1>7, <1>8, PresentFieldsEmpty
<1>10. QED
  BY <1>4, <1>6, <1>9 DEF StatusBlocks

\* Whether an asset is assigned anew depends on its assignment and on its skip rules.
LEMMA AssignmentSame ==
  ASSUME SkipIgnoresWrites, NEW device, NEW a, NEW b, SameIdentity(a, b), b.assigned = a.assigned,
         NEW accounts, NEW creates
  PROVE  /\ Reassigned(device, b, accounts, creates) <=> Reassigned(device, a, accounts, creates)
         /\ Released(device, b) <=> Released(device, a)
BY SkipFieldsSame DEF Reassigned, Released

LEMMA AfterPatch ==
  ASSUME SkipIgnoresWrites, PromotesToWritable,
         NEW s, NEW devices, NEW assets, NEW accounts, NEW creates,
         s \in DOMAIN assets, DOMAIN assets[s] = AssetFields,
         NEW assets2, s \in DOMAIN assets2,
         NEW p, p = PlanAsset(s, devices, assets, accounts, creates),
         NEW q, q = PlanAsset(s, devices, assets2, accounts, creates),
         p.patch # NoPatch, assets2[s] = Overlay(p.patch, assets[s])
  PROVE  q.patch = NoPatch /\ (q.checkin <=> p.checkin) /\ q.checkout = p.checkout
<1> DEFINE a == assets[s]
           b == assets2[s]
<1>1. p # NoAssetPlan
  BY DEF NoAssetPlan
<1>2. ~OutOfScope(a)
  BY <1>1, PlanAssetCases
<1>3. CASE s \in DOMAIN devices
  <2> DEFINE device == devices[s]
             r == Reassigned(device, a, accounts, creates)
  <2>1. ~StatusBlocks(a) /\ p = PlanPresentAsset(device, a, accounts, creates)
    BY <1>1, <1>2, <1>3, PlanAssetCases
  <2>2. /\ p.patch = [f \in PresentFields(device, a) |-> PresentValue(device)[f]]
        /\ p.checkin = ((r /\ a.assigned # None) \/ Released(device, a))
        /\ p.checkout = IF r THEN device.user ELSE None
    BY <2>1 DEF PlanPresentAsset
  <2>3. /\ SameIdentity(a, b) /\ b.assigned = a.assigned /\ ~StatusBlocks(b)
        /\ PresentFields(device, b) = {}
    BY <2>1, <2>2, PatchedPresent
  <2>4. q = PlanPresentAsset(device, b, accounts, creates)
    BY <1>2, <1>3, <2>3, ScopeSame, PlanAssetCases
  <2>5. /\ Reassigned(device, b, accounts, creates) <=> r
        /\ Released(device, b) <=> Released(device, a)
    BY <2>3, AssignmentSame
  <2>6. /\ q.patch = [f \in PresentFields(device, b) |-> PresentValue(device)[f]]
        /\ q.checkin = ((r /\ b.assigned # None) \/ Released(device, a))
        /\ q.checkout = IF r THEN device.user ELSE None
    BY <2>4, <2>5 DEF PlanPresentAsset
  <2>7. q.patch = NoPatch
    BY <2>3, <2>6, EmptyPatch
  <2> HIDE DEF r
  <2>8. QED
    BY <2>2, <2>3, <2>6, <2>7
<1>4. CASE s \notin DOMAIN devices
  <2> DEFINE G == {g \in {"name", "managed_by"} : a[g] # None}
             H == {g \in {"name", "managed_by"} : b[g] # None}
  <2>1. p = PlanAbsentAsset(a) /\ AbsentAssets
    BY <1>1, <1>2, <1>4, PlanAssetCases
  <2>2. p.patch = [f \in G |-> None] /\ p.checkin = (a.assigned # None) /\ p.checkout = None
    BY <2>1 DEF PlanAbsentAsset
  <2>3. DOMAIN b = AssetFields /\ \A f \in AssetFields : b[f] = IF f \in G THEN None ELSE a[f]
    <3> HIDE DEF G
    <3>1. DOMAIN p.patch = G /\ \A f \in G : p.patch[f] = None
      BY <2>2
    <3>2. QED
      BY <3>1, OverlayFields
  <2>4. SameIdentity(a, b) /\ b.assigned = a.assigned
    BY <2>3 DEF SameIdentity, AssetFields
  <2>5. H = {}
    BY <2>3 DEF AssetFields
  <2>6. q = PlanAbsentAsset(b)
    BY <1>2, <1>4, <2>1, <2>4, ScopeSame, PlanAssetCases
  <2>7. q.patch = [f \in H |-> None] /\ q.checkin = (b.assigned # None) /\ q.checkout = None
    BY <2>6 DEF PlanAbsentAsset
  <2>8. q.patch = NoPatch
    BY <2>5, <2>7, EmptyPatch
  <2>9. QED
    BY <2>2, <2>4, <2>7, <2>8
<1>5. QED
  BY <1>3, <1>4

\* Giving an asset another assignment leaves everything else of it.
LEMMA AssignedFields ==
  ASSUME NEW a, DOMAIN a = AssetFields, NEW v, NEW b, b = [a EXCEPT !.assigned = v]
  PROVE  /\ SameIdentity(a, b) /\ b.assigned = v
         /\ b.status = a.status /\ b.name = a.name /\ b.managed_by = a.managed_by
BY DEF AssetFields, SameIdentity

\* It leaves what the patch of a present asset, or an absent one, is about.
LEMMA PatchSame ==
  ASSUME SkipIgnoresWrites, NEW a, NEW b, SameIdentity(a, b),
         b.status = a.status, b.name = a.name, b.managed_by = a.managed_by, NEW device
  PROVE  PresentFields(device, b) = PresentFields(device, a) /\ (StatusBlocks(b) <=> StatusBlocks(a))
BY SkipFieldsSame DEF PresentFields, StatusBlocks

\* What a plan asks for when the asset has been given the assignment v: the same
\* patch; the rest is decided anew.
LEMMA PlanReassigned ==
  ASSUME SkipIgnoresWrites,
         NEW s, NEW devices, NEW assets, NEW accounts, NEW creates,
         s \in DOMAIN assets, DOMAIN assets[s] = AssetFields,
         NEW v, NEW assets2, s \in DOMAIN assets2, assets2[s] = [assets[s] EXCEPT !.assigned = v],
         NEW p, p = PlanAsset(s, devices, assets, accounts, creates), p # NoAssetPlan,
         NEW q, q = PlanAsset(s, devices, assets2, accounts, creates)
  PROVE  \/ /\ s \in DOMAIN devices
            /\ p = PlanPresentAsset(devices[s], assets[s], accounts, creates)
            /\ q = PlanPresentAsset(devices[s], assets2[s], accounts, creates)
            /\ PresentFields(devices[s], assets2[s]) = PresentFields(devices[s], assets[s])
            /\ SkipFields(devices[s], assets2[s]) = SkipFields(devices[s], assets[s])
         \/ p = PlanAbsentAsset(assets[s]) /\ q = PlanAbsentAsset(assets2[s])
<1> DEFINE a == assets[s]
           b == assets2[s]
<1>1. /\ SameIdentity(a, b) /\ b.assigned = v
      /\ b.status = a.status /\ b.name = a.name /\ b.managed_by = a.managed_by
  BY AssignedFields
<1>2. ~OutOfScope(a) /\ ~OutOfScope(b)
  BY <1>1, PlanAssetCases, ScopeSame
<1>3. CASE s \in DOMAIN devices
  <2>1. ~StatusBlocks(a)
    BY <1>2, <1>3, PlanAssetCases
  <2>2. PresentFields(devices[s], b) = PresentFields(devices[s], a) /\ (StatusBlocks(b) <=> StatusBlocks(a))
    <3> HIDE DEF a, b
    <3> QED
      BY <1>1, PatchSame
  <2>3. SkipFields(devices[s], b) = SkipFields(devices[s], a)
    BY <1>1, SkipFieldsSame
  <2>4. QED
    BY <1>2, <1>3, <2>1, <2>2, <2>3, PlanAssetCases
<1>4. CASE s \notin DOMAIN devices
  BY <1>2, <1>4, PlanAssetCases
<1>5. QED
  BY <1>3, <1>4

\* After the check-in the assignment is all that may be left.
LEMMA AfterCheckin ==
  ASSUME SkipIgnoresWrites,
         NEW s, NEW devices, NEW assets, NEW accounts, NEW creates,
         s \in DOMAIN assets, DOMAIN assets[s] = AssetFields,
         NEW assets2, s \in DOMAIN assets2, assets2[s] = [assets[s] EXCEPT !.assigned = None],
         NEW p, p = PlanAsset(s, devices, assets, accounts, creates),
         NEW q, q = PlanAsset(s, devices, assets2, accounts, creates)
  PROVE  p.checkin => q.patch = p.patch /\ ~q.checkin /\ q.checkout = p.checkout
<1>0. SUFFICES ASSUME p.checkin PROVE q.patch = p.patch /\ ~q.checkin /\ q.checkout = p.checkout
  OBVIOUS
<1>1. p # NoAssetPlan
  BY <1>0 DEF NoAssetPlan
<1>2. assets2[s].assigned = None /\ assets2[s].name = assets[s].name /\ assets2[s].managed_by = assets[s].managed_by
  BY AssignedFields
<1>3. CASE /\ s \in DOMAIN devices
           /\ p = PlanPresentAsset(devices[s], assets[s], accounts, creates)
           /\ q = PlanPresentAsset(devices[s], assets2[s], accounts, creates)
           /\ PresentFields(devices[s], assets2[s]) = PresentFields(devices[s], assets[s])
           /\ SkipFields(devices[s], assets2[s]) = SkipFields(devices[s], assets[s])
  <2> DEFINE d == devices[s]
             r1 == Reassigned(d, assets[s], accounts, creates)
             r2 == Reassigned(d, assets2[s], accounts, creates)
  <2>1. p.patch = q.patch
    BY <1>3 DEF PlanPresentAsset
  <2>2. /\ p.checkin = ((r1 /\ assets[s].assigned # None) \/ Released(d, assets[s]))
        /\ q.checkin = ((r2 /\ assets2[s].assigned # None) \/ Released(d, assets2[s]))
        /\ p.checkout = IF r1 THEN d.user ELSE None
        /\ q.checkout = IF r2 THEN d.user ELSE None
    <3>1. p = [patch    |-> [f \in PresentFields(d, assets[s]) |-> PresentValue(d)[f]],
               checkin  |-> (r1 /\ assets[s].assigned # None) \/ Released(d, assets[s]),
               checkout |-> IF r1 THEN d.user ELSE None]
      BY <1>3 DEF PlanPresentAsset
    <3>2. q = [patch    |-> [f \in PresentFields(d, assets2[s]) |-> PresentValue(d)[f]],
               checkin  |-> (r2 /\ assets2[s].assigned # None) \/ Released(d, assets2[s]),
               checkout |-> IF r2 THEN d.user ELSE None]
      BY <1>3 DEF PlanPresentAsset
    <3> HIDE DEF r1, r2, d
    <3>3. QED
      BY <3>1, <3>2
  <2>3. ~q.checkin
    BY <1>2, <2>2 DEF Released
  <2>4. r1 => r2
    BY <1>2, <1>3 DEF Reassigned
  <2>5. ~r1 => ~r2
    BY <1>0, <1>2, <1>3, <2>2 DEF Reassigned, Released
  <2>6. QED
    BY <2>1, <2>2, <2>3, <2>4, <2>5
<1>4. CASE p = PlanAbsentAsset(assets[s]) /\ q = PlanAbsentAsset(assets2[s])
  <2> DEFINE G == {g \in {"name", "managed_by"} : assets[s][g] # None}
             H == {g \in {"name", "managed_by"} : assets2[s][g] # None}
  <2>1. G = H
    BY <1>2
  <2>2. /\ p.patch = [f \in G |-> None] /\ q.patch = [f \in H |-> None]
        /\ q.checkin = (assets2[s].assigned # None) /\ p.checkout = None /\ q.checkout = None
    BY <1>4 DEF PlanAbsentAsset
  <2>3. QED
    BY <1>2, <2>1, <2>2
<1>5. QED
  BY <1>1, <1>3, <1>4, PlanReassigned

\* After the check-out, to an asset that nobody had, there is only the patch.
LEMMA AfterCheckout ==
  ASSUME SkipIgnoresWrites,
         NEW s, NEW devices, NEW assets, NEW accounts, NEW creates,
         s \in DOMAIN assets, DOMAIN assets[s] = AssetFields, assets[s].assigned = None,
         NEW p, p = PlanAsset(s, devices, assets, accounts, creates), p.checkout # None,
         NEW assets2, s \in DOMAIN assets2, assets2[s] = [assets[s] EXCEPT !.assigned = p.checkout],
         NEW q, q = PlanAsset(s, devices, assets2, accounts, creates)
  PROVE  q.patch = p.patch /\ ~p.checkin /\ ~q.checkin /\ q.checkout = None
<1>1. p # NoAssetPlan
  BY DEF NoAssetPlan
<1>2. assets2[s].assigned = p.checkout
  BY AssignedFields
<1>3. CASE /\ s \in DOMAIN devices
           /\ p = PlanPresentAsset(devices[s], assets[s], accounts, creates)
           /\ q = PlanPresentAsset(devices[s], assets2[s], accounts, creates)
           /\ PresentFields(devices[s], assets2[s]) = PresentFields(devices[s], assets[s])
           /\ SkipFields(devices[s], assets2[s]) = SkipFields(devices[s], assets[s])
  <2> DEFINE d == devices[s]
             r1 == Reassigned(d, assets[s], accounts, creates)
             r2 == Reassigned(d, assets2[s], accounts, creates)
  <2>1. p.patch = q.patch
    BY <1>3 DEF PlanPresentAsset
  <2>2. /\ p.checkin = ((r1 /\ assets[s].assigned # None) \/ Released(d, assets[s]))
        /\ q.checkin = ((r2 /\ assets2[s].assigned # None) \/ Released(d, assets2[s]))
        /\ p.checkout = IF r1 THEN d.user ELSE None
        /\ q.checkout = IF r2 THEN d.user ELSE None
    <3>1. p = [patch    |-> [f \in PresentFields(d, assets[s]) |-> PresentValue(d)[f]],
               checkin  |-> (r1 /\ assets[s].assigned # None) \/ Released(d, assets[s]),
               checkout |-> IF r1 THEN d.user ELSE None]
      BY <1>3 DEF PlanPresentAsset
    <3>2. q = [patch    |-> [f \in PresentFields(d, assets2[s]) |-> PresentValue(d)[f]],
               checkin  |-> (r2 /\ assets2[s].assigned # None) \/ Released(d, assets2[s]),
               checkout |-> IF r2 THEN d.user ELSE None]
      BY <1>3 DEF PlanPresentAsset
    <3> HIDE DEF r1, r2, d
    <3>3. QED
      BY <3>1, <3>2
  <2>3. p.checkout = d.user /\ d.user # None
    BY <2>2 DEF Reassigned
  <2>4. ~r2
    BY <1>2, <2>3 DEF Reassigned
  <2>5. ~Released(d, assets[s]) /\ ~Released(d, assets2[s])
    BY <2>3 DEF Released
  <2>6. QED
    BY <2>1, <2>2, <2>4, <2>5
<1>4. CASE p = PlanAbsentAsset(assets[s]) /\ q = PlanAbsentAsset(assets2[s])
  BY <1>4 DEF PlanAbsentAsset
<1>5. QED
  BY <1>1, <1>3, <1>4, PlanReassigned

----------------------------------------------------------------------------
(* What the steps do to the world.                                         *)

\* Others change what there is under one key.
EditedAt(key) ==
  /\ changes < MaxChanges /\ changes' = changes + 1
  /\ touched' = touched \cup {key}
  /\ UNCHANGED <<faults, cycle>>
  /\ IsWorld(world')
  /\ \A k : k # key =>
       /\ SameAt(world'.users, world.users, k) /\ SameAt(world'.accounts, world.accounts, k)
       /\ SameAt(world'.assets, world.assets, k)
       /\ \A i \in DOMAIN ManagedBy : SameAt(world'.listing[i], world.listing[i], k)

LEMMA SameAsItself ==
  ASSUME NEW f, NEW k
  PROVE  SameAt(f, f, k)
BY DEF SameAt

LEMMA OthersEdit ==
  ASSUME IsWorld(world), Others
  PROVE  \E key \in Emails \cup Serials : EditedAt(key)
<1>1. ASSUME NEW e \in Emails, ChangeUser(e) PROVE EditedAt(e)
  <2>1. PICK users \in Edits(world.users, e, UserRecords) : world' = [world EXCEPT !.users = users]
    BY <1>1 DEF ChangeUser
  <2>2. DOMAIN users \subseteq DOMAIN world.users \cup {e} /\ \A k : k # e => SameAt(users, world.users, k)
    BY <2>1, EditsKeepOthers
  <2>3. /\ DOMAIN world' = DOMAIN world /\ world'.users = users
        /\ world'.accounts = world.accounts /\ world'.assets = world.assets /\ world'.listing = world.listing
    BY <2>1 DEF IsWorld
  <2>4. IsWorld(world')
    BY <2>2, <2>3 DEF IsWorld
  <2>5. QED
    BY <1>1, <2>2, <2>3, <2>4, SameAsItself DEF ChangeUser, Change, EditedAt
<1>2. ASSUME NEW e \in Emails, ChangeAccount(e) PROVE EditedAt(e)
  <2>1. PICK accounts \in Edits(world.accounts, e, AccountRecords) : world' = [world EXCEPT !.accounts = accounts]
    BY <1>2 DEF ChangeAccount
  <2>2. /\ DOMAIN accounts \subseteq DOMAIN world.accounts \cup {e}
        /\ \A k : k # e => SameAt(accounts, world.accounts, k)
        /\ \A k \in DOMAIN accounts :
             accounts[k] \in AccountRecords \/ (k \in DOMAIN world.accounts /\ accounts[k] = world.accounts[k])
    BY <2>1, EditsKeepOthers
  <2>3. /\ DOMAIN world' = DOMAIN world /\ world'.accounts = accounts
        /\ world'.users = world.users /\ world'.assets = world.assets /\ world'.listing = world.listing
    BY <2>1 DEF IsWorld
  <2>4. \A k \in DOMAIN accounts : DOMAIN accounts[k] = UserFields
    BY <2>2, WorldAssumption DEF IsWorld
  <2>5. IsWorld(world')
    BY <2>2, <2>3, <2>4 DEF IsWorld
  <2>6. QED
    BY <1>2, <2>2, <2>3, <2>5, SameAsItself DEF ChangeAccount, Change, EditedAt
<1>3. ASSUME NEW s \in Serials, ChangeAsset(s) PROVE EditedAt(s)
  <2>1. PICK assets \in Edits(world.assets, s, AssetRecords) : world' = [world EXCEPT !.assets = assets]
    BY <1>3 DEF ChangeAsset
  <2>2. /\ DOMAIN assets \subseteq DOMAIN world.assets \cup {s}
        /\ \A k : k # s => SameAt(assets, world.assets, k)
        /\ \A k \in DOMAIN assets :
             assets[k] \in AssetRecords \/ (k \in DOMAIN world.assets /\ assets[k] = world.assets[k])
    BY <2>1, EditsKeepOthers
  <2>3. /\ DOMAIN world' = DOMAIN world /\ world'.assets = assets
        /\ world'.users = world.users /\ world'.accounts = world.accounts /\ world'.listing = world.listing
    BY <2>1 DEF IsWorld
  <2>4. \A k \in DOMAIN assets : DOMAIN assets[k] = AssetFields
    BY <2>2, WorldAssumption DEF IsWorld
  <2>5. IsWorld(world')
    BY <2>2, <2>3, <2>4 DEF IsWorld
  <2>6. QED
    BY <1>3, <2>2, <2>3, <2>5, SameAsItself DEF ChangeAsset, Change, EditedAt
<1>4. ASSUME NEW s \in Serials, NEW i \in DOMAIN ManagedBy, ChangeDevice(i, s) PROVE EditedAt(s)
  <2>1. PICK devices \in Edits(world.listing[i], s, DeviceRecords) : world' = [world EXCEPT !.listing[i] = devices]
    BY <1>4 DEF ChangeDevice
  <2>2. DOMAIN devices \subseteq DOMAIN world.listing[i] \cup {s} /\ \A k : k # s => SameAt(devices, world.listing[i], k)
    BY <2>1, EditsKeepOthers
  <2>3. /\ DOMAIN world' = DOMAIN world
        /\ DOMAIN world'.listing = DOMAIN ManagedBy /\ world'.listing[i] = devices
        /\ \A j \in DOMAIN ManagedBy : j # i => world'.listing[j] = world.listing[j]
        /\ world'.users = world.users /\ world'.accounts = world.accounts /\ world'.assets = world.assets
    BY <2>1 DEF IsWorld
  <2>4. \A j \in DOMAIN ManagedBy : DOMAIN world'.listing[j] \subseteq Serials
    BY <2>2, <2>3 DEF IsWorld
  <2>5. IsWorld(world')
    BY <2>3, <2>4 DEF IsWorld
  <2>6. \A k : k # s => \A j \in DOMAIN ManagedBy : SameAt(world'.listing[j], world.listing[j], k)
    BY <2>2, <2>3, SameAsItself
  <2>7. QED
    BY <1>4, <2>3, <2>5, <2>6, SameAsItself DEF ChangeDevice, Change, EditedAt
<1>5. QED
  BY <1>1, <1>2, <1>3, <1>4 DEF Others

LEMMA OpsOfPlan ==
  ASSUME NEW p
  PROVE  /\ \A e : UserOp(e) \in OpsOf(p) <=> e \in DOMAIN p.users /\ p.users[e].action # "noop"
         /\ \A s : <<"patch", s>> \in OpsOf(p) <=> s \in DOMAIN p.assets /\ p.assets[s].patch # NoPatch
         /\ \A s : <<"checkin", s>> \in OpsOf(p) <=> s \in DOMAIN p.assets /\ p.assets[s].checkin
         /\ \A s : <<"checkout", s>> \in OpsOf(p) <=> s \in DOMAIN p.assets /\ p.assets[s].checkout # None
         /\ \A op \in OpsOf(p) :
              \/ op[2] \in DOMAIN p.users /\ op = UserOp(op[2])
              \/ op[2] \in DOMAIN p.assets /\ op \in {<<kind, op[2]>> : kind \in {"patch", "checkin", "checkout"}}
<1>1. \A e : UserOp(e) \in OpsOf(p) <=> e \in DOMAIN p.users /\ p.users[e].action # "noop"
  BY DEF OpsOf, UserOp
<1>2. \A s : <<"patch", s>> \in OpsOf(p) <=> s \in DOMAIN p.assets /\ p.assets[s].patch # NoPatch
  BY DEF OpsOf, UserOp
<1>3. \A s : <<"checkin", s>> \in OpsOf(p) <=> s \in DOMAIN p.assets /\ p.assets[s].checkin
  BY DEF OpsOf, UserOp
<1>4. \A s : <<"checkout", s>> \in OpsOf(p) <=> s \in DOMAIN p.assets /\ p.assets[s].checkout # None
  BY DEF OpsOf, UserOp
<1>5. \A op \in OpsOf(p) :
         \/ op[2] \in DOMAIN p.users /\ op = UserOp(op[2])
         \/ op[2] \in DOMAIN p.assets /\ op \in {<<kind, op[2]>> : kind \in {"patch", "checkin", "checkout"}}
  BY DEF OpsOf, UserOp
<1>6. QED
  BY <1>1, <1>2, <1>3, <1>4, <1>5

LEMMA CarryUser ==
  ASSUME IsWorld(world), NEW e \in Emails, NEW w, w = Carry(UserOp(e))
  PROVE  /\ IsWorld(w)
         /\ w.users = world.users /\ w.listing = world.listing /\ w.assets = world.assets
         /\ DOMAIN w.accounts = DOMAIN world.accounts \cup {e}
         /\ w.accounts[e] = Overlay(plan.users[e].patch,
                                    IF e \in DOMAIN world.accounts THEN world.accounts[e] ELSE NoAccount)
         /\ \A k : k # e => SameAt(w.accounts, world.accounts, k)
<1> DEFINE old == IF e \in DOMAIN world.accounts THEN world.accounts[e] ELSE NoAccount
           new == Overlay(plan.users[e].patch, old)
<1>1. w = [world EXCEPT !.accounts = Put(world.accounts, e, new)]
  BY DEF Carry, UserOp
<1>2. DOMAIN new = UserFields
  <2>1. DOMAIN old = UserFields
    BY DEF IsWorld, NoAccount
  <2>2. QED
    BY <2>1, OverlayFields
<1> HIDE DEF new
<1>3. /\ DOMAIN w = DOMAIN world /\ w.accounts = Put(world.accounts, e, new)
      /\ w.users = world.users /\ w.listing = world.listing /\ w.assets = world.assets
  BY <1>1 DEF IsWorld
<1>4. /\ DOMAIN w.accounts = DOMAIN world.accounts \cup {e} /\ w.accounts[e] = new
      /\ \A k \in DOMAIN world.accounts : k # e => w.accounts[k] = world.accounts[k]
  BY <1>3 DEF Put
<1>5. IsWorld(w)
  BY <1>2, <1>3, <1>4 DEF IsWorld
<1>6. \A k : k # e => SameAt(w.accounts, world.accounts, k)
  BY <1>4 DEF SameAt
<1>7. QED
  BY <1>3, <1>4, <1>5, <1>6 DEF new

LEMMA CarryAsset ==
  ASSUME IsWorld(world), NEW s, NEW kind \in {"patch", "checkin", "checkout"},
         Works(<<kind, s>>), NEW w, w = Carry(<<kind, s>>)
  PROVE  /\ IsWorld(w)
         /\ w.users = world.users /\ w.listing = world.listing /\ w.accounts = world.accounts
         /\ s \in DOMAIN world.assets /\ DOMAIN w.assets = DOMAIN world.assets
         /\ kind = "patch" => w.assets[s] = Overlay(plan.assets[s].patch, world.assets[s])
         /\ kind = "checkin" => w.assets[s] = [world.assets[s] EXCEPT !.assigned = None]
         /\ kind = "checkout" => w.assets[s] = [world.assets[s] EXCEPT !.assigned = plan.assets[s].checkout]
<1> DEFINE new == CASE kind = "patch" -> Overlay(plan.assets[s].patch, world.assets[s])
                    [] kind = "checkin" -> [world.assets[s] EXCEPT !.assigned = None]
                    [] kind = "checkout" -> [world.assets[s] EXCEPT !.assigned = plan.assets[s].checkout]
<1>1. s \in DOMAIN world.assets
  BY DEF Works
<1>2. w = [world EXCEPT !.assets = [world.assets EXCEPT ![s] = new]]
  BY DEF Carry
<1>3. DOMAIN new = AssetFields
  BY <1>1, OverlayFields DEF IsWorld
<1>4. /\ kind = "patch" => new = Overlay(plan.assets[s].patch, world.assets[s])
      /\ kind = "checkin" => new = [world.assets[s] EXCEPT !.assigned = None]
      /\ kind = "checkout" => new = [world.assets[s] EXCEPT !.assigned = plan.assets[s].checkout]
  OBVIOUS
<1> HIDE DEF new
<1>5. /\ DOMAIN w = DOMAIN world /\ w.assets = [world.assets EXCEPT ![s] = new]
      /\ w.users = world.users /\ w.listing = world.listing /\ w.accounts = world.accounts
  BY <1>2 DEF IsWorld
<1>6. /\ DOMAIN w.assets = DOMAIN world.assets /\ w.assets[s] = new
      /\ \A k \in DOMAIN world.assets : k # s => w.assets[k] = world.assets[k]
  BY <1>1, <1>5
<1>7. IsWorld(w)
  BY <1>1, <1>3, <1>5, <1>6 DEF IsWorld
<1>8. QED
  BY <1>1, <1>4, <1>5, <1>6, <1>7

LEMMA CarryAssetElsewhere ==
  ASSUME IsWorld(world), NEW s, NEW kind \in {"patch", "checkin", "checkout"},
         Works(<<kind, s>>), NEW k, k # s
  PROVE  SameAt(Carry(<<kind, s>>).assets, world.assets, k)
<1>1. s \in DOMAIN world.assets
  BY DEF Works
<1>2. CASE kind = "patch"
  BY <1>1, <1>2 DEF Carry, IsWorld, SameAt
<1>3. CASE kind = "checkin"
  BY <1>1, <1>3 DEF Carry, IsWorld, SameAt
<1>4. CASE kind = "checkout"
  BY <1>1, <1>4 DEF Carry, IsWorld, SameAt
<1>5. QED
  BY <1>2, <1>3, <1>4

----------------------------------------------------------------------------
(* Types.                                                                  *)

LEMMA OpKind ==
  ASSUME Types, NEW op \in todo
  PROVE  \/ \E e \in Emails : op = UserOp(e) /\ e \in DOMAIN plan.users
         \/ \E s \in Serials, kind \in {"patch", "checkin", "checkout"} :
              op = <<kind, s>> /\ s \in DOMAIN plan.assets
<1>1. op \in OpsOf(plan)
  BY DEF Types, TypeOK
<1>2. \/ op[2] \in DOMAIN plan.users /\ op = UserOp(op[2])
      \/ op[2] \in DOMAIN plan.assets /\ op \in {<<kind, op[2]>> : kind \in {"patch", "checkin", "checkout"}}
  BY <1>1, OpsOfPlan
<1>3. QED
  BY <1>2 DEF Types, PlanShape

LEMMA OpKey ==
  ASSUME Types, NEW op \in todo
  PROVE  op[2] \in Emails \cup Serials
BY OpKind DEF UserOp

LEMMA CarryWorld ==
  ASSUME Types, NEW op \in todo, Works(op)
  PROVE  IsWorld(Carry(op))
<1>1. IsWorld(world)
  BY DEF Types, TypeOK
<1>2. CASE \E e \in Emails : op = UserOp(e)
  BY <1>1, <1>2, CarryUser
<1>3. CASE \E s \in Serials, kind \in {"patch", "checkin", "checkout"} : op = <<kind, s>>
  BY <1>1, <1>3, CarryAsset
<1>4. QED
  BY <1>2, <1>3, OpKind

\* An operation ends, with or without effect, and with or without success.
Taken(op) == Succeed(op) \/ Refused(op) \/ Lost(op)

LEMMA TakenKeeps ==
  ASSUME Types, NEW op \in todo, Taken(op)
  PROVE  /\ pc = "applying" /\ Due(op) /\ UNCHANGED <<changes, pc, unread, seen, plan>>
         /\ IsWorld(world') /\ todo' \subseteq todo /\ touched \subseteq touched'
         /\ touched' \subseteq touched \cup {op[2]} /\ faults' \in 0..MaxFaults
         /\ world' = world \/ (Works(op) /\ world' = Carry(op))
<1>1. IsWorld(world) /\ faults \in 0..MaxFaults /\ MaxFaults \in Nat
  BY BoundAssumption DEF Types, TypeOK
<1>2. CASE Succeed(op)
  BY <1>1, <1>2, CarryWorld DEF Succeed
<1>3. CASE Refused(op)
  BY <1>1, <1>3 DEF Refused, Failed
<1>4. CASE Lost(op)
  BY <1>1, <1>4, CarryWorld DEF Lost, Failed
<1>5. QED
  BY <1>2, <1>3, <1>4 DEF Taken

LEMMA NoSnapshotShape ==
  /\ DOMAIN NoPatch = {} /\ DOMAIN NoPlan.users = {} /\ DOMAIN NoPlan.assets = {}
  /\ OpsOf(NoPlan) = {}
<1>1. DOMAIN NoPatch = {} /\ DOMAIN NoPlan.users = {} /\ DOMAIN NoPlan.assets = {}
  BY DEF NoPatch, NoPlan
<1>2. QED
  BY <1>1 DEF OpsOf

LEMMA PlanOfShape ==
  ASSUME NEW w
  PROVE  /\ DOMAIN PlanOf(w).users = DOMAIN w.users \cup DOMAIN w.accounts
         /\ DOMAIN PlanOf(w).assets = DOMAIN SelectDevices(w.listing) \cup DOMAIN w.assets
         /\ DOMAIN SelectDevices(w.listing) \subseteq Serials
         /\ \A e \in DOMAIN w.users \cup DOMAIN w.accounts :
              PlanOf(w).users[e] = PlanUser(e, w.users, w.accounts)
         /\ \A s \in DOMAIN SelectDevices(w.listing) \cup DOMAIN w.assets :
              PlanOf(w).assets[s] =
                PlanAsset(s, SelectDevices(w.listing), w.assets, w.accounts, PlannedCreates(w.users, w.accounts))
<1>1. DOMAIN SelectDevices(w.listing) \subseteq Serials
  BY DEF SelectDevices
<1>2. QED
  BY <1>1 DEF PlanOf

\* What a read adds to what is seen.
LEMMA ReadSeen ==
  ASSUME NEW part \in Parts, Read(part)
  PROVE  \/ \E i \in DOMAIN ManagedBy :
              part = <<"listing", i>> /\ seen' = [seen EXCEPT !.listing[i] = world.listing[i]]
         \/ \E f \in {"users", "accounts", "assets"} :
              part = <<f, 0>> /\ seen' = [seen EXCEPT ![f] = world[f]]
<1>1. ASSUME NEW i \in DOMAIN ManagedBy, part = <<"listing", i>>
      PROVE  seen' = [seen EXCEPT !.listing[i] = world.listing[i]]
  <2>1. part[1] = "listing" /\ part[2] = i
    BY <1>1
  <2>2. QED
    BY <2>1 DEF Read
<1>2. ASSUME NEW f \in {"users", "accounts", "assets"}, part = <<f, 0>>
      PROVE  seen' = [seen EXCEPT ![f] = world[f]]
  <2>1. part[1] = f /\ f # "listing"
    BY <1>2
  <2>2. QED
    BY <2>1 DEF Read
<1>3. QED
  BY <1>1, <1>2 DEF Parts

LEMMA TypesInductive ==
  ASSUME Types, [Next]_vars
  PROVE  Types'
<1> USE DEF Types, SeenShape, PlanShape
<1>1. CASE Begin
  <2>1. DOMAIN seen' = {"users", "listing", "accounts", "assets"}
    BY <1>1 DEF Begin, NoSnapshot
  <2>2. seen'.users = NoPatch /\ seen'.accounts = NoPatch /\ seen'.assets = NoPatch
        /\ seen'.listing = [i \in DOMAIN ManagedBy |-> NoPatch]
    BY <1>1 DEF Begin, NoSnapshot
  <2>3. SeenShape'
    BY <2>1, <2>2, NoSnapshotShape
  <2>4. QED
    BY <1>1, <2>3 DEF Begin, TypeOK, env
<1>2. ASSUME NEW part \in Parts, Read(part) PROVE Types'
  <2>1. IsWorld(world) /\ pc = "reading" /\ UNCHANGED <<env, faults, pc, plan, todo, touched>> /\ unread' \subseteq unread
    BY <1>2 DEF Read, TypeOK
  <2>2. \/ \E i \in DOMAIN ManagedBy : seen' = [seen EXCEPT !.listing[i] = world.listing[i]]
        \/ \E f \in {"users", "accounts", "assets"} : seen' = [seen EXCEPT ![f] = world[f]]
    BY <1>2, ReadSeen
  <2>3. SeenShape'
    <3>1. CASE \E i \in DOMAIN ManagedBy : seen' = [seen EXCEPT !.listing[i] = world.listing[i]]
      BY <2>1, <3>1
    <3>2. CASE seen' = [seen EXCEPT !["users"] = world["users"]]
      BY <2>1, <3>2 DEF IsWorld
    <3>3. CASE seen' = [seen EXCEPT !["accounts"] = world["accounts"]]
      BY <2>1, <3>3 DEF IsWorld
    <3>4. CASE seen' = [seen EXCEPT !["assets"] = world["assets"]]
      BY <2>1, <3>4 DEF IsWorld
    <3>5. QED
      BY <2>2, <3>1, <3>2, <3>3, <3>4
  <2>4. QED
    BY <2>1, <2>3 DEF TypeOK, env
<1>3. CASE MakePlan
  <2>1. pc = "reading" /\ pc' = "applying" /\ plan' = PlanOf(seen) /\ todo' = OpsOf(plan')
        /\ UNCHANGED <<env, faults, unread, touched>>
    BY <1>3 DEF MakePlan
  <2>2. PlanShape'
    BY <2>1, PlanOfShape
  <2>3. QED
    BY <2>1, <2>2 DEF TypeOK, env
<1>4. CASE EndCycle
  <2>1. pc' = "idle" /\ todo' = {} /\ plan' = NoPlan /\ UNCHANGED <<env, faults, unread, touched>>
    BY <1>4 DEF EndCycle
  <2>2. QED
    BY <2>1, NoSnapshotShape DEF TypeOK, env
<1>5. ASSUME NEW op \in todo, Taken(op) PROVE Types'
  <2>1. /\ pc = "applying" /\ UNCHANGED <<changes, pc, unread, plan>>
        /\ IsWorld(world') /\ todo' \subseteq todo
        /\ touched' \subseteq touched \cup {op[2]} /\ faults' \in 0..MaxFaults
    BY <1>5, TakenKeeps
  <2>2. op[2] \in Emails \cup Serials
    BY OpKey
  <2>3. QED
    BY <2>1, <2>2 DEF TypeOK
<1>6. CASE Others
  <2>1. PICK key \in Emails \cup Serials : EditedAt(key)
    BY <1>6, OthersEdit DEF TypeOK
  <2>2. changes' \in 0..MaxChanges
    BY <2>1, BoundAssumption DEF EditedAt, TypeOK
  <2>3. /\ touched' = touched \cup {key} /\ IsWorld(world')
        /\ UNCHANGED <<faults, pc, unread, seen, plan, todo>>
    BY <2>1 DEF EditedAt, cycle
  <2>4. QED
    BY <2>2, <2>3 DEF TypeOK
<1>7. CASE Abort
  <2>1. /\ pc' = "idle" /\ unread' = {} /\ plan' = NoPlan /\ todo' = {}
        /\ UNCHANGED <<env, touched>> /\ faults < MaxFaults /\ faults' = faults + 1
    BY <1>7 DEF Abort
  <2>2. faults' \in 0..MaxFaults
    BY <2>1, BoundAssumption DEF TypeOK
  <2>3. QED
    BY <2>1, <2>2, NoSnapshotShape DEF TypeOK, env
<1>8. CASE UNCHANGED vars
  BY <1>8 DEF vars, env, cycle, TypeOK
<1>9. QED
  BY <1>1, <1>2, <1>3, <1>4, <1>5, <1>6, <1>7, <1>8 DEF Next, System, Faults, Taken

LEMMA TypesInit == Init => Types
<1> SUFFICES ASSUME Init PROVE Types
  OBVIOUS
<1>1. IsWorld(world)
  BY WorldAssumption DEF Init
<1>2. QED
  BY <1>1, NoSnapshotShape, BoundAssumption DEF Init, Types, TypeOK, SeenShape, PlanShape

----------------------------------------------------------------------------
(* Readings.                                                               *)

LEMMA ReadingInductive ==
  ASSUME Types, ReadingCurrent, [Next]_vars
  PROVE  ReadingCurrent'
<1>1. CASE Begin
  BY <1>1 DEF Begin, ReadingCurrent, Parts
<1>2. ASSUME NEW part \in Parts, Read(part) PROVE ReadingCurrent'
  <2>1. pc = "reading" /\ unread' = unread \ {part} /\ UNCHANGED <<world, touched>>
    BY <1>2 DEF Read, env
  <2>2. DOMAIN seen = {"users", "listing", "accounts", "assets"} /\ DOMAIN seen.listing = DOMAIN ManagedBy
    BY <2>1 DEF Types, SeenShape
  <2>3. /\ seen'.users = world.users \/ (part # <<"users", 0>> /\ seen'.users = seen.users)
        /\ seen'.accounts = world.accounts \/ (part # <<"accounts", 0>> /\ seen'.accounts = seen.accounts)
        /\ seen'.assets = world.assets \/ (part # <<"assets", 0>> /\ seen'.assets = seen.assets)
        /\ \A i \in DOMAIN ManagedBy :
             seen'.listing[i] = world.listing[i]
               \/ (part # <<"listing", i>> /\ seen'.listing[i] = seen.listing[i])
    <3>1. ASSUME NEW i \in DOMAIN ManagedBy, part = <<"listing", i>>,
                 seen' = [seen EXCEPT !.listing[i] = world.listing[i]]
          PROVE  <2>3!:
      BY <2>2, <3>1
    <3>2. CASE part = <<"users", 0>> /\ seen' = [seen EXCEPT !["users"] = world["users"]]
      BY <2>2, <3>2
    <3>3. CASE part = <<"accounts", 0>> /\ seen' = [seen EXCEPT !["accounts"] = world["accounts"]]
      BY <2>2, <3>3
    <3>4. CASE part = <<"assets", 0>> /\ seen' = [seen EXCEPT !["assets"] = world["assets"]]
      BY <2>2, <3>4
    <3>5. QED
      BY <1>2, <3>1, <3>2, <3>3, <3>4, ReadSeen
  <2>4. QED
    BY <2>1, <2>3, SameAsItself DEF ReadingCurrent
<1>3. CASE MakePlan \/ EndCycle \/ Abort
  BY <1>3 DEF MakePlan, EndCycle, Abort, ReadingCurrent
<1>4. ASSUME NEW op \in todo, Taken(op) PROVE ReadingCurrent'
  BY <1>4, TakenKeeps DEF ReadingCurrent
<1>5. CASE Others
  <2>1. PICK key \in Emails \cup Serials : EditedAt(key)
    BY <1>5, OthersEdit DEF Types, TypeOK
  <2>2. touched' = touched \cup {key} /\ UNCHANGED <<pc, unread, seen>>
    BY <2>1 DEF EditedAt, cycle
  <2>3. \A k : k # key =>
          /\ SameAt(world'.users, world.users, k) /\ SameAt(world'.accounts, world.accounts, k)
          /\ SameAt(world'.assets, world.assets, k)
          /\ \A i \in DOMAIN ManagedBy : SameAt(world'.listing[i], world.listing[i], k)
    BY <2>1 DEF EditedAt
  <2>4. QED
    BY <2>2, <2>3 DEF ReadingCurrent, SameAt
<1>6. CASE UNCHANGED vars
  BY <1>6 DEF vars, env, cycle, ReadingCurrent
<1>7. QED
  BY <1>1, <1>2, <1>3, <1>4, <1>5, <1>6 DEF Next, System, Faults, Taken

----------------------------------------------------------------------------
(* Users.                                                                  *)

LEMMA DependentShape ==
  ASSUME Types, NEW op \in todo, NEW x \in Dependents(op)
  PROVE  /\ x[1] \in {"checkin", "checkout"} /\ x = <<x[1], x[2]>>
         /\ \/ op[1] # "user" /\ x[2] = op[2]
            \/ /\ op = UserOp(op[2]) /\ op[2] \in Emails
               /\ x[2] \in DOMAIN plan.assets /\ plan.assets[x[2]].checkout = op[2]
<1>1. CASE \E e \in Emails : op = UserOp(e)
  <2>1. PICK e \in Emails : op = UserOp(e)
    BY <1>1
  <2>2. op[1] = "user" /\ op[2] = e
    BY <2>1 DEF UserOp
  <2>3. x \in {<<kind, t>> : kind \in {"checkin", "checkout"},
                 t \in {u \in DOMAIN plan.assets : plan.assets[u].checkout = e}}
    BY <2>2 DEF Dependents
  <2>4. QED
    BY <2>1, <2>2, <2>3
<1>2. CASE \E s \in Serials, kind \in {"patch", "checkin", "checkout"} : op = <<kind, s>>
  <2>1. op[1] \in {"patch", "checkin", "checkout"}
    BY <1>2
  <2>2. x \in {<<"checkin", op[2]>>, <<"checkout", op[2]>>}
    BY <2>1 DEF Dependents
  <2>3. QED
    BY <2>1, <2>2
<1>3. QED
  BY <1>1, <1>2, OpKind

\* What is left to do after an operation.
LEMMA TakenTodo ==
  ASSUME Types, NEW op \in todo, Taken(op)
  PROVE  /\ op \notin todo'
         /\ \/ Works(op) /\ world' = Carry(op) /\ todo' = todo \ {op}
            \/ op[2] \in touched' /\ todo' = todo \ ({op} \cup Dependents(op))
BY DEF Taken, Succeed, Refused, Lost, Failed

\* Operations of users depend on no other operation.
LEMMA UserOpsStay ==
  ASSUME Types, NEW op \in todo, Taken(op), NEW e, op # UserOp(e)
  PROVE  UserOp(e) \in todo' <=> UserOp(e) \in todo
<1>1. UserOp(e) \notin Dependents(op)
  BY DependentShape DEF UserOp
<1>2. QED
  BY <1>1, TakenTodo

\* An operation touches one account or one asset.
LEMMA TakenIsLocal ==
  ASSUME Types, NEW op \in todo, Taken(op), NEW k
  PROVE  /\ world'.users = world.users /\ world'.listing = world.listing
         /\ op # UserOp(k) => SameAt(world'.accounts, world.accounts, k)
         /\ op \notin {<<kind, k>> : kind \in {"patch", "checkin", "checkout"}} =>
              SameAt(world'.assets, world.assets, k)
<1>1. CASE world' = world
  BY <1>1, SameAsItself
<1>2. CASE Works(op) /\ world' = Carry(op)
  <2>1. IsWorld(world)
    BY DEF Types, TypeOK
  <2>2. CASE \E e \in Emails : op = UserOp(e)
    <3>1. PICK e \in Emails : op = UserOp(e)
      BY <2>2
    <3>2. /\ world'.users = world.users /\ world'.listing = world.listing /\ world'.assets = world.assets
          /\ \A j : j # e => SameAt(world'.accounts, world.accounts, j)
      BY <1>2, <2>1, <3>1, CarryUser
    <3>3. QED
      BY <3>1, <3>2, SameAsItself
  <2>3. CASE \E s \in Serials, kind \in {"patch", "checkin", "checkout"} : op = <<kind, s>>
    <3>1. PICK s \in Serials, kind \in {"patch", "checkin", "checkout"} : op = <<kind, s>>
      BY <2>3
    <3>2. Works(<<kind, s>>) /\ world' = Carry(<<kind, s>>)
      BY <1>2, <3>1
    <3>3. /\ world'.users = world.users /\ world'.listing = world.listing /\ world'.accounts = world.accounts
          /\ \A j : j # s => SameAt(world'.assets, world.assets, j)
      <4>1. world'.users = world.users /\ world'.listing = world.listing /\ world'.accounts = world.accounts
        BY <2>1, <3>1, <3>2, CarryAsset, ZenonT(40)
      <4>2. ASSUME NEW j, j # s PROVE SameAt(world'.assets, world.assets, j)
        BY <2>1, <3>1, <3>2, <4>2, CarryAssetElsewhere
      <4>3. QED
        BY <4>1, <4>2
    <3>4. op # <<kind, k>> => k # s
      BY <3>1
    <3>5. QED
      BY <3>3, <3>4, SameAsItself
  <2>4. QED
    BY <2>2, <2>3, OpKind
<1>3. QED
  BY <1>1, <1>2, TakenKeeps

\* The plan that is made is the one of this moment for a user who was left alone.
LEMMA MadeUserCurrent ==
  ASSUME Types, ReadingCurrent, MakePlan, NEW e \in Emails \ touched
  PROVE  UserCurrent(e)'
<1>1. /\ pc = "reading" /\ unread = {} /\ plan' = PlanOf(seen) /\ todo' = OpsOf(plan')
      /\ world' = world
  BY DEF MakePlan, env
<1>2. SameAt(seen.users, world.users, e) /\ SameAt(seen.accounts, world.accounts, e)
  BY <1>1 DEF ReadingCurrent
<1>3. PlanUser(e, seen.users, seen.accounts) = UserNow(e)'
  BY <1>1, <1>2, PlanUserDepends DEF UserNow
<1>4. CASE e \in DOMAIN seen.users \cup DOMAIN seen.accounts
  <2>1. e \in DOMAIN plan'.users /\ plan'.users[e] = UserNow(e)'
    BY <1>1, <1>3, <1>4, PlanOfShape
  <2>2. UserOp(e) \in todo' <=> plan'.users[e].action # "noop"
    BY <1>1, <2>1, OpsOfPlan
  <2>3. QED
    BY <2>1, <2>2 DEF UserCurrent
<1>5. CASE e \notin DOMAIN seen.users \cup DOMAIN seen.accounts
  <2>1. UserOp(e) \notin todo'
    BY <1>1, <1>5, PlanOfShape, OpsOfPlan
  <2>2. PlanUser(e, seen.users, seen.accounts).action = "noop"
    BY <1>5 DEF PlanUser, Eligible
  <2>3. QED
    BY <1>3, <2>1, <2>2 DEF UserCurrent
<1>6. QED
  BY <1>4, <1>5

LEMMA TakenUserCurrent ==
  ASSUME Types, NEW op \in todo, Taken(op), NEW e \in Emails \ touched', UserCurrent(e)
  PROVE  UserCurrent(e)'
<1>1. plan' = plan /\ world'.users = world.users
  BY TakenKeeps, TakenIsLocal
<1>2. CASE op # UserOp(e)
  <2>1. UserOp(e) \in todo' <=> UserOp(e) \in todo
    BY <1>2, UserOpsStay
  <2>2. SameAt(world'.accounts, world.accounts, e) /\ SameAt(world'.users, world.users, e)
    BY <1>1, <1>2, TakenIsLocal, SameAsItself
  <2>3. UserNow(e)' = UserNow(e)
    BY <2>2, PlanUserDepends DEF UserNow
  <2>4. QED
    BY <1>1, <2>1, <2>3 DEF UserCurrent
<1>3. CASE op = UserOp(e)
  <2>1. op[2] = e
    BY <1>3 DEF UserOp
  <2>2. world' = Carry(op) /\ UserOp(e) \notin todo'
    BY <1>3, <2>1, TakenTodo
  <2>3. plan.users[e] = UserNow(e) /\ UserNow(e).action # "noop"
    BY <1>3 DEF UserCurrent
  <2>4. IsWorld(world)
    BY DEF Types, TypeOK
  <2>5. e \in DOMAIN world'.accounts
        /\ world'.accounts[e] = Overlay(UserNow(e).patch,
                                  IF e \in DOMAIN world.accounts THEN world.accounts[e] ELSE NoAccount)
    BY <1>3, <2>2, <2>3, <2>4, CarryUser
  <2>6. PlanUser(e, world.users, world'.accounts).action = "noop"
    BY <2>3, <2>4, <2>5, CarriedUser DEF UserNow, IsWorld
  <2>7. UserNow(e)'.action = "noop"
    BY <1>1, <2>6 DEF UserNow
  <2>8. QED
    BY <2>2, <2>7 DEF UserCurrent
<1>4. QED
  BY <1>2, <1>3

LEMMA UsersInductive ==
  ASSUME Types, ReadingCurrent, UsersCurrent, [Next]_vars
  PROVE  UsersCurrent'
<1>1. CASE Begin \/ EndCycle \/ Abort \/ \E part \in Parts : Read(part)
  BY <1>1 DEF Begin, EndCycle, Abort, Read, UsersCurrent
<1>2. CASE MakePlan
  <2>1. touched' = touched
    BY <1>2 DEF MakePlan
  <2>2. QED
    BY <1>2, <2>1, MadeUserCurrent DEF UsersCurrent
<1>3. ASSUME NEW op \in todo, Taken(op) PROVE UsersCurrent'
  <2>1. pc = "applying" /\ touched \subseteq touched'
    BY <1>3, TakenKeeps
  <2>2. QED
    BY <1>3, <2>1, TakenUserCurrent DEF UsersCurrent
<1>4. CASE Others
  <2>1. PICK key \in Emails \cup Serials : EditedAt(key)
    BY <1>4, OthersEdit DEF Types, TypeOK
  <2>2. touched' = touched \cup {key} /\ UNCHANGED <<pc, todo, plan>>
    BY <2>1 DEF EditedAt, cycle
  <2>3. ASSUME NEW e \in Emails \ touched', UserCurrent(e) PROVE UserCurrent(e)'
    <3>1. SameAt(world'.users, world.users, e) /\ SameAt(world'.accounts, world.accounts, e)
      BY <2>1, <2>2 DEF EditedAt
    <3>2. UserNow(e)' = UserNow(e)
      BY <3>1, PlanUserDepends DEF UserNow
    <3>3. QED
      BY <2>2, <2>3, <3>2 DEF UserCurrent
  <2>4. QED
    BY <2>2, <2>3 DEF UsersCurrent
<1>5. CASE UNCHANGED vars
  BY <1>5 DEF vars, env, cycle, UsersCurrent, UserCurrent, UserNow
<1>6. QED
  BY <1>1, <1>2, <1>3, <1>4, <1>5 DEF Next, System, Faults, Taken

----------------------------------------------------------------------------
(* Assets.                                                                 *)

Devices == SelectDevices(world.listing)

\* The user of the device of s has an account or will get one.
Awaited(s) == s \in DOMAIN Devices => Devices[s].user \in DOMAIN world.accounts \cup Pending

LEMMA AssetNowDepends ==
  ASSUME NEW s, SameAt(Devices, Devices', s), SameAt(world.assets, world'.assets, s),
         Awaited(s)' <=> Awaited(s)
  PROVE  AssetNow(s)' = AssetNow(s)
<1> DEFINE d == Devices
           e == Devices'
<1>1. s \in DOMAIN d <=> s \in DOMAIN e
  BY DEF SameAt
<1>2. s \in DOMAIN d =>
        (d[s].user \in DOMAIN world.accounts \cup Pending
           <=> e[s].user \in DOMAIN world'.accounts \cup Pending')
  BY <1>1 DEF Awaited
<1> HIDE DEF d, e
<1>3. PlanAsset(s, d, world.assets, world.accounts, Pending)
        = PlanAsset(s, e, world'.assets, world'.accounts, Pending')
  BY <1>2, PlanAssetDepends DEF d, e
<1>4. QED
  BY <1>3 DEF AssetNow, Devices, d, e

LEMMA AssetPlanShape ==
  ASSUME NEW s, NEW devices, NEW assets, NEW accounts, NEW creates
  PROVE  LET p == PlanAsset(s, devices, assets, accounts, creates) IN
         /\ s \notin DOMAIN assets => p = NoAssetPlan
         /\ p.checkout # None => s \in DOMAIN devices /\ p.checkout = devices[s].user
<1> DEFINE p == PlanAsset(s, devices, assets, accounts, creates)
<1>1. CASE s \notin DOMAIN assets
  BY <1>1 DEF PlanAsset, NoAssetPlan
<1>2. CASE s \in DOMAIN assets
  <2>1. NoAssetPlan.checkout = None /\ PlanAbsentAsset(assets[s]).checkout = None
    BY DEF NoAssetPlan, PlanAbsentAsset
  <2>2. PlanPresentAsset(devices[s], assets[s], accounts, creates).checkout \in {None, devices[s].user}
    BY DEF PlanPresentAsset
  <2>3. QED
    BY <1>2, <2>1, <2>2, PlanAssetCases
<1>3. QED
  BY <1>1, <1>2

LEMMA MadeAssetCurrent ==
  ASSUME Types, ReadingCurrent, MakePlan, NEW s \in Serials, Undisturbed(s)'
  PROVE  AssetCurrent(s)' /\ CheckoutOwn(s)'
<1>1. /\ pc = "reading" /\ unread = {} /\ plan' = PlanOf(seen) /\ todo' = OpsOf(plan')
      /\ world' = world /\ touched' = touched
  BY DEF MakePlan, env
<1>2. /\ DOMAIN seen.listing = DOMAIN ManagedBy /\ DOMAIN world.listing = DOMAIN ManagedBy
      /\ DOMAIN seen.accounts \subseteq Emails /\ DOMAIN world.accounts \subseteq Emails
  BY <1>1 DEF Types, TypeOK, SeenShape, IsWorld
<1>3. s \notin touched
  BY <1>1 DEF Undisturbed
<1>4. SameAt(seen.assets, world.assets, s) /\ \A i \in DOMAIN ManagedBy : SameAt(seen.listing[i], world.listing[i], s)
  BY <1>1, <1>3 DEF ReadingCurrent
<1> DEFINE read == SelectDevices(seen.listing)
           creates == PlannedCreates(seen.users, seen.accounts)
           made == PlanAsset(s, read, seen.assets, seen.accounts, creates)
<1>5. SameAt(read, Devices, s)
  BY <1>2, <1>4, SelectDepends DEF Devices
<1>6. Pending' = creates
  <2>1. \A e \in Emails : UserOp(e) \in todo' /\ plan'.users[e].action = "create" <=> e \in creates
    <3>1. TAKE e \in Emails
    <3>2. CASE e \in DOMAIN seen.users \cup DOMAIN seen.accounts
      <4>1. plan'.users[e] = PlanUser(e, seen.users, seen.accounts) /\ e \in DOMAIN plan'.users
        BY <1>1, <3>2, PlanOfShape
      <4>2. plan'.users[e].action = "create" <=> e \in creates
        BY <4>1 DEF PlanUser, PlannedCreates
      <4>3. QED
        BY <1>1, <4>1, <4>2, OpsOfPlan
    <3>3. CASE e \notin DOMAIN seen.users \cup DOMAIN seen.accounts
      BY <1>1, <3>3, PlanOfShape, OpsOfPlan DEF PlannedCreates, Eligible
    <3>4. QED
      BY <3>2, <3>3
  <2>2. creates \subseteq Emails
    BY DEF PlannedCreates, Eligible, Internal
  <2>3. QED
    BY <2>1, <2>2 DEF Pending
<1>7. s \in DOMAIN Devices =>
        (Devices[s].user \in DOMAIN world.accounts <=> Devices[s].user \in DOMAIN seen.accounts)
  <2>1. SUFFICES ASSUME s \in DOMAIN Devices
                 PROVE  Devices[s].user \in DOMAIN world.accounts <=> Devices[s].user \in DOMAIN seen.accounts
    OBVIOUS
  <2>2. Devices[s].user \notin touched
    BY <1>1, <2>1 DEF Undisturbed, DeviceOf, Devices
  <2>3. CASE Devices[s].user \in Emails
    BY <1>1, <2>2, <2>3 DEF ReadingCurrent, SameAt
  <2>4. CASE Devices[s].user \notin Emails
    BY <1>2, <2>4
  <2>5. QED
    BY <2>3, <2>4
<1>8. made = AssetNow(s)'
  <2> DEFINE now == Devices
  <2>1. PlanAsset(s, read, seen.assets, seen.accounts, creates)
          = PlanAsset(s, now, world.assets, world.accounts, creates)
    <3>1. s \in DOMAIN read =>
            (read[s].user \in DOMAIN seen.accounts \cup creates
               <=> now[s].user \in DOMAIN world.accounts \cup creates)
      BY <1>5, <1>7 DEF SameAt
    <3> HIDE DEF read, now, creates
    <3>2. QED
      BY <1>4, <1>5, <3>1, PlanAssetDepends DEF now
  <2>2. QED
    BY <1>1, <1>6, <2>1 DEF AssetNow, Devices
<1>9. CheckoutOwn(s)'
  <2>1. SUFFICES ASSUME s \in DOMAIN plan'.assets, plan'.assets[s].checkout # None
                 PROVE  s \in DOMAIN Devices /\ plan'.assets[s].checkout = Devices[s].user
    BY <1>1 DEF CheckoutOwn, DeviceOf, Devices
  <2>2. plan'.assets[s] = made
    BY <1>1, <2>1, PlanOfShape
  <2>3. s \in DOMAIN read /\ made.checkout = read[s].user
    BY <2>1, <2>2, AssetPlanShape
  <2>4. QED
    BY <1>5, <2>2, <2>3 DEF SameAt
<1>10. AssetCurrent(s)'
  <2>1. CASE s \in DOMAIN read \cup DOMAIN seen.assets
    <3>1. plan'.assets[s] = made /\ s \in DOMAIN plan'.assets
      BY <1>1, <2>1, PlanOfShape
    <3> HIDE DEF made
    <3>2. /\ <<"patch", s>> \in todo' <=> made.patch # NoPatch
          /\ <<"checkin", s>> \in todo' <=> made.checkin
          /\ <<"checkout", s>> \in todo' <=> made.checkout # None
      BY <1>1, <3>1, OpsOfPlan
    <3>3. QED
      BY <1>8, <3>1, <3>2 DEF AssetCurrent
  <2>2. CASE s \notin DOMAIN read \cup DOMAIN seen.assets
    <3>1. s \notin DOMAIN plan'.assets
      BY <1>1, <2>2, PlanOfShape
    <3>2. made = NoAssetPlan
      BY <2>2, AssetPlanShape
    <3>3. <<"patch", s>> \notin todo' /\ <<"checkin", s>> \notin todo' /\ <<"checkout", s>> \notin todo'
      BY <1>1, <3>1, OpsOfPlan
    <3>4. QED
      BY <1>8, <3>2, <3>3 DEF AssetCurrent, NoAssetPlan
  <2>3. QED
    BY <2>1, <2>2
<1>11. QED
  BY <1>9, <1>10

\* An operation leaves the devices, and whether a user who is left alone is awaited.
LEMMA TakenAwaited ==
  ASSUME Types, NEW op \in todo, Taken(op), NEW s, Undisturbed(s)'
  PROVE  Devices' = Devices /\ Undisturbed(s) /\ (Awaited(s)' <=> Awaited(s))
<1>1. Devices' = Devices /\ touched \subseteq touched' /\ plan' = plan
  BY TakenKeeps, TakenIsLocal DEF Devices
<1>2. Undisturbed(s)
  BY <1>1 DEF Undisturbed, DeviceOf, Devices
<1>3. CASE s \notin DOMAIN Devices
  BY <1>1, <1>2, <1>3 DEF Awaited
<1>4. CASE s \in DOMAIN Devices
  <2> DEFINE u == Devices[s].user
  <2>1. u \notin touched'
    BY <1>1, <1>4 DEF Undisturbed, DeviceOf, Devices
  <2>2. CASE op # UserOp(u)
    <3>1. UserOp(u) \in todo' <=> UserOp(u) \in todo
      BY <2>2, UserOpsStay
    <3>2. u \in Pending' <=> u \in Pending
      BY <1>1, <3>1 DEF Pending
    <3>3. u \in DOMAIN world'.accounts <=> u \in DOMAIN world.accounts
      BY <2>2, TakenIsLocal DEF SameAt
    <3>4. QED
      BY <1>1, <1>2, <1>4, <3>2, <3>3 DEF Awaited
  <2>3. CASE op = UserOp(u)
    <3>1. op[1] = "user" /\ op[2] = u
      BY <2>3 DEF UserOp
    <3>2. Works(op) /\ world' = Carry(op)
      BY <2>1, <3>1, TakenTodo
    <3>3. \E e \in Emails : op = UserOp(e)
      <4>1. "user" \notin {"patch", "checkin", "checkout"}
        OBVIOUS
      <4>2. QED
        BY <3>1, <4>1, OpKind
    <3>4. u \in Emails /\ IsWorld(world)
      BY <3>1, <3>3 DEF UserOp, Types, TypeOK
    <3>5. u \in DOMAIN world'.accounts
      BY <2>3, <3>2, <3>4, CarryUser
    <3>6. u \in DOMAIN world.accounts \cup Pending
      <4>1. plan.users[u].action = "create" <=> u \notin DOMAIN world.accounts
        BY <3>1, <3>2 DEF Works
      <4>2. QED
        BY <2>3, <3>4, <4>1 DEF Pending
    <3>7. QED
      BY <1>1, <1>2, <1>4, <3>5, <3>6 DEF Awaited
  <2>4. QED
    BY <2>2, <2>3
<1>5. QED
  BY <1>3, <1>4

\* An operation on something else, or one that fails, takes nothing from what is
\* left to do for an asset that stays undisturbed.
LEMMA AssetOpsStay ==
  ASSUME Types, NEW op \in todo, Taken(op), NEW s \in Serials, Undisturbed(s)', CheckoutOwn(s),
         NEW kind \in {"patch", "checkin", "checkout"}, op # <<kind, s>>
  PROVE  <<kind, s>> \in todo' <=> <<kind, s>> \in todo
<1>1. CASE todo' = todo \ {op}
  BY <1>1
<1>2. CASE op[2] \in touched' /\ todo' = todo \ ({op} \cup Dependents(op))
  <2>1. SUFFICES ASSUME <<kind, s>> \in Dependents(op) PROVE FALSE
    BY <1>2
  <2>2. s # op[2]
    BY <1>2 DEF Undisturbed
  <2>3. op[2] \in Emails /\ s \in DOMAIN plan.assets /\ plan.assets[s].checkout = op[2]
    BY <2>1, <2>2, DependentShape
  <2>4. s \in DOMAIN Devices /\ Devices[s].user = op[2]
    BY <2>3, KeyAssumption DEF CheckoutOwn, DeviceOf, Devices
  <2>5. Devices' = Devices
    BY TakenAwaited
  <2>6. QED
    BY <1>2, <2>4, <2>5 DEF Undisturbed, DeviceOf, Devices
<1>3. QED
  BY <1>1, <1>2, TakenTodo

LEMMA TakenAssetCurrent ==
  ASSUME SkipIgnoresWrites, PromotesToWritable,
         Types, NEW op \in todo, Taken(op), NEW s \in Serials, Undisturbed(s)',
         AssetCurrent(s), CheckoutOwn(s)
  PROVE  AssetCurrent(s)' /\ CheckoutOwn(s)'
<1>1. /\ Devices' = Devices /\ (Awaited(s)' <=> Awaited(s))
      /\ plan' = plan /\ world'.listing = world.listing
  BY TakenAwaited, TakenKeeps, TakenIsLocal
<1>2. CheckoutOwn(s)'
  BY <1>1 DEF CheckoutOwn, DeviceOf, Devices
<1>3. SameAt(Devices, Devices', s)
  BY <1>1, SameAsItself
<1>4. CASE op \notin {<<kind, s>> : kind \in {"patch", "checkin", "checkout"}}
  <2>1. SameAt(world.assets, world'.assets, s)
    BY <1>4, TakenIsLocal DEF SameAt
  <2>2. AssetNow(s)' = AssetNow(s)
    BY <1>1, <1>3, <2>1, AssetNowDepends
  <2>3. /\ <<"patch", s>> \in todo' <=> <<"patch", s>> \in todo
        /\ <<"checkin", s>> \in todo' <=> <<"checkin", s>> \in todo
        /\ <<"checkout", s>> \in todo' <=> <<"checkout", s>> \in todo
    BY <1>4, AssetOpsStay
  <2>4. QED
    BY <1>1, <1>2, <2>2, <2>3 DEF AssetCurrent
<1>5. ASSUME NEW kind \in {"patch", "checkin", "checkout"}, op = <<kind, s>>
      PROVE  AssetCurrent(s)'
  <2> DEFINE now == AssetNow(s)
             next == AssetNow(s)'
  <2>1. IsWorld(world)
    BY DEF Types, TypeOK
  <2>2. Works(<<kind, s>>) /\ world' = Carry(<<kind, s>>) /\ todo' = todo \ {<<kind, s>>}
    <3>1. op[2] = s /\ s \notin touched'
      BY <1>5 DEF Undisturbed
    <3>2. QED
      BY <1>5, <3>1, TakenTodo
  <2>3. /\ s \in DOMAIN world.assets /\ DOMAIN world'.assets = DOMAIN world.assets
        /\ kind = "patch" => world'.assets[s] = Overlay(plan.assets[s].patch, world.assets[s])
        /\ kind = "checkin" => world'.assets[s] = [world.assets[s] EXCEPT !.assigned = None]
        /\ kind = "checkout" => world'.assets[s] = [world.assets[s] EXCEPT !.assigned = plan.assets[s].checkout]
    BY <2>1, <2>2, CarryAsset, ZenonT(40)
  <2>4. DOMAIN world.assets[s] = AssetFields
    BY <2>1, <2>3 DEF IsWorld
  <2>5. now = PlanAsset(s, Devices, world.assets, world.accounts, Pending)
    BY DEF AssetNow, Devices
  <2>6. next = PlanAsset(s, Devices, world'.assets, world.accounts, Pending)
    <3> DEFINE d == Devices
    <3>1. next = PlanAsset(s, d, world'.assets, world'.accounts, Pending')
      BY <1>1 DEF AssetNow, Devices
    <3>2. s \in DOMAIN d =>
            (d[s].user \in DOMAIN world'.accounts \cup Pending'
               <=> d[s].user \in DOMAIN world.accounts \cup Pending)
      BY <1>1 DEF Awaited
    <3> HIDE DEF d
    <3>3. SameAt(d, d, s) /\ SameAt(world'.assets, world'.assets, s)
      BY SameAsItself
    <3>4. PlanAsset(s, d, world'.assets, world'.accounts, Pending')
            = PlanAsset(s, d, world'.assets, world.accounts, Pending)
      BY <3>2, <3>3, PlanAssetDepends
    <3>5. QED
      BY <3>1, <3>4 DEF d
  <2> HIDE DEF now, next
  <2>7. AssetCurrent(s) <=>
          /\ <<"patch", s>> \in todo <=> now.patch # NoPatch
          /\ <<"patch", s>> \in todo => plan.assets[s].patch = now.patch
          /\ <<"checkin", s>> \in todo <=> now.checkin
          /\ <<"checkout", s>> \in todo <=> now.checkout # None
          /\ <<"checkout", s>> \in todo => plan.assets[s].checkout = now.checkout
    BY DEF AssetCurrent, now
  <2>8. AssetCurrent(s)' <=>
          /\ <<"patch", s>> \in todo' <=> next.patch # NoPatch
          /\ <<"patch", s>> \in todo' => plan.assets[s].patch = next.patch
          /\ <<"checkin", s>> \in todo' <=> next.checkin
          /\ <<"checkout", s>> \in todo' <=> next.checkout # None
          /\ <<"checkout", s>> \in todo' => plan.assets[s].checkout = next.checkout
    BY <1>1 DEF AssetCurrent, next
  <2>9. CASE kind = "patch"
    <3>1. now.patch # NoPatch /\ plan.assets[s].patch = now.patch
      BY <1>5, <2>7, <2>9
    <3>2. next.patch = NoPatch /\ (next.checkin <=> now.checkin) /\ next.checkout = now.checkout
      BY <2>3, <2>4, <2>5, <2>6, <2>9, <3>1, AfterPatch
    <3>3. QED
      BY <2>2, <2>7, <2>8, <2>9, <3>2
  <2>10. CASE kind = "checkin"
    <3>1. now.checkin
      BY <1>5, <2>7, <2>10
    <3>2. next.patch = now.patch /\ ~next.checkin /\ next.checkout = now.checkout
      BY <2>3, <2>4, <2>5, <2>6, <2>10, <3>1, AfterCheckin
    <3>3. QED
      BY <2>2, <2>7, <2>8, <2>10, <3>2
  <2>11. CASE kind = "checkout"
    <3>1. now.checkout # None /\ plan.assets[s].checkout = now.checkout
      BY <1>5, <2>7, <2>11
    <3>2. world.assets[s].assigned = None
      BY <2>2, <2>11 DEF Works
    <3>3. next.patch = now.patch /\ ~now.checkin /\ ~next.checkin /\ next.checkout = None
      BY <2>3, <2>4, <2>5, <2>6, <2>11, <3>1, <3>2, AfterCheckout
    <3>4. QED
      BY <2>2, <2>7, <2>8, <2>11, <3>3
  <2>12. QED
    BY <2>9, <2>10, <2>11
<1>6. QED
  BY <1>2, <1>4, <1>5

LEMMA AssetsInductive ==
  ASSUME SkipIgnoresWrites, PromotesToWritable,
         Types, ReadingCurrent, AssetsCurrent, [Next]_vars
  PROVE  AssetsCurrent'
<1>1. CASE Begin \/ EndCycle \/ Abort \/ \E part \in Parts : Read(part)
  BY <1>1 DEF Begin, EndCycle, Abort, Read, AssetsCurrent
<1>2. CASE MakePlan
  BY <1>2, MadeAssetCurrent DEF AssetsCurrent
<1>3. ASSUME NEW op \in todo, Taken(op) PROVE AssetsCurrent'
  <2>1. pc = "applying"
    BY <1>3, TakenKeeps
  <2>2. \A s \in Serials : Undisturbed(s)' => Undisturbed(s)
    BY <1>3, TakenAwaited
  <2>3. QED
    BY <1>3, <2>1, <2>2, TakenAssetCurrent DEF AssetsCurrent
<1>4. CASE Others
  <2>1. PICK key \in Emails \cup Serials : EditedAt(key)
    BY <1>4, OthersEdit DEF Types, TypeOK
  <2>2. /\ touched' = touched \cup {key} /\ UNCHANGED <<pc, todo, plan>> /\ Pending' = Pending
        /\ DOMAIN world'.listing = DOMAIN ManagedBy /\ DOMAIN world.listing = DOMAIN ManagedBy
    BY <2>1 DEF EditedAt, cycle, Pending, Types, TypeOK, IsWorld
  <2>3. ASSUME NEW s \in Serials, Undisturbed(s)'
        PROVE  Undisturbed(s) /\ (AssetCurrent(s) /\ CheckoutOwn(s) => AssetCurrent(s)' /\ CheckoutOwn(s)')
    <3>1. s \notin touched /\ s # key
      BY <2>2, <2>3 DEF Undisturbed
    <3>2. SameAt(world'.assets, world.assets, s) /\ \A i \in DOMAIN ManagedBy : SameAt(world'.listing[i], world.listing[i], s)
      BY <2>1, <3>1 DEF EditedAt
    <3>3. SameAt(Devices', Devices, s)
      BY <2>2, <3>2, SelectDepends DEF Devices
    <3>4. s \in DOMAIN Devices => Devices[s].user \notin touched'
      BY <2>3, <3>3 DEF Undisturbed, DeviceOf, Devices, SameAt
    <3>5. Undisturbed(s)
      BY <2>2, <3>1, <3>4 DEF Undisturbed, DeviceOf, Devices
    <3>6. s \in DOMAIN Devices => SameAt(world'.accounts, world.accounts, Devices[s].user)
      BY <2>1, <2>2, <3>4 DEF EditedAt
    <3>7. Awaited(s)' <=> Awaited(s)
      BY <2>2, <3>3, <3>6 DEF Awaited, SameAt
    <3>8. AssetNow(s)' = AssetNow(s)
      BY <3>2, <3>3, <3>7, AssetNowDepends DEF SameAt
    <3>9. CheckoutOwn(s) => CheckoutOwn(s)'
      BY <2>2, <3>3 DEF CheckoutOwn, DeviceOf, Devices, SameAt
    <3>10. AssetCurrent(s) => AssetCurrent(s)'
      BY <2>2, <3>8 DEF AssetCurrent
    <3>11. QED
      BY <3>5, <3>9, <3>10
  <2>4. QED
    BY <2>2, <2>3 DEF AssetsCurrent
<1>5. CASE UNCHANGED vars
  <2>1. UNCHANGED <<world, pc, todo, plan, touched>>
    BY <1>5 DEF vars, env, cycle
  <2>2. QED
    BY <2>1 DEF AssetsCurrent, AssetCurrent, AssetNow, Pending, Undisturbed, DeviceOf, CheckoutOwn
<1>6. QED
  BY <1>1, <1>2, <1>3, <1>4, <1>5 DEF Next, System, Faults, Taken

----------------------------------------------------------------------------
(* What follows from the invariant.                                        *)

\* Nothing left to do for an asset means that there is nothing to be done.
LEMMA NothingLeft ==
  ASSUME NEW s, AssetCurrent(s)
  PROVE  Trivial(AssetNow(s)) <=>
           <<"patch", s>> \notin todo /\ <<"checkin", s>> \notin todo /\ <<"checkout", s>> \notin todo
BY DEF AssetCurrent, Trivial

LEMMA EndIsMirrored ==
  ASSUME IInv, EndCycle
  PROVE  /\ \A e \in Emails \ touched : UserMirrored(e)
         /\ \A s \in Serials : Undisturbed(s) => AssetMirrored(s)
<1>1. pc = "applying" /\ todo = {} /\ IsWorld(world) /\ Pending = {}
  BY DEF EndCycle, IInv, Types, TypeOK, Pending
<1>2. ASSUME NEW e \in Emails \ touched PROVE UserMirrored(e)
  <2>1. UserNow(e).action = "noop"
    BY <1>1 DEF IInv, UsersCurrent, UserCurrent
  <2>2. QED
    BY <2>1, NoopIsMirrored
<1>3. ASSUME NEW s \in Serials, Undisturbed(s) PROVE AssetMirrored(s)
  <2>1. AssetCurrent(s)
    BY <1>1, <1>3 DEF IInv, AssetsCurrent
  <2>2. Trivial(AssetNow(s))
    BY <1>1, <2>1, NothingLeft
  <2>3. QED
    BY <1>1, <2>2, TrivialIsMirrored
<1>4. QED
  BY <1>2, <1>3

\* When it is an asset's turn, every account has been created.
LEMMA AssetsLast ==
  ASSUME NEW s, NEW kind \in {"patch", "checkin", "checkout"}, Due(<<kind, s>>)
  PROVE  Pending = {}
<1>1. Rank(<<kind, s>>) \in {4, 5, 6}
  BY DEF Rank
<1>2. ASSUME NEW e \in Emails, UserOp(e) \in todo PROVE FALSE
  <2>1. Rank(UserOp(e)) \in {1, 2, 3}
    BY DEF Rank, UserOp
  <2>2. Rank(<<kind, s>>) <= Rank(UserOp(e))
    BY <1>2 DEF Due
  <2>3. QED
    BY <1>1, <2>1, <2>2
<1>3. QED
  BY <1>2 DEF Pending

LEMMA WritesAreNeeded ==
  ASSUME IInv, NEW op \in todo, Taken(op)
  PROVE  /\ \A e \in DOMAIN world'.accounts \ touched :
              UserMirrored(e) => world'.accounts[e] = world.accounts[e]
         /\ \A s \in DOMAIN world.assets :
              Undisturbed(s) /\ AssetMirrored(s) => world'.assets[s] = world.assets[s]
<1>1. Types /\ IsWorld(world) /\ pc = "applying" /\ Due(op) /\ IsWorld(world')
  BY TakenKeeps DEF IInv, Types, TypeOK
<1>2. ASSUME NEW e \in DOMAIN world'.accounts \ touched, UserMirrored(e)
      PROVE  world'.accounts[e] = world.accounts[e]
  <2>1. op # UserOp(e)
    <3>1. e \in Emails
      BY <1>1 DEF IsWorld
    <3>2. UserNow(e).action = "noop"
      BY <1>2, NoopIsMirrored
    <3>3. QED
      BY <1>1, <3>1, <3>2 DEF IInv, UsersCurrent, UserCurrent
  <2>2. SameAt(world'.accounts, world.accounts, e)
    BY <1>1, <2>1, TakenIsLocal
  <2>3. QED
    BY <2>2 DEF SameAt
<1>3. ASSUME NEW s \in DOMAIN world.assets, Undisturbed(s), AssetMirrored(s)
      PROVE  world'.assets[s] = world.assets[s]
  <2>1. s \in Serials
    BY <1>1 DEF IsWorld
  <2>2. AssetCurrent(s)
    BY <1>1, <1>3, <2>1 DEF IInv, AssetsCurrent
  <2>3. op \notin {<<kind, s>> : kind \in {"patch", "checkin", "checkout"}}
    <3>1. SUFFICES ASSUME NEW kind \in {"patch", "checkin", "checkout"}, op = <<kind, s>> PROVE FALSE
      OBVIOUS
    <3>2. Pending = {}
      BY <1>1, <3>1, AssetsLast
    <3>3. Trivial(AssetNow(s))
      BY <1>1, <1>3, <3>2, TrivialIsMirrored
    <3>4. QED
      BY <2>2, <3>1, <3>3, NothingLeft
  <2>4. SameAt(world'.assets, world.assets, s)
    BY <1>1, <2>3, TakenIsLocal
  <2>5. QED
    BY <2>4 DEF SameAt
<1>4. QED
  BY <1>2, <1>3

LEMMA StepIsNeeded ==
  ASSUME IInv, [Next]_vars, changes' = changes
  PROVE  /\ \A e \in DOMAIN world'.accounts \ touched :
              UserMirrored(e) => world'.accounts[e] = world.accounts[e]
         /\ \A s \in DOMAIN world.assets :
              Undisturbed(s) /\ AssetMirrored(s) => world'.assets[s] = world.assets[s]
<1>1. CASE Begin \/ MakePlan \/ EndCycle \/ Abort \/ (\E part \in Parts : Read(part)) \/ UNCHANGED vars
  <2>1. world' = world
    BY <1>1 DEF Begin, MakePlan, EndCycle, Abort, Read, vars, env
  <2>2. QED
    BY <2>1
<1>2. ASSUME NEW op \in todo, Taken(op)
      PROVE  /\ \A e \in DOMAIN world'.accounts \ touched :
                  UserMirrored(e) => world'.accounts[e] = world.accounts[e]
             /\ \A s \in DOMAIN world.assets :
                  Undisturbed(s) /\ AssetMirrored(s) => world'.assets[s] = world.assets[s]
  BY <1>2, WritesAreNeeded
<1>3. CASE Others
  <2>1. changes' = changes + 1 /\ changes \in Nat
    BY <1>3, OthersEdit, BoundAssumption DEF IInv, Types, TypeOK, EditedAt
  <2>2. QED
    BY <2>1
<1>4. QED
  BY <1>1, <1>2, <1>3 DEF Next, System, Faults, Taken

----------------------------------------------------------------------------
(* The theorems.                                                           *)

LEMMA ReconcileInit == Init => IInv
BY TypesInit DEF Init, IInv, ReadingCurrent, UsersCurrent, AssetsCurrent

\* What a cycle holds of the world has its type: a plan only asks for operations
\* on emails and serials there are, and nothing is left to do between cycles.
THEOREM ReconcileTypes == Spec => []TypeOK
<1>1. Types => TypeOK
  BY DEF Types
<1>2. Types /\ [Next]_vars => Types'
  BY TypesInductive
<1>3. QED
  BY TypesInit, <1>1, <1>2, PTL DEF Spec

\* At every moment of a cycle, whatever others do and whichever calls fail, what
\* is left to do for an account that was left alone is what a plan made at that
\* moment would ask for.  No configuration is excluded.
THEOREM PlanStaysCurrentForUsers == Spec => []UsersCurrent
<1> DEFINE J == Types /\ ReadingCurrent /\ UsersCurrent
<1>1. Init => J
  BY ReconcileInit DEF IInv
<1>2. J /\ [Next]_vars => J'
  BY TypesInductive, ReadingInductive, UsersInductive
<1>3. J => UsersCurrent
  OBVIOUS
<1> HIDE DEF J
<1>4. QED
  BY <1>1, <1>2, <1>3, PTL DEF Spec

\* The same for assets, as long as no skip rule looks at what the tool itself
\* writes, and assets are promoted to a writable status.
THEOREM PlanStaysCurrent ==
  ASSUME SkipIgnoresWrites, PromotesToWritable
  PROVE  Spec => []IInv
<1>1. IInv /\ [Next]_vars => IInv'
  BY TypesInductive, ReadingInductive, UsersInductive, AssetsInductive DEF IInv
<1>2. QED
  BY ReconcileInit, <1>1, PTL DEF Spec

\* Under these two conditions the tool writes nothing that is not needed: no
\* account or asset that agrees with the sources is written to, unless it was
\* changed, or a call for it failed, in the same cycle.
THEOREM WritesOnlyWhatDiffers ==
  ASSUME SkipIgnoresWrites, PromotesToWritable
  PROVE  Spec => NoNeedlessWrite
<1>1. IInv /\ [Next]_vars =>
        [changes' = changes =>
           /\ \A e \in DOMAIN world'.accounts \ touched :
                UserMirrored(e) => world'.accounts[e] = world.accounts[e]
           /\ \A s \in DOMAIN world.assets :
                Undisturbed(s) /\ AssetMirrored(s) => world'.assets[s] = world.assets[s]]_vars
  BY StepIsNeeded
<1>2. QED
  BY PlanStaysCurrent, <1>1, PTL DEF Spec, NoNeedlessWrite

\* And one cycle that runs to its end is enough for every account and asset that
\* was left alone.
THEOREM OneCycleIsEnough ==
  ASSUME SkipIgnoresWrites, PromotesToWritable
  PROVE  Spec => OneCycleSuffices
<1>1. IInv =>
        [EndCycle =>
           /\ \A e \in Emails \ touched : UserMirrored(e)
           /\ \A s \in Serials : Undisturbed(s) => AssetMirrored(s)]_vars
  BY EndIsMirrored
<1>2. QED
  BY PlanStaysCurrent, <1>1, PTL DEF Spec, OneCycleSuffices
============================================================================
