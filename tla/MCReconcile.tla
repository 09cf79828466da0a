---------------------------- MODULE MCReconcile ----------------------------
(* Two people, one laptop and two device sources that both report it.  "a" and "b" are internal. *)
EXTENDS Reconcile

MCTrim(text) == CASE text = " Staff" -> "Staff" [] text = "MDM " -> "MDM" [] OTHER -> text
MCFold(text) ==
  CASE text = "Staff" -> "staff" [] text = "MDM"   -> "mdm"   [] text = "Ready" -> "ready"
    [] text = "Stock" -> "stock" [] text = "Maker" -> "maker" [] text = "Corp"  -> "corp"
    [] OTHER -> text
MCDomainOf(email) == "corp"

Row(id, name) == [id |-> id, name |-> name]
MCRows ==
  [departments   |-> <<Row("d1", "Staff"), Row("d2", "twice"), Row("gone", "left"), Row("d3", "twice")>>,
   locations     |-> <<Row("l1", "office")>>,
   statuses      |-> <<Row("ready", "Ready"), Row("stock", "Stock"), Row("broken", "Broken")>>,
   manufacturers |-> <<Row("m1", "Maker")>>,
   fields        |-> <<[name |-> "serial", column |-> "c1"], [name |-> "mdm", column |-> "c2"]>>]

Connection(type, needed) ==
  [type |-> type, settings |-> [s \in Settings |-> IF s \in needed THEN "some" ELSE None]]

\* The second source has the higher priority and a name of its own.
MCConfig ==
  [version |-> 1, log_level |-> "info", poll_interval |-> 60,
   connections |-> [graph |-> Connection("microsoft_graph", {"tenant_id", "client_id", "client_secret"}),
                    jamf  |-> Connection("jamf", {"url", "client_id", "client_secret"}),
                    snipe |-> Connection("snipeit", {"url", "api_key"})],
   identity |-> [type |-> "entra", connection |-> "graph", domains |-> <<"Corp">>, groups |-> [g \in {} |-> <<>>]],
   devices |-> <<[name |-> "other", type |-> "intune", connection |-> "graph", priority |-> 1, managed_by |-> None],
                 [name |-> "jamf", type |-> "jamf", connection |-> "jamf", priority |-> 2, managed_by |-> "mdm"]>>,
   target |-> [type |-> "snipeit", connection |-> "snipe"],
   users |-> [absent_department |-> "left", locations |-> <<"office">>],
   assets |-> [manufacturers |-> <<"maker">>, writable |-> <<"ready">>, promote_from |-> <<"Stock">>,
               promote_to |-> "Ready", managed_by_field |-> "MDM ", absent_enabled |-> TRUE,
               skip |-> <<[fields |-> <<"name", "assignment">>]>>]]

MCLocationMatches(i, user) == user.profile = "p2"
\* Name and assignment of the device n1 are not synchronized while "a" has it.
MCSkipMatches(i, device, asset) == device.name = "n1" /\ device.user = "a"

\* Promotion to a status that is not among the writable ones.
MCConfigBlocking == [MCConfig EXCEPT !.assets.promote_to = "Broken"]

\* Rules on what the tool itself changes: the assignment waits for the status,
\* the name for the assignment, the managed-by text for the name.
MCConfigChained ==
  [MCConfig EXCEPT !.assets.skip =
     <<[fields |-> <<"assignment">>], [fields |-> <<"name">>], [fields |-> <<"managed_by">>]>>]
MCSkipChained(i, device, asset) ==
  CASE i = 1 -> asset.status # "ready"
    [] i = 2 -> asset.assigned = None
    [] i = 3 -> asset.name # device.name

User(included, profile, department) ==
  [included |-> included, profile |-> profile, start |-> None, department |-> department]
MCUserRecords == {User(TRUE, "p1", " Staff"), User(TRUE, "p2", "twice"), User(FALSE, "p1", "Staff")}

MCDeviceRecords == [name : {None, "n1"}, user : {None, "a", "b"}]

Account(profile, department) ==
  [profile |-> profile, start_date |-> None, department |-> department, location |-> None]
MCAccountRecords == {Account("p1", "d1"), Account("p1", "gone")}

Asset(name, managedBy, status, archived, assigned) ==
  [name |-> name, managed_by |-> managedBy, status |-> status, archived |-> archived,
   manufacturer |-> "Maker", assigned |-> assigned]
MCAssetRecords ==
  {Asset("n1", "mdm", "ready", FALSE, "a"), Asset("", "", "stock", FALSE, None),
   Asset("n2", "mdm", "ready", FALSE, Elsewhere), Asset("n2", "", "broken", FALSE, "b"),
   Asset("n2", "", "ready", TRUE, None)}

One(key, value) == [k \in {key} |-> value]

\* "a" is known and has the laptop; "b" is new, and has just taken it over.
MCWorlds ==
  {[users    |-> [e \in {"a", "b"} |-> User(TRUE, "p1", " Staff")],
    listing  |-> <<One("s1", [name |-> "n1", user |-> "b"]), One("s1", [name |-> "n1", user |-> "a"])>>,
    accounts |-> One("a", Account("p1", "d1")),
    assets   |-> One("s1", asset)] : asset \in MCAssetRecords}
=============================================================================
