------------------------------- MODULE Policy -------------------------------
(***************************************************************************)
(* The configuration: what internal/config/validate.go lets through, and   *)
(* what planner.New makes of it with the metadata that the Snipe snapshot  *)
(* holds.  The configuration names departments, locations, manufacturers   *)
(* and statuses; the planner works with their IDs.  Texts are compared     *)
(* without surrounding blanks, most of them without regard to case.        *)
(*                                                                         *)
(* Left out: the syntax of identifiers, domains, URLs, time zones and      *)
(* expressions, and the merging of several files.                          *)
(***************************************************************************)
EXTENDS SequencesExt

CONSTANTS
  Config,     \* the decoded file, field by field
  Rows,       \* what Snipe lists: departments, locations, statuses and
              \* manufacturers as [id, name], with an ID, and fields as [name, column]
  Trim(_),    \* strings.TrimSpace
  Fold(_),    \* strings.ToLower
  DomainOf(_) \* what follows the last "@" of an email

\* What stands for nothing: the empty string, a nil pointer, ID 0.
None == ""

Blank(text) == Trim(text) = None

Key(text) == Fold(Trim(text))

KeysOf(list) == [i \in DOMAIN list |-> Key(list[i])]
Trimmed(list) == [i \in DOMAIN list |-> Trim(list[i])]

\* validateNonEmptyUnique, given the keys of a list or, where case counts, its
\* texts trimmed.
NonEmptyUnique(keys) == keys # <<>> /\ IsInjective(keys) /\ None \notin Range(keys)

----------------------------------------------------------------------------
(* Validation.                                                             *)

Settings == {"tenant_id", "client_id", "client_secret", "url", "api_key", "base_url"}

Required ==
  [microsoft_graph |-> {"tenant_id", "client_id", "client_secret"},
   jamf            |-> {"url", "client_id", "client_secret"},
   snipeit         |-> {"url", "api_key"}]

Optional == [microsoft_graph |-> {"base_url"}, jamf |-> {}, snipeit |-> {}]

ValidConnection(connection) ==
  /\ connection.type \in DOMAIN Required
  /\ \A s \in Required[connection.type] : ~Blank(connection.settings[s])
  /\ \A s \in Settings \ (Required[connection.type] \cup Optional[connection.type]) :
       connection.settings[s] = None

ValidConnections ==
  /\ DOMAIN Config.connections # {}
  /\ \A name \in DOMAIN Config.connections : ValidConnection(Config.connections[name])

Connects(name, type) ==
  name \in DOMAIN Config.connections /\ Config.connections[name].type = type

ValidIdentity ==
  /\ Config.identity.type = "entra"
  /\ Connects(Config.identity.connection, "microsoft_graph")
  /\ NonEmptyUnique(KeysOf(Config.identity.domains))
  /\ \A alias \in DOMAIN Config.identity.groups : NonEmptyUnique(Trimmed(Config.identity.groups[alias]))

ConnectionOf == [intune |-> "microsoft_graph", jamf |-> "jamf"]

\* At most one source of each type, so at most two.
ValidDevices ==
  /\ Config.devices # <<>>
  /\ \A f \in {"name", "type", "priority"} : IsInjective([i \in DOMAIN Config.devices |-> Config.devices[i][f]])
  /\ \A i \in DOMAIN Config.devices :
       /\ Config.devices[i].type \in DOMAIN ConnectionOf
       /\ Connects(Config.devices[i].connection, ConnectionOf[Config.devices[i].type])

ValidTarget == Config.target.type = "snipeit" /\ Connects(Config.target.connection, "snipeit")

\* Promotion is configured with both ends or not at all.
ValidStatuses(writable, from, to) ==
  /\ NonEmptyUnique(KeysOf(writable))
  /\ IF from = <<>> THEN to = None ELSE NonEmptyUnique(KeysOf(from)) /\ ~Blank(to)

ValidSkip(rule) ==
  /\ rule.fields # <<>> /\ IsInjective(rule.fields)
  /\ ToSet(rule.fields) \subseteq {"name", "managed_by", "assignment"}

ValidPolicy ==
  /\ ~Blank(Config.users.absent_department)
  /\ \A i \in DOMAIN Config.users.locations : ~Blank(Config.users.locations[i])
  /\ NonEmptyUnique(KeysOf(Config.assets.manufacturers))
  /\ ValidStatuses(Config.assets.writable, Config.assets.promote_from, Config.assets.promote_to)
  /\ ~Blank(Config.assets.managed_by_field)
  /\ \A i \in DOMAIN Config.assets.skip : ValidSkip(Config.assets.skip[i])

\* A level that is left out is "info", an interval that is left out a minute.
Valid ==
  /\ Config.version = 1
  /\ Config.log_level = None \/ Key(Config.log_level) \in {"debug", "info", "warn", "error"}
  /\ Config.poll_interval > 0
  /\ ValidConnections /\ ValidIdentity /\ ValidDevices /\ ValidTarget /\ ValidPolicy

----------------------------------------------------------------------------
(* Resolving names.                                                        *)

\* The rows with a name.  A row that two pages of a listing hold counts twice.
Named(rows, name) ==
  SelectSeq(rows, LAMBDA row : ~Blank(name) /\ Key(row.name) = Key(name))

Resolves(rows, name) == Len(Named(rows, name)) = 1
IdOf(rows, name) == Named(rows, name)[1].id

ResolveAll(rows, names) == \A i \in DOMAIN names : Resolves(rows, names[i])

\* Snapshot refuses a label that no field, or more than one, has.
FieldFound ==
  LET found == Named(Rows.fields, Config.assets.managed_by_field)
  IN Len(found) = 1 /\ ~Blank(found[1].column)

MetadataResolves ==
  /\ Resolves(Rows.departments, Config.users.absent_department)
  /\ ResolveAll(Rows.locations, Config.users.locations)
  /\ ResolveAll(Rows.manufacturers, Config.assets.manufacturers)
  /\ ResolveAll(Rows.statuses, Config.assets.writable \o Config.assets.promote_from)
  /\ Config.assets.promote_from # <<>> => Resolves(Rows.statuses, Config.assets.promote_to)

\* There is no plan, and so no write, under any other configuration.
Accepted == Valid /\ FieldFound /\ MetadataResolves

----------------------------------------------------------------------------
(* What the planner works with.                                            *)

IdsOf(rows, names) == {IdOf(rows, names[i]) : i \in DOMAIN names}

Domains == {Key(Config.identity.domains[i]) : i \in DOMAIN Config.identity.domains}

IsInternal(email) == DomainOf(email) \in Domains

\* The device sources by descending priority, and the text for each of them;
\* by default its name.
OrderedSources ==
  LET devices == Config.devices
      order == SetToSortSeq(DOMAIN devices, LAMBDA i, j : devices[i].priority > devices[j].priority)
  IN [k \in DOMAIN devices |-> devices[order[k]]]

ManagedBy ==
  [k \in DOMAIN OrderedSources |->
     IF Blank(OrderedSources[k].managed_by) THEN OrderedSources[k].name ELSE OrderedSources[k].managed_by]

\* resolveOptional: a department that is not there or ambiguous is not known.
DepartmentKnown(user) == Resolves(Rows.departments, user.department)
DepartmentOf(user) == IdOf(Rows.departments, user.department)

AbsentDepartment == IdOf(Rows.departments, Config.users.absent_department)

\* The location IDs of users.location.cases, in order.
Locations ==
  [i \in DOMAIN Config.users.locations |-> IdOf(Rows.locations, Config.users.locations[i])]

Manufacturers == {Key(Config.assets.manufacturers[i]) : i \in DOMAIN Config.assets.manufacturers}

Supported(manufacturer) == Key(manufacturer) \in Manufacturers

Writable    == IdsOf(Rows.statuses, Config.assets.writable)
PromoteFrom == IdsOf(Rows.statuses, Config.assets.promote_from)
PromoteTo   == IdOf(Rows.statuses, Config.assets.promote_to)
=============================================================================
