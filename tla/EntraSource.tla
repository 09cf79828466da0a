---------------------------- MODULE EntraSource ----------------------------
(***************************************************************************)
(* The cached directory of the Entra identity source (internal/app/        *)
(* build.go) over Microsoft Graph's user delta queries (internal/provider/ *)
(* microsoft/entra.go).  ListUsers keeps the users it knows and the link   *)
(* of the last delta round between calls, under a mutex.  A call reads a   *)
(* delta round page by page, then every configured group, and commits both *)
(* the users and the link only at the very end.  Meanwhile the directory   *)
(* changes, requests fail, and Graph may answer 410 Gone, upon which the   *)
(* call starts once more with a full round.                                *)
(***************************************************************************)
EXTENDS Integers, Sequences, FiniteSets

CONSTANTS Ids,          \* directory object IDs
          Groups,       \* the group IDs of the configuration
          Aliases,      \* the group aliases of the configuration
          AliasesOf,    \* group ID -> the aliases it is configured under
          InitMembers,  \* <<group, id>> pairs at the start
          MaxChanges,   \* bound: changes to the directory
          MaxFaults     \* bound: requests that fail or answer 410

\* What the directory says of an ID.  "a" and "b" are two records that pass
\* entraSource.includes, "out" one that does not (guest, foreign domain, blank
\* given name), "gone" no or a deleted user.
Included == {"a", "b"}
Records  == Included \cup {"out", "gone"}
NoLink   == -1

ASSUME AliasAssumption == AliasesOf \in [Groups -> SUBSET Aliases]
ASSUME MemberAssumption == InitMembers \subseteq Groups \X Ids
ASSUME BoundAssumption == MaxChanges \in Nat /\ MaxFaults \in Nat

VARIABLES
  dir,        \* Graph: ID -> record
  log,        \* Graph: the IDs whose records changed, in order
  members,    \* Graph: the <<group, id>> pairs
  changes,    \* how many changes there were so far
  faults,     \* how many requests failed so far
  users,      \* entraSource.users: ID -> cached record, "gone" for none
  deltaLink,  \* entraSource.deltaLink: position in log, NoLink for ""
  pc,         \* "idle", "delta", "groups" or "returned"
  retried,    \* this is the second delta round of the call
  reset,      \* the local variable reset
  todo,       \* Graph: IDs this round has yet to report
  upto,       \* Graph: the position this round's delta link will stand for
  latest,     \* delta.Changes: ID -> the last record reported, "" for none
  groupsLeft, \* groups not read yet
  found,      \* the members read so far
  result,     \* what the last successful call returned
  dirDuring,  \* history: ID -> records it had since the call began
  everMember, \* history: pairs that were members at some time in the call
  heldMember  \* history: pairs that were members all through the call

graph   == <<dir, log, members, changes>>
cache   == <<users, deltaLink>>
round   == <<retried, reset, todo, upto, latest>>
history == <<dirDuring, everMember, heldMember>>
vars == <<graph, faults, cache, pc, round, groupsLeft, found, result, history>>

----------------------------------------------------------------------------
(* Graph.                                                                  *)

ChangedSince(link) == {log[i] : i \in (link + 1)..Len(log)}

\* The users a round starting from `link' has to report: everyone there is, or
\* everyone who changed since the link was handed out.
ToReport(link) == IF link = NoLink THEN {id \in Ids : dir[id] # "gone"} ELSE ChangedSince(link)

\* A user is created, updated or deleted.  A round under way may or may not
\* report the change; if not, the round after its delta link does.
ChangeUser(id, record) ==
  /\ changes < MaxChanges /\ record # dir[id]
  /\ dir' = [dir EXCEPT ![id] = record]
  /\ log' = Append(log, id)
  /\ changes' = changes + 1
  /\ \E reported \in BOOLEAN : todo' = IF reported /\ pc = "delta" THEN todo \cup {id} ELSE todo
  /\ dirDuring' = IF pc \in {"delta", "groups"} THEN [dirDuring EXCEPT ![id] = @ \cup {record}] ELSE dirDuring
  /\ UNCHANGED <<members, faults, cache, pc, retried, reset, upto, latest, groupsLeft, found, result, everMember, heldMember>>

ChangeMember(pair) ==
  /\ changes < MaxChanges
  /\ members' = IF pair \in members THEN members \ {pair} ELSE members \cup {pair}
  /\ changes' = changes + 1
  /\ IF pc \in {"delta", "groups"}
     THEN everMember' = everMember \cup {pair} /\ heldMember' = heldMember \ {pair}
     ELSE UNCHANGED <<everMember, heldMember>>
  /\ UNCHANGED <<dir, log, faults, cache, pc, round, groupsLeft, found, result, dirDuring>>

----------------------------------------------------------------------------
(* ListUsers.                                                              *)

\* Fault: whoever was not removed is cached, without asking includes.
Cached_Unfiltered(record) == record

\* entraSource.includes, applied to a reported change: the cached record.
Cached(record) == IF record \in Included THEN record ELSE "gone"

\* The first request of a delta round.
OpenRound(link) ==
  /\ todo' = ToReport(link)
  /\ upto' = Len(log)
  /\ latest' = [id \in Ids |-> ""]

Begin ==
  /\ pc \in {"idle", "returned"}
  /\ pc' = "delta"
  /\ OpenRound(deltaLink)
  /\ retried' = FALSE
  /\ reset' = (deltaLink = NoLink)
  /\ dirDuring' = [id \in Ids |-> {dir[id]}]
  /\ everMember' = members /\ heldMember' = members
  /\ UNCHANGED <<graph, faults, cache, groupsLeft, found, result>>

\* Fault: the delta link is stored as soon as it is known.
Page_StoresLink(ids) ==
  /\ pc = "delta"
  /\ ids \subseteq todo /\ (todo = {} \/ ids # {})
  /\ latest' = [id \in Ids |-> IF id \in ids THEN dir[id] ELSE latest[id]]
  /\ todo' = todo \ ids
  /\ IF todo' = {}
     THEN pc' = "groups" /\ groupsLeft' = Groups /\ found' = {} /\ deltaLink' = upto
     ELSE UNCHANGED <<pc, groupsLeft, found, deltaLink>>
  /\ UNCHANGED <<graph, faults, users, retried, reset, upto, result, history>>

\* A page arrives; the last one carries the delta link, and all group reads
\* are started.
Page(ids) ==
  /\ pc = "delta"
  /\ ids \subseteq todo /\ (todo = {} \/ ids # {})
  /\ latest' = [id \in Ids |-> IF id \in ids THEN dir[id] ELSE latest[id]]
  /\ todo' = todo \ ids
  /\ IF todo' = {}
     THEN pc' = "groups" /\ groupsLeft' = Groups /\ found' = {}
     ELSE UNCHANGED <<pc, groupsLeft, found>>
  /\ UNCHANGED <<graph, faults, cache, retried, reset, upto, result, history>>

\* Graph answers 410 to a request of the round: the first time the call starts
\* over with a full round, the second time it fails.
Expired ==
  /\ pc = "delta" /\ faults < MaxFaults
  /\ faults' = faults + 1
  /\ IF ~retried
     THEN OpenRound(NoLink) /\ retried' = TRUE /\ reset' = TRUE /\ UNCHANGED pc
     ELSE pc' = "idle" /\ UNCHANGED round
  /\ UNCHANGED <<graph, cache, groupsLeft, found, result, history>>

\* Any other failure of a request, a malformed page, a repeated next link, a
\* missing delta link, or the cancelled context: ListUsers returns the error.
Fail ==
  /\ pc \in {"delta", "groups"} /\ faults < MaxFaults
  /\ faults' = faults + 1
  /\ pc' = "idle"
  /\ UNCHANGED <<graph, cache, round, groupsLeft, found, result, history>>

\* Fault: a group read overwrites the memberships found by the others.
ReadGroup_Overwrites(g) ==
  /\ pc = "groups" /\ g \in groupsLeft
  /\ groupsLeft' = groupsLeft \ {g}
  /\ found' = {pair \in members : pair[1] = g}
  /\ UNCHANGED <<graph, faults, cache, pc, round, result, history>>

\* One of the concurrent group reads completes.
ReadGroup(g) ==
  /\ pc = "groups" /\ g \in groupsLeft
  /\ groupsLeft' = groupsLeft \ {g}
  /\ found' = found \cup {pair \in members : pair[1] = g}
  /\ UNCHANGED <<graph, faults, cache, pc, round, result, history>>

\* Fault: a full round after an expired link is merged into the old users.
UsersByID_KeepsOldOnes ==
  [id \in Ids |-> IF latest[id] # "" THEN Cached(latest[id]) ELSE users[id]]

\* Fault: a user who is no longer included stays in the cache.
UsersByID_NeverDrops ==
  [id \in Ids |->
     IF latest[id] # "" /\ Cached(latest[id]) # "gone" THEN latest[id]
     ELSE IF reset THEN "gone" ELSE users[id]]

\* usersByID once the reported changes are applied to the cached users, or
\* to nothing after a reset.
UsersByID ==
  [id \in Ids |->
     IF latest[id] # "" THEN Cached(latest[id])
     ELSE IF reset THEN "gone" ELSE users[id]]

GroupsOf(id) == UNION {AliasesOf[g] : g \in {h \in Groups : <<h, id>> \in found}}

Commit ==
  /\ pc = "groups" /\ groupsLeft = {}
  /\ pc' = "returned"
  /\ users' = UsersByID
  /\ deltaLink' = upto
  /\ result' = [id \in Ids |-> [record |-> UsersByID[id], groups |-> GroupsOf(id)]]
  /\ UNCHANGED <<graph, faults, round, groupsLeft, found, history>>

----------------------------------------------------------------------------
Init ==
  /\ dir \in [Ids -> {"a", "out", "gone"}]
  /\ log = <<>> /\ members = InitMembers /\ changes = 0 /\ faults = 0
  /\ users = [id \in Ids |-> "gone"] /\ deltaLink = NoLink
  /\ pc = "idle" /\ retried = FALSE /\ reset = FALSE
  /\ todo = {} /\ upto = 0 /\ latest = [id \in Ids |-> ""]
  /\ groupsLeft = {} /\ found = {}
  /\ result = [id \in Ids |-> [record |-> "gone", groups |-> {}]]
  /\ dirDuring = [id \in Ids |-> {}] /\ everMember = {} /\ heldMember = {}

Progress ==
  \/ Begin
  \/ \E ids \in SUBSET Ids : Page(ids)
  \/ \E g \in Groups : ReadGroup(g)
  \/ Commit

Environment ==
  \/ \E id \in Ids, record \in Records : ChangeUser(id, record)
  \/ \E pair \in Groups \X Ids : ChangeMember(pair)
  \/ Expired
  \/ Fail

Next == Progress \/ Environment

\* The loop calls ListUsers again and again, and a request that does not fail
\* is answered.
Spec == Init /\ [][Next]_vars /\ WF_vars(Progress)

----------------------------------------------------------------------------
(* Properties.                                                             *)

TypeOK ==
  /\ dir \in [Ids -> Records] /\ log \in Seq(Ids) /\ members \subseteq Groups \X Ids
  /\ changes \in 0..MaxChanges /\ faults \in 0..MaxFaults
  /\ users \in [Ids -> Included \cup {"gone"}] /\ deltaLink \in NoLink..Len(log)
  /\ pc \in {"idle", "delta", "groups", "returned"}
  /\ retried \in BOOLEAN /\ reset \in BOOLEAN
  /\ todo \subseteq Ids /\ upto \in 0..Len(log) /\ latest \in [Ids -> Records \cup {""}]
  /\ groupsLeft \subseteq Groups /\ found \subseteq Groups \X Ids
  /\ result \in [Ids -> [record : Included \cup {"gone"}, groups : SUBSET Aliases]]

\* No change is ever lost between the cache and its cursor: a user whose cached
\* record is out of date is one the next round from deltaLink will report.
\* This holds through failures in the group reads, which come after the delta
\* round has been consumed, and through expired links.
NoChangeLost ==
  IF deltaLink = NoLink
  THEN users = [id \in Ids |-> "gone"]
  ELSE \A id \in Ids : users[id] = Cached(dir[id]) \/ id \in ChangedSince(deltaLink)

\* A successful call returns, for every user, a record the directory held at
\* some moment of that call: nobody who left before it began, nobody missing
\* who was there throughout, no outdated record.
ResultIsCurrent ==
  pc = "returned" =>
    \A id \in Ids : result[id].record \in {Cached(record) : record \in dirDuring[id]}

\* The group aliases of a returned user are complete (the GroupsComplete flag
\* that location rules rely on): an alias of a group the user was in all the
\* time is there, and none of a group the user never was in during the call.
GroupsComplete ==
  pc = "returned" => \A id \in Ids :
    /\ \A g \in Groups : <<g, id>> \in heldMember => AliasesOf[g] \subseteq result[id].groups
    /\ \A alias \in result[id].groups : \E g \in Groups : alias \in AliasesOf[g] /\ <<g, id>> \in everMember

\* Once the directory is quiet and requests succeed, the cache catches up and
\* stays so, whatever went wrong before.
CatchesUp == <>[](\A id \in Ids : users[id] = Cached(dir[id]))
=============================================================================
