-------------------------- MODULE EntraSourceProofs --------------------------
(***************************************************************************)
(* The cache of the Entra source keeps up with its cursor and returns what *)
(* is current, for any number of users, groups, changes and faults.        *)
(***************************************************************************)
EXTENDS EntraSource, TLAPS

Calling == pc \in {"delta", "groups"}

\* The round under way will not lose a change: what it makes of a user is right
\* already, or the round is going to report the user, or the one after it is.
RoundCovers ==
  Calling => \A id \in Ids :
    \/ UsersByID[id] = Cached(dir[id])
    \/ id \in todo
    \/ id \in ChangedSince(upto)

\* What the round makes of a user is something the directory has said during
\* the call, or yet to be reported.
RoundIsCurrent ==
  Calling => \A id \in Ids :
    /\ dir[id] \in dirDuring[id]
    /\ id \in todo \/ UsersByID[id] \in {Cached(record) : record \in dirDuring[id]}

\* The history of the memberships encloses what they are now, and what was read
\* lies between the two histories.
MembersEnclosed ==
  /\ Calling => heldMember \subseteq members /\ members \subseteq everMember
  /\ pc = "groups" =>
       /\ found \subseteq everMember
       /\ \A pair \in heldMember : pair[1] \in groupsLeft \/ pair \in found

\* The groups are read when the round has nothing left to report.
GroupsLast == pc = "groups" => todo = {}

HistoryType ==
  /\ dirDuring \in [Ids -> SUBSET Records]
  /\ heldMember \subseteq Groups \X Ids /\ everMember \subseteq Groups \X Ids

IInv ==
  /\ TypeOK
  /\ HistoryType
  /\ NoChangeLost
  /\ RoundCovers
  /\ RoundIsCurrent
  /\ MembersEnclosed
  /\ GroupsLast
  /\ ResultIsCurrent
  /\ GroupsComplete

-----------------------------------------------------------------------------
(* What the operators return.                                              *)

LEMMA CachedType == \A record : Cached(record) \in Included \cup {"gone"}
BY DEF Cached

LEMMA UsersByIDType ==
  ASSUME users \in [Ids -> Included \cup {"gone"}]
  PROVE  UsersByID \in [Ids -> Included \cup {"gone"}]
BY CachedType DEF UsersByID

LEMMA GroupsType == \A id : GroupsOf(id) \subseteq Aliases
BY AliasAssumption DEF GroupsOf

\* The numbers of a state.
LEMMA Bounds ==
  ASSUME TypeOK
  PROVE  /\ log \in Seq(Ids) /\ Len(log) \in Nat
         /\ deltaLink \in Int /\ NoLink <= deltaLink /\ deltaLink <= Len(log)
         /\ upto \in Nat /\ upto <= Len(log)
         /\ changes \in Nat /\ changes <= MaxChanges
         /\ faults \in Nat /\ faults <= MaxFaults
<1>1. /\ log \in Seq(Ids) /\ deltaLink \in NoLink..Len(log) /\ upto \in 0..Len(log)
      /\ changes \in 0..MaxChanges /\ faults \in 0..MaxFaults
  BY DEF TypeOK
<1>2. Len(log) \in Nat
  BY <1>1
<1>3. QED
  BY <1>1, <1>2, BoundAssumption DEF NoLink

LEMMA ToReportType ==
  ASSUME TypeOK, NEW link \in NoLink..Len(log)
  PROVE  ToReport(link) \subseteq Ids
<1>1. CASE link = NoLink
  BY <1>1 DEF ToReport
<1>2. CASE link # NoLink
  <2>1. log \in Seq(Ids) /\ Len(log) \in Nat /\ link \in Nat
    BY <1>2, Bounds DEF NoLink
  <2>2. ChangedSince(link) \subseteq Ids
    BY <2>1 DEF ChangedSince
  <2>3. QED
    BY <1>2, <2>2 DEF ToReport
<1>3. QED
  BY <1>1, <1>2

\* What had changed since a link still has when the log has grown, and so has
\* the user it has grown by.
LEMMA LogGrows ==
  ASSUME TypeOK, NEW id \in Ids, log' = Append(log, id)
  PROVE  \A link \in 0..Len(log) :
           /\ id \in {log'[i] : i \in (link + 1)..Len(log')}
           /\ ChangedSince(link) \subseteq {log'[i] : i \in (link + 1)..Len(log')}
<1>1. log \in Seq(Ids) /\ Len(log) \in Nat
  BY Bounds
<1>2. Len(log') = Len(log) + 1 /\ log'[Len(log) + 1] = id
  BY <1>1
<1>3. \A i \in 1..Len(log) : log'[i] = log[i]
  BY <1>1
<1>4. QED
  BY <1>1, <1>2, <1>3 DEF ChangedSince

-----------------------------------------------------------------------------
(* Types.                                                                  *)

LEMMA TypesInductive ==
  ASSUME TypeOK, HistoryType, [Next]_vars
  PROVE  TypeOK' /\ HistoryType'
<1>1. CASE Begin
  <2>1. /\ todo' = ToReport(deltaLink) /\ upto' = Len(log) /\ latest' = [id \in Ids |-> ""]
        /\ log' = log
    BY <1>1 DEF Begin, OpenRound, graph
  <2>2. todo' \subseteq Ids
    BY <2>1, ToReportType DEF TypeOK
  <2>3. upto' \in 0..Len(log)'
    <3>1. upto' = Len(log) /\ log' = log
      BY <2>1
    <3>2. QED
      BY <3>1, Bounds
  <2>4. QED
    BY <1>1, <2>1, <2>2, <2>3 DEF Begin, graph, cache, TypeOK, HistoryType
<1>2. ASSUME NEW ids \in SUBSET Ids, Page(ids) PROVE TypeOK' /\ HistoryType'
  BY <1>2 DEF Page, graph, cache, history, TypeOK, HistoryType
<1>3. ASSUME NEW g \in Groups, ReadGroup(g) PROVE TypeOK' /\ HistoryType'
  BY <1>3 DEF ReadGroup, graph, cache, history, round, TypeOK, HistoryType
<1>4. CASE Commit
  <2>1. UsersByID \in [Ids -> Included \cup {"gone"}] /\ \A id \in Ids : GroupsOf(id) \in SUBSET Aliases
    BY UsersByIDType, GroupsType DEF TypeOK
  <2>2. result' \in [Ids -> [record : Included \cup {"gone"}, groups : SUBSET Aliases]]
    BY <1>4, <2>1 DEF Commit, TypeOK, HistoryType
  <2>3. deltaLink' \in NoLink..Len(log)'
    BY <1>4, Bounds DEF Commit, graph, NoLink
  <2>4. QED
    BY <1>4, <2>1, <2>2, <2>3 DEF Commit, graph, history, round, TypeOK, HistoryType
<1>5. ASSUME NEW id \in Ids, NEW record \in Records, ChangeUser(id, record) PROVE TypeOK' /\ HistoryType'
  <2>1. log' = Append(log, id) /\ changes < MaxChanges /\ changes' = changes + 1
    BY <1>5 DEF ChangeUser
  <2>2. log' \in Seq(Ids) /\ Len(log') = Len(log) + 1
    BY <2>1, Bounds
  <2>3. changes' \in 0..MaxChanges
    BY <2>1, Bounds, BoundAssumption
  <2>4. todo' \subseteq Ids /\ dir' \in [Ids -> Records]
    BY <1>5 DEF ChangeUser, TypeOK, HistoryType
  <2>5. deltaLink' \in NoLink..Len(log') /\ upto' \in 0..Len(log')
    BY <1>5, <2>2, Bounds DEF ChangeUser, cache, NoLink
  <2>6. QED
    BY <1>5, <2>2, <2>3, <2>4, <2>5 DEF ChangeUser, cache, TypeOK, HistoryType
<1>6. ASSUME NEW pair \in Groups \X Ids, ChangeMember(pair) PROVE TypeOK' /\ HistoryType'
  <2>1. changes < MaxChanges /\ changes' = changes + 1 /\ members' \subseteq Groups \X Ids
    BY <1>6 DEF ChangeMember, TypeOK
  <2>2. changes' \in 0..MaxChanges
    BY <2>1, Bounds, BoundAssumption
  <2>3. QED
    BY <1>6, <2>1, <2>2 DEF ChangeMember, cache, round, TypeOK, HistoryType
<1>7. CASE Expired
  <2>1. NoLink \in NoLink..Len(log)
    BY Bounds DEF NoLink
  <2>2. faults < MaxFaults /\ faults' = faults + 1
    BY <1>7 DEF Expired
  <2>3. faults' \in 0..MaxFaults
    BY <2>2, Bounds, BoundAssumption
  <2>4. CASE ~retried
    <3>1. /\ todo' \subseteq Ids /\ upto' = Len(log) /\ latest' = [id \in Ids |-> ""]
          /\ retried' = TRUE /\ reset' = TRUE /\ pc' = pc /\ log' = log
      BY <1>7, <2>1, <2>4, ToReportType DEF Expired, OpenRound, graph
    <3>2. upto' \in 0..Len(log)'
      <4>1. upto' = Len(log) /\ log' = log
        BY <3>1
      <4>2. QED
        BY <4>1, Bounds
    <3>3. QED
      BY <1>7, <2>3, <3>1, <3>2 DEF Expired, graph, cache, history, TypeOK, HistoryType
  <2>5. CASE retried
    BY <1>7, <2>3, <2>5 DEF Expired, graph, cache, history, round, TypeOK, HistoryType
  <2>6. QED
    BY <2>4, <2>5
<1>8. CASE Fail
  <2>1. faults < MaxFaults /\ faults' = faults + 1
    BY <1>8 DEF Fail
  <2>2. faults' \in 0..MaxFaults
    BY <2>1, Bounds, BoundAssumption
  <2>3. QED
    BY <1>8, <2>2 DEF Fail, graph, cache, history, round, TypeOK, HistoryType
<1>9. CASE UNCHANGED vars
  BY <1>9 DEF vars, graph, cache, history, round, TypeOK, HistoryType
<1>10. QED
  BY <1>1, <1>2, <1>3, <1>4, <1>5, <1>6, <1>7, <1>8, <1>9 DEF Next, Progress, Environment

-----------------------------------------------------------------------------
(* The cache and its cursor.                                               *)

Cursor == NoChangeLost /\ RoundCovers /\ GroupsLast

\* A round that begins covers every change.
LEMMA RoundBegins ==
  ASSUME TypeOK, NEW link \in NoLink..Len(log), OpenRound(link), UNCHANGED <<dir, users>>,
         link # NoLink => \A id \in Ids : users[id] = Cached(dir[id]) \/ id \in ChangedSince(link),
         reset' = (link = NoLink)
  PROVE  \A id \in Ids : UsersByID'[id] = Cached(dir[id]) \/ id \in todo'
<1>1. TAKE id \in Ids
<1>2. UsersByID'[id] = IF reset' THEN "gone" ELSE users[id]
  BY DEF OpenRound, UsersByID
<1>3. CASE link = NoLink
  BY <1>2, <1>3 DEF OpenRound, ToReport, Cached, Included
<1>4. CASE link # NoLink
  BY <1>2, <1>4 DEF OpenRound, ToReport
<1>5. QED
  BY <1>3, <1>4

LEMMA CursorInductive ==
  ASSUME TypeOK, Cursor, [Next]_vars
  PROVE  Cursor'
<1> USE DEF Cursor
<1>1. CASE Begin
  <2>1. /\ OpenRound(deltaLink) /\ UNCHANGED <<dir, users, deltaLink, log>> /\ pc' = "delta"
        /\ reset' = (deltaLink = NoLink)
    BY <1>1 DEF Begin, graph, cache
  <2>2. NoChangeLost'
    BY <2>1 DEF NoChangeLost, ChangedSince
  <2>3. \A id \in Ids : UsersByID'[id] = Cached(dir[id]) \/ id \in todo'
    BY <2>1, RoundBegins DEF NoChangeLost, TypeOK
  <2>4. QED
    BY <2>1, <2>2, <2>3 DEF RoundCovers, GroupsLast
<1>2. ASSUME NEW ids \in SUBSET Ids, Page(ids) PROVE Cursor'
  <2>1. /\ UNCHANGED <<dir, users, deltaLink, log, reset, upto>> /\ pc = "delta"
        /\ latest' = [id \in Ids |-> IF id \in ids THEN dir[id] ELSE latest[id]]
        /\ todo' = todo \ ids /\ (pc' = "groups" => todo' = {})
    BY <1>2 DEF Page, graph, cache
  <2>2. NoChangeLost'
    BY <2>1 DEF NoChangeLost, ChangedSince
  <2>3. ASSUME NEW id \in Ids
        PROVE  UsersByID'[id] = Cached(dir[id]) \/ id \in todo' \/ id \in ChangedSince(upto)
    <3>1. CASE id \in ids
      <4>1. latest'[id] = dir[id] /\ dir[id] # ""
        BY <2>1, <3>1 DEF TypeOK, Records, Included
      <4>2. QED
        BY <4>1 DEF UsersByID
    <3>2. CASE id \notin ids
      <4>1. latest'[id] = latest[id]
        BY <2>1, <3>2
      <4>2. UsersByID'[id] = UsersByID[id]
        BY <2>1, <4>1 DEF UsersByID
      <4>3. QED
        BY <2>1, <3>2, <4>2 DEF RoundCovers, Calling
    <3>3. QED
      BY <3>1, <3>2
  <2>4. ChangedSince(upto)' = ChangedSince(upto)
    BY <2>1 DEF ChangedSince
  <2>5. QED
    BY <2>1, <2>2, <2>3, <2>4 DEF RoundCovers, GroupsLast
<1>3. CASE Commit
  <2>1. /\ pc = "groups" /\ pc' = "returned" /\ UNCHANGED <<dir, log>>
        /\ users' = UsersByID /\ deltaLink' = upto
    BY <1>3 DEF Commit, graph
  <2>2. deltaLink' # NoLink
    BY <2>1, Bounds DEF NoLink
  <2>3. \A id \in Ids : UsersByID[id] = Cached(dir[id]) \/ id \in ChangedSince(upto)
    BY <2>1 DEF RoundCovers, Calling, GroupsLast
  <2>4. NoChangeLost'
    BY <2>1, <2>2, <2>3 DEF NoChangeLost, ChangedSince
  <2>5. QED
    BY <2>1, <2>4 DEF RoundCovers, Calling, GroupsLast
<1>4. ASSUME NEW id \in Ids, NEW record \in Records, ChangeUser(id, record) PROVE Cursor'
  <2>1. /\ dir' = [dir EXCEPT ![id] = record] /\ log' = Append(log, id)
        /\ UNCHANGED <<users, deltaLink, pc, reset, upto, latest>>
        /\ todo \subseteq todo' /\ (pc = "groups" => todo' = todo)
    BY <1>4 DEF ChangeUser, cache
  <2>2. \A other \in Ids \ {id} : dir'[other] = dir[other]
    BY <2>1 DEF TypeOK
  <2>3. UsersByID' = UsersByID
    BY <2>1 DEF UsersByID
  <2>4. \A link \in 0..Len(log) :
          /\ id \in {log'[i] : i \in (link + 1)..Len(log')}
          /\ ChangedSince(link) \subseteq {log'[i] : i \in (link + 1)..Len(log')}
    BY <2>1, LogGrows
  <2>5. id \in ChangedSince(upto)' /\ ChangedSince(upto) \subseteq ChangedSince(upto)'
    <3>1. upto \in 0..Len(log) /\ upto' = upto
      BY <2>1 DEF TypeOK
    <3>2. ChangedSince(upto)' = {log'[i] : i \in (upto + 1)..Len(log')}
      BY <3>1 DEF ChangedSince
    <3>3. QED
      BY <2>4, <3>1, <3>2
  <2>6. RoundCovers'
    BY <2>1, <2>2, <2>3, <2>5 DEF RoundCovers, Calling
  <2>7. NoChangeLost'
    <3>1. CASE deltaLink = NoLink
      BY <2>1, <3>1 DEF NoChangeLost
    <3>2. CASE deltaLink # NoLink
      <4>1. deltaLink \in 0..Len(log) /\ deltaLink' = deltaLink
        BY <2>1, <3>2, Bounds DEF NoLink
      <4>2. ChangedSince(deltaLink)' = {log'[i] : i \in (deltaLink + 1)..Len(log')}
        BY <4>1 DEF ChangedSince
      <4>3. id \in ChangedSince(deltaLink)' /\ ChangedSince(deltaLink) \subseteq ChangedSince(deltaLink)'
        BY <2>4, <4>1, <4>2
      <4>4. QED
        BY <2>1, <2>2, <3>2, <4>3 DEF NoChangeLost
    <3>3. QED
      BY <3>1, <3>2
  <2>8. GroupsLast'
    BY <2>1 DEF GroupsLast
  <2>9. QED
    BY <2>6, <2>7, <2>8
<1>5. CASE Expired
  <2>1. /\ UNCHANGED <<dir, users, deltaLink, log>> /\ pc = "delta"
        /\ IF ~retried THEN OpenRound(NoLink) /\ reset' /\ pc' = pc ELSE pc' = "idle"
    BY <1>5 DEF Expired, graph, cache
  <2>2. NoChangeLost'
    BY <2>1 DEF NoChangeLost, ChangedSince
  <2>3. CASE ~retried
    <3>1. NoLink \in NoLink..Len(log)
      BY Bounds DEF NoLink
    <3>2. reset' = (NoLink = NoLink)
      BY <1>5, <2>3 DEF Expired
    <3>3. \A id \in Ids : UsersByID'[id] = Cached(dir[id]) \/ id \in todo'
      BY <2>1, <2>3, <3>1, <3>2, RoundBegins
    <3>4. QED
      BY <2>1, <2>2, <2>3, <3>3 DEF RoundCovers, GroupsLast
  <2>4. CASE retried
    BY <2>1, <2>2, <2>4 DEF RoundCovers, Calling, GroupsLast
  <2>5. QED
    BY <2>3, <2>4
<1>6. CASE Fail
  BY <1>6 DEF Fail, graph, cache, NoChangeLost, ChangedSince, RoundCovers, Calling, GroupsLast
<1>7. CASE \/ \E g \in Groups : ReadGroup(g)
           \/ \E pair \in Groups \X Ids : ChangeMember(pair)
           \/ UNCHANGED vars
  <2>1. UNCHANGED <<dir, log, users, deltaLink, pc, reset, todo, upto, latest>>
    BY <1>7 DEF ReadGroup, ChangeMember, vars, graph, cache, round
  <2>2. UsersByID' = UsersByID
    BY <2>1 DEF UsersByID
  <2>3. ChangedSince(upto)' = ChangedSince(upto) /\ ChangedSince(deltaLink)' = ChangedSince(deltaLink)
    BY <2>1 DEF ChangedSince
  <2>4. QED
    BY <2>1, <2>2, <2>3 DEF NoChangeLost, RoundCovers, Calling, GroupsLast
<1>8. QED
  BY <1>1, <1>2, <1>3, <1>4, <1>5, <1>6, <1>7 DEF Next, Progress, Environment

-----------------------------------------------------------------------------
(* What a call returns.                                                    *)

Current == RoundIsCurrent /\ ResultIsCurrent

LEMMA CurrentInductive ==
  ASSUME TypeOK, HistoryType, Cursor, Current, [Next]_vars
  PROVE  Current'
<1> USE DEF Current
<1> DEFINE Said(id) == {Cached(record) : record \in dirDuring[id]}
<1>1. CASE Begin
  <2>1. /\ OpenRound(deltaLink) /\ UNCHANGED <<dir, users>> /\ pc' = "delta"
        /\ reset' = (deltaLink = NoLink) /\ dirDuring' = [id \in Ids |-> {dir[id]}]
    BY <1>1 DEF Begin, graph, cache
  <2>2. \A id \in Ids : UsersByID'[id] = Cached(dir[id]) \/ id \in todo'
    BY <2>1, RoundBegins DEF Cursor, NoChangeLost, TypeOK
  <2>3. QED
    BY <2>1, <2>2 DEF RoundIsCurrent, ResultIsCurrent
<1>2. ASSUME NEW ids \in SUBSET Ids, Page(ids) PROVE Current'
  <2>1. /\ UNCHANGED <<dir, users, reset, dirDuring>> /\ pc = "delta" /\ pc' # "returned"
        /\ latest' = [id \in Ids |-> IF id \in ids THEN dir[id] ELSE latest[id]]
        /\ todo' = todo \ ids
    BY <1>2 DEF Page, graph, cache, history
  <2>2. ASSUME NEW id \in Ids
        PROVE  id \in todo' \/ UsersByID'[id] \in Said(id)
    <3>1. CASE id \in ids
      <4>1. latest'[id] = dir[id] /\ dir[id] # ""
        BY <2>1, <3>1 DEF TypeOK, Records, Included
      <4>2. UsersByID'[id] = Cached(dir[id])
        BY <4>1 DEF UsersByID
      <4>3. QED
        BY <2>1, <4>2 DEF RoundIsCurrent, Calling
    <3>2. CASE id \notin ids
      <4>1. latest'[id] = latest[id]
        BY <2>1, <3>2
      <4>2. UsersByID'[id] = UsersByID[id]
        BY <2>1, <4>1 DEF UsersByID
      <4>3. QED
        BY <2>1, <3>2, <4>2 DEF RoundIsCurrent, Calling
    <3>3. QED
      BY <3>1, <3>2
  <2>3. QED
    BY <2>1, <2>2 DEF RoundIsCurrent, ResultIsCurrent, Calling
<1>3. CASE Commit
  <2>1. /\ pc = "groups" /\ pc' = "returned" /\ dirDuring' = dirDuring
        /\ result' = [id \in Ids |-> [record |-> UsersByID[id], groups |-> GroupsOf(id)]]
    BY <1>3 DEF Commit, history
  <2>2. \A id \in Ids : UsersByID[id] \in Said(id)
    BY <2>1 DEF RoundIsCurrent, Calling, Cursor, GroupsLast
  <2>3. QED
    BY <2>1, <2>2 DEF RoundIsCurrent, ResultIsCurrent, Calling
<1>4. ASSUME NEW id \in Ids, NEW record \in Records, ChangeUser(id, record) PROVE Current'
  <2>1. /\ dir' = [dir EXCEPT ![id] = record] /\ dir' \in [Ids -> Records]
        /\ UNCHANGED <<users, pc, reset, latest, result>> /\ todo \subseteq todo'
        /\ dirDuring' = IF Calling THEN [dirDuring EXCEPT ![id] = @ \cup {record}] ELSE dirDuring
    BY <1>4 DEF ChangeUser, cache, Calling, TypeOK
  <2>2. UsersByID' = UsersByID
    BY <2>1 DEF UsersByID
  <2>3. CASE Calling
    <3>1. \A other \in Ids :
            /\ dirDuring[other] \subseteq dirDuring'[other]
            /\ dir'[other] = IF other = id THEN record ELSE dir[other]
            /\ other = id => record \in dirDuring'[other]
      BY <2>1, <2>3 DEF TypeOK, HistoryType
    <3>2. QED
      BY <2>1, <2>2, <2>3, <3>1 DEF RoundIsCurrent, ResultIsCurrent, Calling
  <2>4. CASE ~Calling
    BY <2>1, <2>4 DEF RoundIsCurrent, ResultIsCurrent, Calling
  <2>5. QED
    BY <2>3, <2>4
<1>5. CASE Expired
  <2>1. /\ UNCHANGED <<dir, users, dirDuring>> /\ pc = "delta"
        /\ IF ~retried THEN OpenRound(NoLink) /\ reset' /\ pc' = pc ELSE pc' = "idle"
    BY <1>5 DEF Expired, graph, cache, history
  <2>2. CASE ~retried
    <3>1. NoLink \in NoLink..Len(log)
      BY Bounds DEF NoLink
    <3>2. reset' = (NoLink = NoLink)
      BY <1>5, <2>2 DEF Expired
    <3>3. \A id \in Ids : UsersByID'[id] = Cached(dir[id]) \/ id \in todo'
      BY <2>1, <2>2, <3>1, <3>2, RoundBegins
    <3>4. QED
      BY <2>1, <2>2, <3>3 DEF RoundIsCurrent, ResultIsCurrent, Calling
  <2>3. CASE retried
    BY <2>1, <2>3 DEF RoundIsCurrent, ResultIsCurrent, Calling
  <2>4. QED
    BY <2>2, <2>3
<1>6. CASE Fail
  BY <1>6 DEF Fail, RoundIsCurrent, ResultIsCurrent, Calling
<1>7. CASE \/ \E g \in Groups : ReadGroup(g)
           \/ \E pair \in Groups \X Ids : ChangeMember(pair)
           \/ UNCHANGED vars
  <2>1. UNCHANGED <<dir, users, pc, reset, todo, latest, dirDuring, result>>
    BY <1>7 DEF ReadGroup, ChangeMember, vars, graph, cache, round, history
  <2>2. UsersByID' = UsersByID
    BY <2>1 DEF UsersByID
  <2>3. QED
    BY <2>1, <2>2 DEF RoundIsCurrent, ResultIsCurrent, Calling
<1>8. QED
  BY <1>1, <1>2, <1>3, <1>4, <1>5, <1>6, <1>7 DEF Next, Progress, Environment

Memberships == MembersEnclosed /\ GroupsComplete

LEMMA MembershipsInductive ==
  ASSUME TypeOK, HistoryType, Memberships, [Next]_vars
  PROVE  Memberships'
<1> USE DEF Memberships
<1>1. CASE Begin
  BY <1>1 DEF Begin, graph, MembersEnclosed, GroupsComplete, Calling
<1>2. ASSUME NEW ids \in SUBSET Ids, Page(ids) PROVE Memberships'
  <2>1. /\ UNCHANGED <<members, everMember, heldMember>> /\ pc = "delta" /\ pc' # "returned"
        /\ pc' = "groups" => found' = {} /\ groupsLeft' = Groups
    BY <1>2 DEF Page, graph, history
  <2>2. QED
    BY <2>1 DEF MembersEnclosed, GroupsComplete, Calling, HistoryType
<1>3. ASSUME NEW g \in Groups, ReadGroup(g) PROVE Memberships'
  <2>1. /\ UNCHANGED <<members, everMember, heldMember, pc>> /\ pc = "groups"
        /\ groupsLeft' = groupsLeft \ {g}
        /\ found' = found \cup {pair \in members : pair[1] = g}
    BY <1>3 DEF ReadGroup, graph, history
  <2>2. QED
    BY <2>1 DEF MembersEnclosed, GroupsComplete, Calling
<1>4. CASE Commit
  <2>1. /\ UNCHANGED <<members, everMember, heldMember>>
        /\ pc = "groups" /\ pc' = "returned" /\ groupsLeft = {}
        /\ result' = [id \in Ids |-> [record |-> UsersByID[id], groups |-> GroupsOf(id)]]
    BY <1>4 DEF Commit, graph, history
  <2>2. found \subseteq everMember /\ heldMember \subseteq found
    BY <2>1 DEF MembersEnclosed
  <2>3. ASSUME NEW id \in Ids
        PROVE  /\ \A g \in Groups : <<g, id>> \in heldMember => AliasesOf[g] \subseteq GroupsOf(id)
               /\ \A alias \in GroupsOf(id) : \E g \in Groups : alias \in AliasesOf[g] /\ <<g, id>> \in everMember
    BY <2>2 DEF GroupsOf
  <2>4. \A id \in Ids : result'[id].groups = GroupsOf(id)
    BY <2>1
  <2>5. QED
    BY <2>1, <2>3, <2>4 DEF MembersEnclosed, GroupsComplete, Calling
<1>5. ASSUME NEW pair \in Groups \X Ids, ChangeMember(pair) PROVE Memberships'
  BY <1>5 DEF ChangeMember, MembersEnclosed, GroupsComplete, Calling
<1>6. CASE Expired \/ Fail
  BY <1>6 DEF Expired, Fail, graph, history, MembersEnclosed, GroupsComplete, Calling
<1>7. CASE (\E id \in Ids, record \in Records : ChangeUser(id, record)) \/ UNCHANGED vars
  BY <1>7 DEF ChangeUser, vars, graph, history, MembersEnclosed, GroupsComplete, Calling
<1>8. QED
  BY <1>1, <1>2, <1>3, <1>4, <1>5, <1>6, <1>7 DEF Next, Progress, Environment

-----------------------------------------------------------------------------
(* The theorems.                                                           *)

LEMMA EntraInit == Init => IInv
<1> SUFFICES ASSUME Init PROVE IInv
  OBVIOUS
<1>1. TypeOK
  <2>0. log = <<>> /\ changes = 0 /\ faults = 0 /\ deltaLink = NoLink /\ upto = 0
    BY DEF Init
  <2>1. log \in Seq(Ids) /\ Len(log) = 0
    BY <2>0
  <2>2. changes \in 0..MaxChanges /\ faults \in 0..MaxFaults
    BY <2>0, BoundAssumption
  <2>3. deltaLink \in NoLink..Len(log) /\ upto \in 0..Len(log)
    BY <2>0, <2>1 DEF NoLink
  <2>4. dir \in [Ids -> Records] /\ latest \in [Ids -> Records \cup {""}]
    BY DEF Init, Records, Included
  <2>5. users \in [Ids -> Included \cup {"gone"}]
    BY DEF Init
  <2>6. result \in [Ids -> [record : Included \cup {"gone"}, groups : SUBSET Aliases]]
    BY DEF Init
  <2>7. QED
    BY <2>1, <2>2, <2>3, <2>4, <2>5, <2>6, MemberAssumption DEF Init, TypeOK
<1>2. /\ HistoryType /\ NoChangeLost /\ RoundCovers /\ RoundIsCurrent /\ MembersEnclosed
      /\ GroupsLast /\ ResultIsCurrent /\ GroupsComplete
  BY DEF Init, HistoryType, NoChangeLost, RoundCovers, RoundIsCurrent, MembersEnclosed,
         GroupsLast, ResultIsCurrent, GroupsComplete, Calling
<1>3. QED
  BY <1>1, <1>2 DEF IInv

LEMMA EntraStep == IInv /\ [Next]_vars => IInv'
BY TypesInductive, CursorInductive, CurrentInductive, MembershipsInductive
   DEF IInv, Cursor, Current, Memberships

\* The inductive invariant holds in every reachable state.
THEOREM EntraInvariant == Spec => []IInv
BY EntraInit, EntraStep, PTL DEF Spec

\* Every reachable state of the source and of the directory is well formed.
THEOREM EntraTypeCorrect == Spec => []TypeOK
BY EntraInvariant, PTL DEF IInv

\* No failure, no expired link and no change at any moment makes the cursor run
\* ahead of the cached users.
THEOREM CursorLosesNothing == Spec => []NoChangeLost
BY EntraInvariant, PTL DEF IInv

\* A call that succeeds returns of every user what the directory said in it.
THEOREM ResultsAreCurrent == Spec => []ResultIsCurrent
BY EntraInvariant, PTL DEF IInv

\* The group aliases of a returned user are complete and none is made up.
THEOREM AliasesAreComplete == Spec => []GroupsComplete
BY EntraInvariant, PTL DEF IInv
=============================================================================
