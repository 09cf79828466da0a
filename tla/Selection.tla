----------------------------- MODULE Selection -----------------------------
(***************************************************************************)
(* selectDevices of internal/planner/planner.go: from what all sources     *)
(* have listed, one device for every serial number.  A source may list a   *)
(* serial number more than once (a device enrolled again), in any order,   *)
(* and several sources may list it.                                        *)
(***************************************************************************)
EXTENDS Integers, Sequences

CONSTANTS Sources, \* how many device sources; 1 has the highest priority
          Serials, \* normalized serial numbers
          Times,   \* of LastContactAt
          Keys,    \* where a device's namespace and ID stand among all of them
          MaxRows  \* bound: rows of a listing

ASSUME SizeAssumption == Sources \in Nat /\ MaxRows \in Nat

Blank == ""
ASSUME SerialAssumption == Blank \notin Serials

ASSUME OrderAssumption == Times \subseteq Int /\ Keys \subseteq Int

Rows == [serial : Serials \cup {Blank}, at : Times, key : Keys]

VARIABLES listing,  \* source -> the rows it has listed
          source,   \* the source being looked at
          row,      \* the row being looked at
          unique,   \* serial number -> the device kept of this source
          selected  \* serial number -> [source, device]

vars == <<listing, source, row, unique, selected>>

Put(f, key, value) == [k \in DOMAIN f \cup {key} |-> IF k = key THEN value ELSE f[k]]
Empty == [s \in {} |-> Blank]

----------------------------------------------------------------------------
\* Fault: of two devices seen at the same time the later row wins.
NewerDevice_LastRow(candidate, current) == candidate.at >= current.at

NewerDevice(candidate, current) ==
  IF candidate.at # current.at THEN candidate.at > current.at
  ELSE candidate.key < current.key

Kept(device) ==
  /\ device.serial # Blank
  /\ device.serial \notin DOMAIN unique \/ NewerDevice(device, unique[device.serial])

LookAtRow ==
  /\ source <= Sources /\ row <= Len(listing[source])
  /\ LET device == listing[source][row]
     IN unique' = IF Kept(device) THEN Put(unique, device.serial, device) ELSE unique
  /\ row' = row + 1
  /\ UNCHANGED <<listing, source, selected>>

\* The devices of this source with a serial number nobody has claimed.
Claimed ==
  [s \in DOMAIN unique \ DOMAIN selected |-> [source |-> source, device |-> unique[s]]]

EndSource ==
  /\ source <= Sources /\ row > Len(listing[source])
  /\ selected' = [s \in DOMAIN selected \cup DOMAIN Claimed |->
                    IF s \in DOMAIN Claimed THEN Claimed[s] ELSE selected[s]]
  /\ source' = source + 1 /\ row' = 1 /\ unique' = Empty
  /\ UNCHANGED listing

Done == source > Sources /\ UNCHANGED vars

Init ==
  /\ listing \in [1..Sources -> UNION {[1..n -> Rows] : n \in 0..MaxRows}]
  /\ source = 1 /\ row = 1 /\ unique = Empty /\ selected = Empty

Next == LookAtRow \/ EndSource \/ Done

Spec == Init /\ [][Next]_vars

----------------------------------------------------------------------------
(* Properties.                                                             *)

RowsOf(i, s) == {listing[i][n] : n \in {m \in DOMAIN listing[i] : listing[i][m].serial = s}}

\* Every serial number that was listed is selected once, from the first source
\* that lists it, and there the device that had contact last or, of those, has
\* the least ID: whatever the order of the rows.
BestIsSelected ==
  source > Sources => \A s \in Serials :
    LET listedBy == {i \in 1..Sources : RowsOf(i, s) # {}} IN
    /\ s \in DOMAIN selected <=> listedBy # {}
    /\ s \in DOMAIN selected =>
         LET chosen == selected[s] IN
         /\ \A i \in listedBy : chosen.source <= i
         /\ chosen.device \in RowsOf(chosen.source, s)
         /\ \A other \in RowsOf(chosen.source, s) :
              \/ other.at < chosen.device.at
              \/ other.at = chosen.device.at /\ chosen.device.key <= other.key
=============================================================================
