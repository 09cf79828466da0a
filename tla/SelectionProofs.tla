--------------------------- MODULE SelectionProofs ---------------------------
(***************************************************************************)
(* selectDevices selects the right device of every serial number, whatever *)
(* the sources list, in whatever order and however long the listings are.  *)
(***************************************************************************)
EXTENDS Selection, TLAPS

\* Device d is as good a choice as device e.
Before(d, e) == e.at < d.at \/ (e.at = d.at /\ d.key <= e.key)

Best(device, rows) == device \in rows /\ \A other \in rows : Before(device, other)

\* The rows of the source's listing looked at so far.
Seen(s) == {listing[source][n] : n \in {m \in 1..(row - 1) : listing[source][m].serial = s}}

\* The sources dealt with that list serial number s.
ListedBy(s) == {i \in 1..(source - 1) : RowsOf(i, s) # {}}

Shape ==
  /\ source \in 1..(Sources + 1)
  /\ \A i \in 1..Sources : Len(listing[i]) \in Nat /\ DOMAIN listing[i] = 1..Len(listing[i])
  /\ \A i \in 1..Sources : \A n \in DOMAIN listing[i] : listing[i][n] \in Rows
  /\ row \in Nat /\ row >= 1
  /\ source <= Sources => row <= Len(listing[source]) + 1
  /\ DOMAIN unique \subseteq Serials /\ DOMAIN selected \subseteq Serials

\* The loop over the rows keeps the best of those it has seen.
KeepsBest ==
  source <= Sources => \A s \in Serials :
    /\ s \in DOMAIN unique <=> Seen(s) # {}
    /\ s \in DOMAIN unique => Best(unique[s], Seen(s))

\* The loop over the sources has selected for what they list.
SelectsBest ==
  \A s \in Serials :
    /\ s \in DOMAIN selected <=> ListedBy(s) # {}
    /\ s \in DOMAIN selected =>
         /\ selected[s].source \in ListedBy(s)
         /\ \A i \in ListedBy(s) : selected[s].source <= i
         /\ Best(selected[s].device, RowsOf(selected[s].source, s))

IInv == Shape /\ KeepsBest /\ SelectsBest

-----------------------------------------------------------------------------
(* Of two devices the newer one is the better one, and better is an order. *)

LEMMA RowsCompare ==
  ASSUME NEW d \in Rows
  PROVE  d.at \in Int /\ d.key \in Int
BY OrderAssumption DEF Rows

LEMMA NewerIsBetter ==
  ASSUME NEW d \in Rows, NEW e \in Rows
  PROVE  IF NewerDevice(d, e) THEN Before(d, e) ELSE Before(e, d)
BY RowsCompare DEF NewerDevice, Before

LEMMA BetterIsTransitive ==
  ASSUME NEW d \in Rows, NEW e \in Rows, NEW f \in Rows, Before(d, e), Before(e, f)
  PROVE  Before(d, f)
BY RowsCompare DEF Before

LEMMA BetterIsReflexive ==
  ASSUME NEW d \in Rows
  PROVE  Before(d, d)
BY RowsCompare DEF Before

\* One more candidate: the better of the two is the best of all.
LEMMA BestOfMore ==
  ASSUME NEW rows \in SUBSET Rows, NEW best, Best(best, rows), NEW device \in Rows
  PROVE  Best(IF NewerDevice(device, best) THEN device ELSE best, rows \cup {device})
<1>1. best \in Rows
  BY DEF Best
<1>2. CASE NewerDevice(device, best)
  <2>1. Before(device, best)
    BY <1>1, <1>2, NewerIsBetter
  <2>2. \A other \in rows : Before(device, other)
    BY <1>1, <2>1, BetterIsTransitive DEF Best
  <2>3. QED
    BY <1>2, <2>2, BetterIsReflexive DEF Best
<1>3. CASE ~NewerDevice(device, best)
  BY <1>1, <1>3, NewerIsBetter DEF Best
<1>4. QED
  BY <1>2, <1>3

-----------------------------------------------------------------------------
(* The loops.                                                              *)

LEMMA LookAtRowKeepsInv ==
  ASSUME IInv, LookAtRow
  PROVE  IInv'
<1> DEFINE device == listing[source][row]
<1>1. /\ source \in 1..Sources /\ row \in 1..Len(listing[source]) /\ row' = row + 1
      /\ unique' = IF Kept(device) THEN Put(unique, device.serial, device) ELSE unique
      /\ UNCHANGED <<listing, source, selected>>
  BY SizeAssumption DEF IInv, Shape, LookAtRow
<1>2. device \in Rows /\ \A s \in Serials : Seen(s) \in SUBSET Rows
  BY <1>1 DEF IInv, Shape, Seen
<1>3. ASSUME NEW s \in Serials
      PROVE  Seen(s)' = IF device.serial = s THEN Seen(s) \cup {device} ELSE Seen(s)
  <2>1. 1..(row' - 1) = (1..(row - 1)) \cup {row}
    BY <1>1
  <2>2. QED
    BY <1>1, <2>1 DEF Seen
<1>4. DOMAIN unique' \subseteq Serials
  BY <1>1, <1>2 DEF IInv, Shape, Put, Kept, Rows
<1>5. Shape'
  BY <1>1, <1>4, SizeAssumption DEF IInv, Shape
<1>6. ASSUME NEW s \in Serials
      PROVE  /\ s \in DOMAIN unique' <=> Seen(s)' # {}
             /\ s \in DOMAIN unique' => Best(unique'[s], Seen(s)')
  <2>1. /\ s \in DOMAIN unique <=> Seen(s) # {}
        /\ s \in DOMAIN unique => Best(unique[s], Seen(s))
    BY <1>1, <1>6 DEF IInv, KeepsBest
  <2>2. CASE device.serial # s
    <3>1. /\ s \in DOMAIN unique' <=> s \in DOMAIN unique
          /\ s \in DOMAIN unique => unique'[s] = unique[s]
      BY <1>1, <2>2 DEF Put
    <3>2. QED
      BY <1>3, <2>1, <2>2, <3>1
  <2>3. CASE device.serial = s /\ s \notin DOMAIN unique
    <3>1. Kept(device)
      BY <2>3, <1>6, SerialAssumption DEF Kept
    <3>2. s \in DOMAIN unique' /\ unique'[s] = device
      BY <1>1, <2>3, <3>1 DEF Put
    <3>3. Seen(s)' = {device}
      BY <1>3, <2>1, <2>3
    <3>4. QED
      BY <1>2, <3>2, <3>3, BetterIsReflexive DEF Best
  <2>4. CASE device.serial = s /\ s \in DOMAIN unique
    <3>1. Kept(device) <=> NewerDevice(device, unique[s])
      BY <2>4, <1>6, SerialAssumption DEF Kept
    <3>2. s \in DOMAIN unique' /\ unique'[s] = IF NewerDevice(device, unique[s]) THEN device ELSE unique[s]
      BY <1>1, <2>4, <3>1 DEF Put
    <3>3. Seen(s)' = Seen(s) \cup {device}
      BY <1>3, <2>4
    <3>4. QED
      BY <1>2, <2>1, <2>4, <3>2, <3>3, BestOfMore
  <2>5. QED
    BY <2>2, <2>3, <2>4
<1>7. KeepsBest'
  BY <1>6 DEF KeepsBest
<1>8. SelectsBest'
  <2>1. /\ \A i, s : RowsOf(i, s)' = RowsOf(i, s)
        /\ \A s : ListedBy(s)' = ListedBy(s)
    BY <1>1 DEF RowsOf, ListedBy
  <2>2. QED
    BY <1>1, <2>1 DEF IInv, SelectsBest
<1>9. QED
  BY <1>5, <1>7, <1>8 DEF IInv

LEMMA EndSourceKeepsInv ==
  ASSUME IInv, EndSource
  PROVE  IInv'
<1>1. /\ source \in 1..Sources /\ row = Len(listing[source]) + 1 /\ listing' = listing
      /\ source' = source + 1 /\ row' = 1 /\ DOMAIN unique' = {}
  <2>1. /\ source <= Sources /\ row > Len(listing[source]) /\ listing' = listing
        /\ source' = source + 1 /\ row' = 1 /\ unique' = Empty
    BY DEF EndSource
  <2>2. source \in 1..Sources
    BY <2>1, SizeAssumption DEF IInv, Shape
  <2>3. Len(listing[source]) \in Nat /\ row \in Nat /\ row <= Len(listing[source]) + 1
    BY <2>1, <2>2 DEF IInv, Shape
  <2>4. QED
    BY <2>1, <2>2, <2>3 DEF Empty
<1>2. selected' = [s \in DOMAIN selected \cup DOMAIN Claimed |->
                     IF s \in DOMAIN Claimed THEN Claimed[s] ELSE selected[s]]
  BY DEF EndSource
<1>3. DOMAIN Claimed = DOMAIN unique \ DOMAIN selected
  BY DEF Claimed
<1>4. DOMAIN selected' \subseteq Serials
  BY <1>2, <1>3 DEF IInv, Shape
<1>5. Shape'
  <2>1. source' \in 1..(Sources + 1) /\ row' \in Nat /\ row' >= 1
    BY <1>1, SizeAssumption
  <2>2. source' <= Sources => row' <= Len(listing'[source']) + 1
    <3>1. \A i \in 1..Sources : Len(listing'[i]) \in Nat
      BY <1>1 DEF IInv, Shape
    <3>2. source' <= Sources => source' \in 1..Sources
      BY <2>1
    <3>3. QED
      BY <1>1, <3>1, <3>2
  <2>3. DOMAIN unique' \subseteq Serials
    BY <1>1
  <2>4. /\ \A i \in 1..Sources : Len(listing'[i]) \in Nat /\ DOMAIN listing'[i] = 1..Len(listing'[i])
        /\ \A i \in 1..Sources : \A n \in DOMAIN listing'[i] : listing'[i][n] \in Rows
    BY <1>1 DEF IInv, Shape
  <2>5. QED
    BY <1>4, <2>1, <2>2, <2>3, <2>4 DEF Shape
<1>6. KeepsBest'
  BY <1>1 DEF KeepsBest, Seen
<1>7. ASSUME NEW s \in Serials
      PROVE  /\ Seen(s) = RowsOf(source, s)
             /\ ListedBy(s)' = IF Seen(s) # {} THEN ListedBy(s) \cup {source} ELSE ListedBy(s)
  <2>1. 1..(row - 1) = DOMAIN listing[source]
    BY <1>1 DEF IInv, Shape
  <2>2. Seen(s) = RowsOf(source, s)
    BY <2>1 DEF Seen, RowsOf
  <2>3. 1..(source' - 1) = (1..(source - 1)) \cup {source}
    BY <1>1
  <2>4. \A i \in 1..source : RowsOf(i, s)' = RowsOf(i, s)
    BY <1>1 DEF RowsOf
  <2>5. ListedBy(s)' = {i \in 1..(source' - 1) : RowsOf(i, s) # {}}
    BY <1>1, <2>4 DEF ListedBy
  <2>6. QED
    BY <1>1, <2>2, <2>3, <2>5 DEF ListedBy
<1>8. ASSUME NEW s \in Serials
      PROVE  /\ s \in DOMAIN selected' <=> ListedBy(s)' # {}
             /\ s \in DOMAIN selected' =>
                  /\ selected'[s].source \in ListedBy(s)'
                  /\ \A i \in ListedBy(s)' : selected'[s].source <= i
                  /\ Best(selected'[s].device, RowsOf(selected'[s].source, s))
  <2>1. /\ s \in DOMAIN unique <=> Seen(s) # {}
        /\ s \in DOMAIN unique => Best(unique[s], Seen(s))
    BY <1>1, <1>8 DEF IInv, KeepsBest
  <2>2. /\ s \in DOMAIN selected <=> ListedBy(s) # {}
        /\ s \in DOMAIN selected =>
             /\ selected[s].source \in ListedBy(s)
             /\ \A i \in ListedBy(s) : selected[s].source <= i
             /\ Best(selected[s].device, RowsOf(selected[s].source, s))
    BY <1>8 DEF IInv, SelectsBest
  <2>3. \A i \in ListedBy(s) : i \in Int /\ i < source
    BY <1>1 DEF ListedBy
  <2>5. CASE s \in DOMAIN selected
    <3>1. s \in DOMAIN selected' /\ selected'[s] = selected[s]
      BY <1>2, <1>3, <2>5
    <3>2. selected[s].source <= source
      BY <1>1, <2>2, <2>3, <2>5
    <3>3. QED
      BY <1>1, <1>7, <2>2, <2>5, <3>1, <3>2
  <2>6. CASE s \notin DOMAIN selected /\ s \in DOMAIN unique
    <3>1. s \in DOMAIN selected' /\ selected'[s] = [source |-> source, device |-> unique[s]]
      BY <1>2, <1>3, <2>6 DEF Claimed
    <3>2. ListedBy(s)' = {source}
      BY <1>7, <2>1, <2>2, <2>6
    <3>3. QED
      BY <1>1, <1>7, <2>1, <2>6, <3>1, <3>2
  <2>7. CASE s \notin DOMAIN selected /\ s \notin DOMAIN unique
    <3>1. s \notin DOMAIN selected'
      BY <1>2, <1>3, <2>7
    <3>2. QED
      BY <1>7, <2>1, <2>2, <2>7, <3>1
  <2>8. QED
    BY <2>5, <2>6, <2>7
<1>9. SelectsBest'
  <2>1. \A s : RowsOf(selected[s].source, s)' = RowsOf(selected'[s].source, s)
    BY <1>1 DEF RowsOf
  <2>2. QED
    BY <1>8, <2>1 DEF SelectsBest
<1>10. QED
  BY <1>5, <1>6, <1>9 DEF IInv

LEMMA SelectionInit == Init => IInv
<1> SUFFICES ASSUME Init PROVE IInv
  OBVIOUS
<1>1. source = 1 /\ row = 1 /\ DOMAIN unique = {} /\ DOMAIN selected = {}
  BY DEF Init, Empty
<1>2. ASSUME NEW i \in 1..Sources
      PROVE  /\ Len(listing[i]) \in Nat /\ DOMAIN listing[i] = 1..Len(listing[i])
             /\ \A n \in DOMAIN listing[i] : listing[i][n] \in Rows
  <2>1. PICK n \in 0..MaxRows : listing[i] \in [1..n -> Rows]
    BY DEF Init
  <2>2. n \in Nat
    BY SizeAssumption
  <2>3. listing[i] \in Seq(Rows)
    BY <2>1, <2>2
  <2>4. QED
    BY <2>1, <2>3
<1>3. Shape
  BY <1>1, <1>2, SizeAssumption DEF Shape
<1>4. KeepsBest /\ SelectsBest
  BY <1>1 DEF KeepsBest, SelectsBest, Seen, ListedBy
<1>5. QED
  BY <1>3, <1>4 DEF IInv

LEMMA SelectionStep == IInv /\ [Next]_vars => IInv'
<1> SUFFICES ASSUME IInv, [Next]_vars PROVE IInv'
  OBVIOUS
<1>1. CASE LookAtRow
  BY <1>1, LookAtRowKeepsInv
<1>2. CASE EndSource
  BY <1>2, EndSourceKeepsInv
<1>3. CASE UNCHANGED vars
  <2>1. UNCHANGED <<listing, source, row, unique, selected>>
    BY <1>3 DEF vars
  <2>2. /\ \A s : Seen(s)' = Seen(s)
        /\ \A s : ListedBy(s)' = ListedBy(s)
        /\ \A i, s : RowsOf(i, s)' = RowsOf(i, s)
    BY <2>1 DEF Seen, ListedBy, RowsOf
  <2>3. KeepsBest' /\ SelectsBest'
    BY <2>1, <2>2 DEF IInv, KeepsBest, SelectsBest
  <2>4. Shape'
    BY <2>1 DEF IInv, Shape
  <2>5. QED
    BY <2>3, <2>4 DEF IInv
<1>4. QED
  BY <1>1, <1>2, <1>3 DEF Next, Done

LEMMA SelectedAtTheEnd == IInv => BestIsSelected
<1> SUFFICES ASSUME IInv, source > Sources, NEW s \in Serials
             PROVE  LET listedBy == {i \in 1..Sources : RowsOf(i, s) # {}} IN
                    /\ s \in DOMAIN selected <=> listedBy # {}
                    /\ s \in DOMAIN selected =>
                         LET chosen == selected[s] IN
                         /\ \A i \in listedBy : chosen.source <= i
                         /\ chosen.device \in RowsOf(chosen.source, s)
                         /\ \A other \in RowsOf(chosen.source, s) :
                              \/ other.at < chosen.device.at
                              \/ other.at = chosen.device.at /\ chosen.device.key <= other.key
  BY DEF BestIsSelected
<1>1. source - 1 = Sources
  BY SizeAssumption DEF IInv, Shape
<1>2. ListedBy(s) = {i \in 1..Sources : RowsOf(i, s) # {}}
  BY <1>1 DEF ListedBy
<1>3. QED
  BY <1>2 DEF IInv, SelectsBest, Best, Before

-----------------------------------------------------------------------------

\* For any number of sources, listings of any length and any order of the rows,
\* the selected device of a serial number is the best one of the first source
\* that lists it.
THEOREM BestDeviceIsSelected == Spec => []BestIsSelected
BY SelectionInit, SelectionStep, SelectedAtTheEnd, PTL DEF Spec
=============================================================================
