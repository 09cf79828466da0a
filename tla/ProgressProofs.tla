--------------------------- MODULE ProgressProofs ---------------------------
(***************************************************************************)
(* The live region is always the end of the screen, and gone for good when *)
(* a report begins, for any stages, any height and any number of records.  *)
(***************************************************************************)
EXTENDS Progress, SequenceTheorems, WellFoundedInduction, TLAPS

\* The live region is the part of the screen that will be erased next.
LiveAtEnd(scr, n) ==
  /\ scr \in Seq(Lines) /\ n \in Nat /\ n <= Len(scr)
  /\ \A i \in 1..Len(scr) : scr[i] = "live" <=> i > Len(scr) - n

ScreenShape == LiveAtEnd(screen, shown)

\* A region is only worked on while there is one, and by a ticker only until the
\* ticker has been waited for.
RegionFollowsCommand ==
  /\ at \in {"plain", "update", "write", "stop", "wait"} => alive
  /\ at = "print" => ~alive
  /\ at = "plain" => rows = <<>>
  /\ at = "wait" => stopped
  /\ ~alive => ticker \in {"off", "exited"}

\* Once an end has begun there is no activity any more, and no region after the
\* report.
OverIsOver ==
  /\ at \in {"stop", "wait", "print"} => ~enabled
  /\ phase # "working" => ~alive /\ ~enabled

\* Nothing is live without a region, in a plain one, or in one that is stopped.
NothingLive == ~alive \/ at = "plain" \/ at = "wait" \/ plain => shown = 0

Control == RegionFollowsCommand /\ OverIsOver

IInv == ScreenShape /\ NothingLive /\ Control

-----------------------------------------------------------------------------
(* What the operations on the screen return.                               *)

LEMMA ErasedShape ==
  ASSUME ScreenShape
  PROVE  /\ Erased \in Seq(Lines) /\ Len(Erased) = Len(screen) - shown
         /\ \A i \in 1..Len(Erased) : Erased[i] # "live"
         /\ LiveAtEnd(Erased, 0)
<1>1. /\ screen \in Seq(Lines) /\ Len(screen) \in Nat /\ shown \in Nat /\ shown <= Len(screen)
      /\ \A i \in 1..Len(screen) : screen[i] = "live" <=> i > Len(screen) - shown
  BY DEF ScreenShape, LiveAtEnd
<1> DEFINE m == Len(screen) - shown
<1>2. m \in Nat /\ m <= Len(screen)
  BY <1>1
<1>3. /\ SubSeq(screen, 1, m) \in Seq(Lines) /\ Len(SubSeq(screen, 1, m)) = m
      /\ \A i \in 1..m : SubSeq(screen, 1, m)[i] = screen[i]
  BY <1>1, <1>2
<1>4. \A i \in 1..m : screen[i] # "live"
  BY <1>1, <1>2
<1>5. QED
  BY <1>2, <1>3, <1>4 DEF Erased, LiveAtEnd

\* Text is written at the end of a screen without live lines.
LEMMA AppendShape ==
  ASSUME NEW scr, LiveAtEnd(scr, 0), NEW line \in Lines \ {"live"}
  PROVE  LiveAtEnd(Append(scr, line), 0)
<1>1. scr \in Seq(Lines) /\ Len(scr) \in Nat /\ \A i \in 1..Len(scr) : scr[i] # "live"
  BY DEF LiveAtEnd
<1>2. /\ Append(scr, line) \in Seq(Lines) /\ Len(Append(scr, line)) = Len(scr) + 1
      /\ \A i \in 1..Len(scr) : Append(scr, line)[i] = scr[i]
      /\ Append(scr, line)[Len(scr) + 1] = line
  BY <1>1
<1>3. \A i \in 1..(Len(scr) + 1) : Append(scr, line)[i] # "live"
  BY <1>1, <1>2
<1>4. QED
  BY <1>1, <1>2, <1>3 DEF LiveAtEnd

\* The live lines are drawn below the rest.
LEMMA RepaintShape ==
  ASSUME NEW scr, LiveAtEnd(scr, 0), NEW n \in Nat
  PROVE  LiveAtEnd(scr \o [i \in 1..n |-> "live"], n)
<1> DEFINE live == [i \in 1..n |-> "live"]
<1>1. scr \in Seq(Lines) /\ Len(scr) \in Nat /\ \A i \in 1..Len(scr) : scr[i] # "live"
  BY DEF LiveAtEnd
<1>2. live \in Seq(Lines) /\ Len(live) = n /\ \A i \in 1..n : live[i] = "live"
  BY DEF Lines
<1> HIDE DEF live
<1>3. /\ scr \o live \in Seq(Lines) /\ Len(scr \o live) = Len(scr) + n
      /\ \A i \in 1..(Len(scr) + n) : (scr \o live)[i] = IF i <= Len(scr) THEN scr[i] ELSE live[i - Len(scr)]
  BY <1>1, <1>2, ConcatProperties
<1>4. \A i \in 1..(Len(scr) + n) : (scr \o live)[i] = "live" <=> i > Len(scr)
  BY <1>1, <1>2, <1>3
<1>5. QED
  BY <1>1, <1>3, <1>4 DEF LiveAtEnd, live

-----------------------------------------------------------------------------
(* Who works on the region, and when.                                      *)

LEMMA ControlInductive ==
  ASSUME Control, [Next]_vars
  PROVE  Control'
<1> USE DEF Control, RegionFollowsCommand, OverIsOver
<1>1. ASSUME NEW kind \in Jobs, NEW label \in Labels, Log(kind, label) PROVE Control'
  BY <1>1 DEF Log, output, region
<1>2. CASE Drop \/ WriteDirectly
  BY <1>2 DEF Drop, WriteDirectly, output, region
<1>3. CASE NewRegion
  BY <1>3 DEF NewRegion
<1>4. CASE Existing
  BY <1>4 DEF Existing, output, region
<1>5. CASE StartPlain
  BY <1>5 DEF StartPlain, Locked, output
<1>6. CASE Update
  <2>1. /\ at = "update" /\ at' = "idle"
        /\ UNCHANGED <<enabled, alive, phase, stopped, ticker>>
    BY <1>6 DEF Update, Locked, output
  <2>2. QED
    BY <2>1
<1>7. CASE WriteWarning
  BY <1>7 DEF WriteWarning, Locked, output
<1>8. CASE Lock
  BY <1>8 DEF Lock, output, command, region
<1>9. ASSUME NEW kind, EndProgress(kind) PROVE Control'
  BY <1>9 DEF EndProgress, Disabled, region
<1>10. CASE Stop
  BY <1>10 DEF Stop, Locked, output
<1>11. CASE Exited
  BY <1>11 DEF Exited, region
<1>12. CASE PrintReport \/ PrintError
  BY <1>12 DEF PrintReport, PrintError, output, region
<1>13. CASE Tick \/ TickerLocks \/ Quit
  BY <1>13 DEF Tick, TickerLocks, Quit, output, command, region
<1>14. CASE Draw
  <2>1. /\ ticker = "drawing" /\ UNCHANGED <<at, phase, enabled, alive, stopped>>
    BY <1>14 DEF Draw, output, command
  <2>2. alive
    BY <2>1
  <2>3. rows = <<>> => rows' = rows
    BY <1>14 DEF Draw, Repaint, Announce, TooEarly
  <2>4. QED
    BY <2>1, <2>2, <2>3
<1>15. CASE UNCHANGED vars
  BY <1>15 DEF vars, output, command, region
<1>16. QED
  BY <1>1, <1>2, <1>3, <1>4, <1>5, <1>6, <1>7, <1>8, <1>9, <1>10, <1>11, <1>12, <1>13, <1>14, <1>15
     DEF Next, Record, Handling, Ending, Over

-----------------------------------------------------------------------------
(* The screen.                                                             *)

Shape == ScreenShape /\ NothingLive

\* A step that leaves screen and region alone.
LEMMA QuietKeepsShape ==
  ASSUME Shape, UNCHANGED <<screen, shown>>,
         (~alive \/ at = "plain" \/ at = "wait" \/ plain)' => ~alive \/ at = "plain" \/ at = "wait" \/ plain
  PROVE  Shape'
BY DEF Shape, ScreenShape, NothingLive

\* A step that writes a line where nothing is live.
LEMMA WritingKeepsShape ==
  ASSUME Shape, ~alive \/ plain, shown' = shown, NEW line \in Lines \ {"live"},
         screen' = Append(screen, line)
  PROVE  Shape'
<1>1. shown = 0 /\ LiveAtEnd(screen, 0)
  BY DEF Shape, ScreenShape, NothingLive
<1>2. LiveAtEnd(screen', 0)
  BY <1>1, AppendShape
<1>3. QED
  BY <1>1, <1>2 DEF Shape, ScreenShape, NothingLive

LEMMA DrawKeepsShape ==
  ASSUME Shape, Control, Draw
  PROVE  Shape'
<1>1. /\ ticker = "drawing" /\ UNCHANGED <<at, alive, plain>>
      /\ \/ stopped /\ UNCHANGED <<screen, shown>>
         \/ ~stopped /\ (Repaint \/ Announce \/ TooEarly)
  BY DEF Draw, output, command
<1>2. alive
  BY <1>1 DEF Control, RegionFollowsCommand
<1>3. CASE UNCHANGED <<screen, shown>>
  BY <1>1, <1>3, QuietKeepsShape
<1>4. CASE ~stopped /\ Repaint
  <2>1. PICK n \in 0..Height : n <= Len(rows) /\ screen' = Erased \o [i \in 1..n |-> "live"] /\ shown' = n
    BY <1>4 DEF Repaint
  <2>2. n \in Nat /\ ~plain
    BY <1>4, <2>1 DEF Repaint
  <2>3. LiveAtEnd(screen', n)
    BY <2>1, <2>2, ErasedShape, RepaintShape DEF Shape
  <2>4. at = "plain" => n = 0
    BY <2>1, <2>2 DEF Control, RegionFollowsCommand
  <2>5. at # "wait"
    BY <1>4 DEF Control, RegionFollowsCommand
  <2>6. QED
    BY <1>1, <1>2, <2>1, <2>2, <2>3, <2>4, <2>5 DEF Shape, ScreenShape, NothingLive
<1>5. CASE ~stopped /\ Announce
  BY <1>5, WritingKeepsShape DEF Announce, Lines
<1>6. CASE ~stopped /\ TooEarly
  BY <1>3, <1>6 DEF TooEarly
<1>7. QED
  BY <1>1, <1>3, <1>4, <1>5, <1>6

LEMMA ShapeInductive ==
  ASSUME Shape, Control, [Next]_vars
  PROVE  Shape'
<1>1. CASE \/ \E kind \in Jobs, label \in Labels : Log(kind, label)
           \/ Drop \/ Existing \/ Lock \/ EndProgress("report") \/ EndProgress("finish")
           \/ Tick \/ TickerLocks \/ Quit \/ UNCHANGED vars
  <2>1. UNCHANGED <<screen, shown, alive, plain>> /\ (at' \in {"plain", "wait"} => at' = at)
    BY <1>1 DEF Log, Drop, Existing, Lock, EndProgress, Tick, TickerLocks, Quit, vars, output, command, region
  <2>2. QED
    BY <2>1, QuietKeepsShape
<1>2. CASE WriteDirectly
  BY <1>2, WritingKeepsShape DEF WriteDirectly, region, Lines
<1>3. CASE PrintReport
  <2>1. ~alive
    BY <1>3 DEF PrintReport, Control, RegionFollowsCommand
  <2>2. QED
    BY <1>3, <2>1, WritingKeepsShape DEF PrintReport, region, Lines
<1>4. CASE PrintError
  <2>1. ~alive /\ shown' = shown /\ screen' \in {screen, Append(screen, "error")}
    BY <1>4 DEF PrintError, region, Control, RegionFollowsCommand
  <2>2. QED
    BY <2>1, QuietKeepsShape, WritingKeepsShape DEF Lines
<1>5. CASE NewRegion
  BY <1>5 DEF NewRegion, Shape, ScreenShape, NothingLive
<1>6. CASE StartPlain
  BY <1>6 DEF StartPlain, Locked, Shape, ScreenShape, NothingLive
<1>7. CASE Update
  <2>1. UNCHANGED <<screen, shown, alive, plain>> /\ at' = "idle"
    BY <1>7 DEF Update, output
  <2>2. QED
    BY <2>1, QuietKeepsShape
<1>8. CASE WriteWarning
  <2>1. screen' = Append(Erased, "warning") /\ shown' = 0
    BY <1>8 DEF WriteWarning, Write
  <2>2. LiveAtEnd(screen', 0)
    BY <2>1, ErasedShape, AppendShape DEF Shape, Lines
  <2>3. QED
    BY <2>1, <2>2 DEF Shape, ScreenShape, NothingLive
<1>9. CASE Stop
  <2>1. screen' = Erased /\ shown' = 0
    BY <1>9 DEF Stop, Clear
  <2>2. QED
    BY <2>1, ErasedShape DEF Shape, ScreenShape, NothingLive
<1>10. CASE Exited
  BY <1>10 DEF Exited, region, Shape, ScreenShape, NothingLive
<1>11. CASE Draw
  BY <1>11, DrawKeepsShape
<1>12. QED
  BY <1>1, <1>2, <1>3, <1>4, <1>5, <1>6, <1>7, <1>8, <1>9, <1>10, <1>11
     DEF Next, Record, Handling, Ending, Over

-----------------------------------------------------------------------------
(* The theorem.                                                            *)

LEMMA ProgressInit == Init => IInv
<1> SUFFICES ASSUME Init PROVE IInv
  OBVIOUS
<1>1. screen = <<>> /\ shown = 0
  BY DEF Init
<1>2. ScreenShape /\ NothingLive
  BY <1>1 DEF ScreenShape, LiveAtEnd, NothingLive
<1>3. Control
  BY DEF Init, Control, RegionFollowsCommand, OverIsOver
<1>4. QED
  BY <1>2, <1>3 DEF IInv

LEMMA ProgressStep == IInv /\ [Next]_vars => IInv'
BY ControlInductive, ShapeInductive DEF IInv, Shape

LEMMA LiveLast == IInv => LiveRegionLast
<1> SUFFICES ASSUME IInv PROVE LiveRegionLast
  OBVIOUS
<1>1. DOMAIN screen = 1..Len(screen)
  BY DEF IInv, ScreenShape, LiveAtEnd
<1>2. \A i \in DOMAIN screen : screen[i] = "live" <=> i > Len(screen) - shown
  BY <1>1 DEF IInv, ScreenShape, LiveAtEnd
<1>3. phase # "working" => shown = 0
  BY DEF IInv, NothingLive, Control, OverIsOver
<1>4. QED
  BY <1>2, <1>3 DEF LiveRegionLast

\* Whatever the order of records, ticks, the report and the end: erasing takes
\* the live lines and nothing else, and nothing is repainted under a report.
THEOREM RegionIsLast == Spec => []LiveRegionLast
BY ProgressInit, ProgressStep, LiveLast, PTL DEF Spec

-----------------------------------------------------------------------------
(* Nothing else is erased.                                                 *)

\* What is not live is what is left when the live lines are erased.
LEMMA ErasingKeeps ==
  ASSUME ScreenShape
  PROVE  \A i \in DOMAIN screen : screen[i] # "live" =>
           i \in 1..Len(Erased) /\ Erased[i] = screen[i]
<1>1. /\ screen \in Seq(Lines) /\ Len(screen) \in Nat /\ shown \in Nat /\ shown <= Len(screen)
      /\ \A i \in 1..Len(screen) : screen[i] = "live" <=> i > Len(screen) - shown
  BY DEF ScreenShape, LiveAtEnd
<1>2. /\ Len(Erased) = Len(screen) - shown
      /\ \A i \in 1..(Len(screen) - shown) : Erased[i] = screen[i]
  BY <1>1 DEF Erased
<1>3. QED
  BY <1>1, <1>2

\* Whoever writes on the terminal, and whenever: a step leaves the screen alone,
\* or writes below all of it, or below what is left when it has been erased.
LEMMA StepsOfTheScreen ==
  ASSUME IInv, [Next]_vars
  PROVE  \/ screen' = screen
         \/ \E line \in Lines : screen' = Append(screen, line) \/ screen' = Append(Erased, line)
         \/ screen' = Erased
         \/ \E n \in Nat : screen' = Erased \o [i \in 1..n |-> "live"]
<1>1. CASE \/ \E kind \in Jobs, label \in Labels : Log(kind, label)
           \/ Drop \/ NewRegion \/ Existing \/ Lock \/ EndProgress("report") \/ EndProgress("finish")
           \/ StartPlain \/ Update \/ Exited \/ Tick \/ TickerLocks \/ Quit \/ UNCHANGED vars
  BY <1>1 DEF Log, Drop, NewRegion, Existing, Lock, EndProgress, StartPlain, Update, Exited,
              Tick, TickerLocks, Quit, vars
<1>2. CASE WriteDirectly \/ PrintReport \/ PrintError
  BY <1>2 DEF WriteDirectly, PrintReport, PrintError, Lines
<1>3. CASE WriteWarning
  BY <1>3 DEF WriteWarning, Write, Lines
<1>4. CASE Stop
  BY <1>4 DEF Stop, Clear
<1>5. CASE Draw
  <2>1. screen' = screen \/ Repaint \/ Announce
    BY <1>5 DEF Draw, TooEarly
  <2>2. CASE Repaint
    <3>1. PICK n \in 0..Height : screen' = Erased \o [i \in 1..n |-> "live"]
      BY <2>2 DEF Repaint
    <3>2. n \in Nat
      BY <3>1
    <3>3. QED
      BY <3>1, <3>2
  <2>3. CASE Announce
    BY <2>3 DEF Announce, Lines
  <2>4. QED
    BY <2>1, <2>2, <2>3
<1>6. QED
  BY <1>1, <1>2, <1>3, <1>4, <1>5 DEF Next, Record, Handling, Ending, Over

Kept == \A i \in DOMAIN screen : screen[i] # "live" =>
          i \in DOMAIN screen' /\ screen'[i] = screen[i]

LEMMA StepKeeps ==
  ASSUME IInv, [Next]_vars
  PROVE  Kept
<1>1. /\ screen \in Seq(Lines) /\ Erased \in Seq(Lines)
      /\ Len(screen) \in Nat /\ Len(Erased) \in Nat /\ DOMAIN screen = 1..Len(screen)
  BY ErasedShape DEF IInv, ScreenShape, LiveAtEnd
<1>2. \A i \in DOMAIN screen : screen[i] # "live" =>
        i \in 1..Len(Erased) /\ Erased[i] = screen[i]
  BY ErasingKeeps DEF IInv
<1>3. CASE screen' = screen
  BY <1>3 DEF Kept
<1>4. ASSUME NEW line \in Lines, screen' = Append(screen, line) PROVE Kept
  BY <1>1, <1>4 DEF Kept
<1> HIDE DEF Erased
<1>5. ASSUME NEW line \in Lines, screen' = Append(Erased, line) PROVE Kept
  <2>1. \A i \in 1..Len(Erased) : i \in DOMAIN screen' /\ screen'[i] = Erased[i]
    BY <1>1, <1>5
  <2>2. QED
    BY <1>2, <2>1 DEF Kept
<1>6. CASE screen' = Erased
  BY <1>1, <1>2, <1>6 DEF Kept
<1>7. ASSUME NEW n \in Nat, screen' = Erased \o [i \in 1..n |-> "live"] PROVE Kept
  <2> DEFINE live == [i \in 1..n |-> "live"]
  <2>1. live \in Seq(Lines) /\ Len(live) = n
    BY DEF Lines
  <2> HIDE DEF live
  <2>2. /\ screen' \in Seq(Lines) /\ Len(screen') = Len(Erased) + n
        /\ \A i \in 1..(Len(Erased) + n) :
             screen'[i] = IF i <= Len(Erased) THEN Erased[i] ELSE live[i - Len(Erased)]
    BY <1>1, <1>7, <2>1, ConcatProperties DEF live
  <2>3. \A i \in 1..Len(Erased) : i \in DOMAIN screen' /\ screen'[i] = Erased[i]
    BY <1>1, <2>2
  <2>4. QED
    BY <1>2, <2>3 DEF Kept
<1>8. QED
  BY <1>3, <1>4, <1>5, <1>6, <1>7, StepsOfTheScreen

\* What a warning, a milestone, the report or the error has written stays where
\* it is, whatever is drawn and erased below.
THEOREM PersistentTextStays == Spec => NothingErased
<1>1. IInv /\ [Next]_vars => [Kept]_screen
  BY StepKeeps
<1>2. QED
  BY ProgressInit, ProgressStep, <1>1, PTL DEF Spec, NothingErased, Kept

-----------------------------------------------------------------------------
(* Types.                                                                  *)

Row == [label : Labels, announced : BOOLEAN]

Flags ==
  /\ terminal \in BOOLEAN /\ ci \in BOOLEAN /\ enabled \in BOOLEAN /\ interactive \in BOOLEAN
  /\ alive \in BOOLEAN /\ plain \in BOOLEAN /\ stopped \in BOOLEAN /\ quit \in BOOLEAN

\* The label of a record is needed until its stage is in the region.
CommandTypes ==
  /\ at \in {"idle", "handle", "plain", "update", "write", "stop", "wait", "print"}
  /\ job[1] \in Jobs /\ (at \in {"handle", "plain", "update"} => job[2] \in Labels)
  /\ records \in 0..MaxRecords /\ phase \in {"working", "reported", "ended"}

\* The lock is the ticker's while it draws and at no other time.
Holders ==
  /\ mu \in {"free", "command", "ticker"} /\ (mu = "ticker" <=> ticker = "drawing")
  /\ ticker \in {"off", "select", "ticked", "drawing", "exited"}

RegionTypes == rows \in Seq(Row) /\ shown \in 0..Height

TInv == Flags /\ CommandTypes /\ Holders /\ RegionTypes

LEMMA RemovingARow ==
  ASSUME NEW r \in Seq(Row), NEW i \in 1..Len(r)
  PROVE  RemoveAt(r, i) \in Seq(Row)
<1>1. Len(r) \in Nat /\ i \in Nat /\ \A k \in 1..Len(r) : r[k] \in Row
  OBVIOUS
<1>2. SubSeq(r, 1, i - 1) \in Seq(Row)
  BY <1>1, SubSeqProperties
<1>3. SubSeq(r, i + 1, Len(r)) \in Seq(Row)
  BY <1>1, SubSeqProperties
<1>4. QED
  BY <1>2, <1>3, ConcatProperties DEF RemoveAt

LEMMA UpdateKeepsRows ==
  ASSUME TInv, Update
  PROVE  rows' \in Seq(Row)
<1>1. rows \in Seq(Row) /\ job[2] \in Labels
  BY DEF TInv, RegionTypes, CommandTypes, Update, Locked
<1>2. CASE job[1] = "stage"
  <2>1. [label |-> job[2], announced |-> FALSE] \in Row
    BY <1>1 DEF Row
  <2>2. rows' = Append(rows, [label |-> job[2], announced |-> FALSE])
    BY <1>2 DEF Update
  <2>3. QED
    BY <1>1, <2>1, <2>2
<1>3. CASE job[1] # "stage"
  <2> DEFINE found == {i \in 1..Len(rows) : rows[i].label = job[2]}
             first == IF found # {} THEN Min(found) ELSE 0
  <2>1. rows' = IF first = 0 THEN rows ELSE RemoveAt(rows, first)
    BY <1>3 DEF Update, SelectInSeq
  <2>2. found # {} => first \in found
    <3> SUFFICES ASSUME found # {} PROVE Min(found) \in found
      OBVIOUS
    <3>1. found \subseteq Nat
      BY <1>1
    <3>2. \E m \in found : \A k \in found : m <= k
      <4> DEFINE Less == {ss \in Nat \X Nat : ss[1] < ss[2]}
      <4>1. IsWellFoundedOn(Less, Nat)
        BY NatLessThanWellFounded DEF OpToRel
      <4>2. PICK m \in found : \A k \in found : <<k, m>> \notin Less
        <5> HIDE DEF Less, found
        <5> QED
          BY <3>1, <4>1, WFMin
      <4>3. ASSUME NEW k \in found, k < m PROVE FALSE
        <5>1. k \in Nat /\ m \in Nat
          BY <3>1, <4>2
        <5>2. <<k, m>> \in Nat \X Nat /\ <<k, m>>[1] = k /\ <<k, m>>[2] = m
          BY <5>1
        <5>3. <<k, m>> \in Less
          BY <4>3, <5>2
        <5>4. QED
          BY <4>2, <5>3
      <4>4. \A k \in found : m <= k
        BY <3>1, <4>2, <4>3
      <4>5. QED
        BY <4>2, <4>4
    <3>3. QED
      BY <3>2 DEF Min
  <2>3. first # 0 => first \in 1..Len(rows)
    BY <2>2
  <2> HIDE DEF first
  <2>4. QED
    BY <1>1, <2>1, <2>3, RemovingARow
<1>4. QED
  BY <1>2, <1>3

LEMMA DrawKeepsTypes ==
  ASSUME TInv, Shape, Control, Draw
  PROVE  TInv'
<1>1. /\ UNCHANGED <<terminal, ci, enabled, interactive, alive, at, job, records, phase, plain, stopped, quit>>
      /\ mu' = "free" /\ ticker' = "select"
  BY DEF Draw, options, output, command
<1>2. Flags' /\ CommandTypes' /\ Holders'
  BY <1>1 DEF TInv, Flags, CommandTypes, Holders
<1>3. RegionTypes'
  <2>1. CASE UNCHANGED <<rows, shown>>
    BY <2>1 DEF TInv, RegionTypes
  <2>2. CASE Repaint
    BY <2>2 DEF Repaint, TInv, RegionTypes
  <2>3. CASE Announce
    <3>1. shown' = shown /\ rows \in Seq(Row) /\ rows # <<>> /\ Len(rows) \in 1..Len(rows)
      BY <2>3 DEF Announce, TInv, RegionTypes
    <3>2. rows[Len(rows)] \in Row
      BY <3>1
    <3>3. [rows[Len(rows)] EXCEPT !.announced = TRUE] \in Row
      BY <3>2 DEF Row
    <3>4. rows' = [rows EXCEPT ![Len(rows)] = [rows[Len(rows)] EXCEPT !.announced = TRUE]]
      BY <2>3, <3>1 DEF Announce
    <3>5. rows' \in Seq(Row)
      BY <3>1, <3>3, <3>4
    <3>6. QED
      BY <3>1, <3>5 DEF TInv, RegionTypes
  <2>4. QED
    BY <2>1, <2>2, <2>3 DEF Draw, TooEarly
<1>4. QED
  BY <1>2, <1>3 DEF TInv

LEMMA TypesInductive ==
  ASSUME TInv, Shape, Control, [Next]_vars
  PROVE  TInv'
<1> USE DEF TInv, Flags, CommandTypes, Holders, RegionTypes
<1>1. ASSUME NEW kind \in Jobs, NEW label \in Labels, Log(kind, label) PROVE TInv'
  <2>1. /\ job' = <<kind, label>> /\ at' = "handle" /\ records' = records + 1 /\ records < MaxRecords
        /\ UNCHANGED <<terminal, ci, enabled, interactive, alive, plain, stopped, quit, phase, mu, ticker, rows, shown>>
    BY <1>1 DEF Log, options, output, region
  <2>2. job'[1] \in Jobs /\ job'[2] \in Labels
    BY <2>1
  <2>3. records' \in 0..MaxRecords
    BY <2>1, BoundAssumption
  <2>4. Flags'
    BY <2>1
  <2>5. CommandTypes'
    BY <2>1, <2>2, <2>3
  <2>6. Holders' /\ RegionTypes'
    BY <2>1
  <2>7. QED
    BY <2>4, <2>5, <2>6
<1>2. CASE Drop \/ WriteDirectly
  BY <1>2 DEF Drop, WriteDirectly, options, output, region
<1>3. CASE NewRegion
  <2>1. ticker \in {"off", "exited"}
    BY <1>3 DEF NewRegion, Control, RegionFollowsCommand
  <2>2. rows' \in Seq(Row) /\ shown' \in 0..Height
    BY <1>3, BoundAssumption DEF NewRegion
  <2>3. QED
    BY <1>3, <2>1, <2>2 DEF NewRegion, options
<1>4. CASE Existing
  BY <1>4 DEF Existing, options, output, region
<1>5. CASE StartPlain
  BY <1>5 DEF StartPlain, Locked, options, output
<1>6. CASE Update
  <2>1. rows' \in Seq(Row)
    BY <1>6, UpdateKeepsRows
  <2>2. /\ UNCHANGED <<terminal, ci, enabled, interactive, alive, job, records, phase, shown, plain, stopped, quit, ticker>>
        /\ mu = "command" /\ mu' = "free" /\ at' = "idle"
    BY <1>6 DEF Update, Locked, options, output
  <2>3. QED
    BY <2>1, <2>2
<1>7. CASE WriteWarning
  BY <1>7, BoundAssumption DEF WriteWarning, Write, Locked, options, output
<1>8. CASE Lock
  BY <1>8 DEF Lock, options, output, command, region
<1>9. ASSUME NEW kind \in {"report", "finish"}, EndProgress(kind) PROVE TInv'
  <2>1. /\ enabled' = FALSE /\ interactive' = FALSE /\ job' = <<kind, "">> /\ at' \in {"stop", "print"}
        /\ UNCHANGED <<terminal, ci, alive, plain, stopped, quit, records, phase, mu, ticker, rows, shown>>
    BY <1>9 DEF EndProgress, Disabled, options, region
  <2>2. job'[1] \in Jobs
    BY <2>1 DEF Jobs
  <2>3. Flags'
    BY <2>1
  <2>4. CommandTypes'
    BY <2>1, <2>2
  <2>5. Holders' /\ RegionTypes'
    BY <2>1
  <2>6. QED
    BY <2>3, <2>4, <2>5
<1>10. CASE Stop
  <2>1. /\ stopped' = TRUE /\ quit' \in BOOLEAN /\ rows' = <<>> /\ shown' = 0
        /\ mu = "command" /\ mu' = "free" /\ at' = "wait"
        /\ UNCHANGED <<terminal, ci, enabled, interactive, alive, plain, job, records, phase, ticker>>
    BY <1>10 DEF Stop, Clear, CloseQuit, Locked, options, output
  <2>2. Flags'
    BY <2>1
  <2>3. CommandTypes' /\ Holders'
    BY <2>1
  <2>4. RegionTypes'
    BY <2>1, BoundAssumption
  <2>5. QED
    BY <2>2, <2>3, <2>4
<1>11. CASE Exited
  BY <1>11, ZenonT(40) DEF Exited, options, region
<1>12. CASE PrintReport \/ PrintError
  BY <1>12 DEF PrintReport, PrintError, options, output, region
<1>13. CASE Tick \/ TickerLocks \/ Quit
  BY <1>13 DEF Tick, TickerLocks, Quit, options, output, command, region
<1>14. CASE Draw
  BY <1>14, DrawKeepsTypes
<1>15. CASE UNCHANGED vars
  BY <1>15 DEF vars, options, output, command, region
<1>16. QED
  BY <1>1, <1>2, <1>3, <1>4, <1>5, <1>6, <1>7, <1>8, <1>9, <1>10, <1>11, <1>12, <1>13, <1>14, <1>15
     DEF Next, Record, Handling, Ending, Over

LEMMA InitTypes == Init => TInv
<1> SUFFICES ASSUME Init PROVE TInv
  OBVIOUS
<1>1. Flags /\ Holders
  BY DEF Init, Flags, Holders
<1>2. at = "idle" /\ job = <<"stage", "">> /\ records = 0 /\ phase = "working" /\ rows = <<>> /\ shown = 0
  BY DEF Init
<1>3. CommandTypes
  <2>1. 0 \in 0..MaxRecords
    BY BoundAssumption
  <2>2. job[1] = "stage"
    BY <1>2
  <2>3. QED
    BY <1>2, <2>1, <2>2 DEF CommandTypes, Jobs
<1>4. RegionTypes
  <2>1. 0 \in 0..Height /\ <<>> \in Seq(Row)
    BY BoundAssumption
  <2>2. QED
    BY <1>2, <2>1 DEF RegionTypes
<1>5. QED
  BY <1>1, <1>3, <1>4 DEF TInv

LEMMA TypesHold == IInv /\ TInv => TypeOK
<1> SUFFICES ASSUME IInv, TInv PROVE TypeOK
  OBVIOUS
<1>1. {terminal, ci, enabled, interactive, alive, plain, stopped, quit} \subseteq BOOLEAN
  BY DEF TInv, Flags
<1>2. \A i \in DOMAIN rows : rows[i].label \in Labels
  <2>1. rows \in Seq(Row)
    BY DEF TInv, RegionTypes
  <2>2. \A i \in DOMAIN rows : rows[i] \in Row
    BY <2>1
  <2>3. QED
    BY <2>2 DEF Row
<1>3. \A i \in DOMAIN screen : screen[i] \in Lines
  BY DEF IInv, ScreenShape, LiveAtEnd
<1>4. shown \in 0..Height /\ (plain => shown = 0)
  BY DEF TInv, RegionTypes, IInv, NothingLive
<1>5. QED
  BY <1>1, <1>2, <1>3, <1>4 DEF TypeOK, TInv, CommandTypes, Holders

\* The region, its lock, its ticker and the screen are always well formed: never
\* more live lines than fit, none in a plain region, only the ticker draws.
THEOREM ProgressTypes == Spec => []TypeOK
<1>1. (IInv /\ TInv) /\ [Next]_vars => (IInv /\ TInv)'
  BY ProgressStep, TypesInductive DEF IInv, Shape
<1>2. QED
  BY <1>1, ProgressInit, InitTypes, TypesHold, PTL DEF Spec
=============================================================================
