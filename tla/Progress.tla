------------------------------ MODULE Progress ------------------------------
(***************************************************************************)
(* What a finite command shows on the terminal while it works: the live    *)
(* region of terminalProgress (cmd/snipe-sync/progress.go), repainted by a *)
(* ticker goroutine, and the warnings, the report and the error that       *)
(* commandOutput and reportWriter (diagnostics.go) write over it.          *)
(*                                                                         *)
(* Two goroutines share the region under the mutex p.mu: the command's own *)
(* and the ticker.  commandOutput.mu is not a variable: the goroutines     *)
(* that read providers only log below the level that is shown, and have    *)
(* ended when the report is written, so nobody contends for it then.       *)
(* stdout and stderr are one terminal, the harder case.                    *)
(***************************************************************************)
EXTENDS Integers, SequencesExt

CONSTANTS Labels,     \* names of stages
          Height,     \* lines the live region may have
          MaxRecords  \* bound: log records of the command

ASSUME BoundAssumption == Height \in Nat /\ MaxRecords \in Nat

Lines == {"live", "milestone", "warning", "report", "error"}
Jobs  == {"stage", "result", "warning", "report", "finish"}

VARIABLES
  terminal, ci, \* stderr is a terminal; CI is set
  enabled,      \* commandOutput.activityEnabled
  interactive,  \* commandOutput.interactive
  alive,        \* commandOutput.progress # nil
  at,           \* where the command's goroutine is
  job,          \* what it has been called to do there, and the label
  records,      \* how many records it has logged
  phase,        \* "working", "reported" or "ended"
  mu,           \* who holds p.mu
  rows,         \* p.rows: the unfinished stages
  shown,        \* p.shown
  plain,        \* p.plain
  stopped,      \* p.stopped
  quit,         \* p.quit is closed
  ticker,       \* the ticker goroutine
  screen        \* the terminal: its lines from the top, live ones last

options == <<terminal, ci>>
output  == <<enabled, interactive, alive>>
command == <<at, job, records, phase>>
region  == <<rows, shown, plain, stopped, quit>>
vars == <<options, output, command, mu, region, ticker, screen>>

----------------------------------------------------------------------------
(* The region.                                                             *)

\* Erasing goes up over the lines drawn last and clears to the end.
Erased == SubSeq(screen, 1, Len(screen) - shown)

\* Fault: text is written below the live lines.
Write_OverLive(line) == screen' = Append(screen, line) /\ UNCHANGED shown

\* Persistent text replaces the live lines; the next tick draws them again.
Write(line) == screen' = Append(Erased, line) /\ shown' = 0

\* A tick in a terminal: the stages that have gone on for a while, which are
\* the first ones, as far as they fit.
Repaint ==
  /\ ~plain
  /\ \E n \in 0..Height :
       /\ n <= Len(rows)
       /\ screen' = Erased \o [i \in 1..n |-> "live"] /\ shown' = n
  /\ UNCHANGED rows

\* A tick elsewhere: the newest stage is announced when it has gone on for long.
\* It is announced again after 30 seconds, which is left out.
Announce ==
  /\ plain /\ rows # <<>> /\ ~Last(rows).announced
  /\ screen' = Append(screen, "milestone")
  /\ rows' = [rows EXCEPT ![Len(rows)].announced = TRUE]
  /\ UNCHANGED shown

TooEarly == plain /\ UNCHANGED <<screen, rows, shown>>

----------------------------------------------------------------------------
(* The ticker goroutine, run.                                              *)

Tick ==
  /\ ticker = "select"
  /\ ticker' = "ticked"
  /\ UNCHANGED <<options, output, command, mu, region, screen>>

TickerLocks ==
  /\ ticker = "ticked" /\ mu = "free"
  /\ mu' = "ticker" /\ ticker' = "drawing"
  /\ UNCHANGED <<options, output, command, region, screen>>

Draw ==
  /\ ticker = "drawing"
  /\ IF stopped THEN UNCHANGED <<screen, rows, shown>> ELSE Repaint \/ Announce \/ TooEarly
  /\ mu' = "free" /\ ticker' = "select"
  /\ UNCHANGED <<options, output, command, plain, stopped, quit>>

\* With a tick and the closed channel both ready, select takes either.
Quit ==
  /\ ticker = "select" /\ quit
  /\ ticker' = "exited"
  /\ UNCHANGED <<options, output, command, mu, region, screen>>

----------------------------------------------------------------------------
(* The command: log records.                                               *)

\* A stage begins or ends, or there is a warning; also after the report, when
\* it must have no effect on the region.
Log(kind, label) ==
  /\ at = "idle" /\ phase # "ended" /\ records < MaxRecords
  /\ kind \in {"stage", "result", "warning"}
  /\ records' = records + 1
  /\ job' = <<kind, label>> /\ at' = "handle"
  /\ UNCHANGED <<options, output, phase, mu, region, ticker, screen>>

\* Handle drops activity unless it is wanted.
Drop ==
  /\ at = "handle" /\ job[1] # "warning" /\ ~enabled
  /\ at' = "idle"
  /\ UNCHANGED <<options, output, job, records, phase, mu, region, ticker, screen>>

\* The first activity creates the region; in a terminal with its ticker.
NewRegion ==
  /\ at = "handle" /\ job[1] # "warning" /\ enabled /\ ~alive
  /\ alive' = TRUE
  /\ rows' = <<>> /\ shown' = 0 /\ plain' = FALSE /\ stopped' = FALSE /\ quit' = FALSE
  /\ ticker' = IF terminal THEN "select" ELSE "off"
  /\ at' = IF interactive THEN "update" ELSE "plain"
  /\ UNCHANGED <<options, enabled, interactive, job, records, phase, mu, screen>>

Existing ==
  /\ at = "handle" /\ alive
  /\ job[1] # "warning" => enabled
  /\ at' = IF job[1] = "warning" THEN "write" ELSE "update"
  /\ UNCHANGED <<options, output, job, records, phase, mu, region, ticker, screen>>

\* A warning when there is no region.
WriteDirectly ==
  /\ at = "handle" /\ job[1] = "warning" /\ ~alive
  /\ screen' = Append(screen, "warning")
  /\ at' = "idle"
  /\ UNCHANGED <<options, output, job, records, phase, mu, region, ticker>>

\* Fault: the lock is not taken.
Lock_Unchecked ==
  /\ at \in {"plain", "update", "write", "stop"} /\ mu # "command"
  /\ mu' = "command"
  /\ UNCHANGED <<options, output, command, region, ticker, screen>>

\* The methods of the region that lock p.mu.
Lock ==
  /\ at \in {"plain", "update", "write", "stop"} /\ mu = "free"
  /\ mu' = "command"
  /\ UNCHANGED <<options, output, command, region, ticker, screen>>

Locked(place) == at = place /\ mu = "command"

StartPlain ==
  /\ Locked("plain")
  /\ plain' = TRUE
  /\ ticker' = IF ticker = "off" THEN "select" ELSE ticker
  /\ mu' = "free" /\ at' = "update"
  /\ UNCHANGED <<options, output, job, records, phase, rows, shown, stopped, quit, screen>>

\* A stage is added at the end, and removed again with its result.
Update ==
  /\ Locked("update")
  /\ rows' = IF job[1] = "stage"
             THEN Append(rows, [label |-> job[2], announced |-> FALSE])
             ELSE LET first == SelectInSeq(rows, LAMBDA row : row.label = job[2])
                  IN IF first = 0 THEN rows ELSE RemoveAt(rows, first)
  /\ mu' = "free" /\ at' = "idle"
  /\ UNCHANGED <<options, output, job, records, phase, shown, plain, stopped, quit, ticker, screen>>

WriteWarning ==
  /\ Locked("write")
  /\ Write("warning")
  /\ mu' = "free" /\ at' = "idle"
  /\ UNCHANGED <<options, output, job, records, phase, rows, plain, stopped, quit, ticker>>

----------------------------------------------------------------------------
(* The command: the report and the end.                                    *)

\* Fault: later records may open a new region.
Disabled_Never == UNCHANGED <<enabled, interactive>>

Disabled == enabled' = FALSE /\ interactive' = FALSE

\* The report is written, or the command ends: both begin with endProgress.
EndProgress(kind) ==
  /\ at = "idle"
  /\ phase \in IF kind = "report" THEN {"working"} ELSE {"working", "reported"}
  /\ Disabled
  /\ job' = <<kind, "">> /\ at' = IF alive THEN "stop" ELSE "print"
  /\ UNCHANGED <<options, alive, records, phase, mu, region, ticker, screen>>

Clear == screen' = Erased /\ shown' = 0

\* Fault: the channel is closed only if newTerminalProgress has made it.
CloseQuit_TerminalOnly == quit' = terminal

CloseQuit == quit' = (ticker # "off")

Stop ==
  /\ Locked("stop")
  /\ stopped' = TRUE /\ Clear /\ rows' = <<>>
  /\ CloseQuit
  /\ mu' = "free" /\ at' = "wait"
  /\ UNCHANGED <<options, output, job, records, phase, plain, ticker>>

\* The ticker has closed the channel exited, or there never was one.
Exited ==
  /\ at = "wait" /\ ticker \in {"off", "exited"}
  /\ alive' = FALSE /\ at' = "print"
  /\ UNCHANGED <<options, enabled, interactive, job, records, phase, mu, region, ticker, screen>>

PrintReport ==
  /\ at = "print" /\ job[1] = "report"
  /\ screen' = Append(screen, "report")
  /\ phase' = "reported" /\ at' = "idle"
  /\ UNCHANGED <<options, output, job, records, mu, region, ticker>>

\* The error of the command, if it has one.
PrintError ==
  /\ at = "print" /\ job[1] = "finish"
  /\ screen' \in {screen, Append(screen, "error")}
  /\ phase' = "ended" /\ at' = "idle"
  /\ UNCHANGED <<options, output, job, records, mu, region, ticker>>

----------------------------------------------------------------------------
\* enabled is false with --json and --no-progress.
Init ==
  /\ terminal \in BOOLEAN /\ ci \in BOOLEAN
  /\ enabled \in BOOLEAN /\ interactive = (enabled /\ terminal /\ ~ci) /\ alive = FALSE
  /\ at = "idle" /\ job = <<"stage", "">> /\ records = 0 /\ phase = "working"
  /\ mu = "free" /\ ticker = "off" /\ screen = <<>>
  /\ rows = <<>> /\ shown = 0 /\ plain = FALSE /\ stopped = FALSE /\ quit = FALSE

Record == \E kind \in Jobs, label \in Labels : Log(kind, label)
Handling == Drop \/ NewRegion \/ Existing \/ WriteDirectly \/ StartPlain \/ Update \/ WriteWarning
Ending == \/ EndProgress("report") \/ EndProgress("finish")
          \/ Stop \/ Exited \/ PrintReport \/ PrintError
Over == phase = "ended" /\ UNCHANGED vars

Next == Record \/ Handling \/ Lock \/ Ending \/ Tick \/ TickerLocks \/ Draw \/ Quit \/ Over

\* The command's goroutine goes on; Go's mutex starves nobody; and select, which
\* chooses at random, does not prefer the tick for ever.
Fairness ==
  /\ WF_vars(Record \/ Handling \/ Ending) /\ SF_vars(Lock)
  /\ WF_vars(TickerLocks) /\ WF_vars(Draw) /\ SF_vars(Quit)

Spec == Init /\ [][Next]_vars /\ Fairness

----------------------------------------------------------------------------
(* Properties.                                                             *)

TypeOK ==
  /\ {terminal, ci, enabled, interactive, alive, plain, stopped, quit} \subseteq BOOLEAN
  /\ at \in {"idle", "handle", "plain", "update", "write", "stop", "wait", "print"}
  /\ job[1] \in Jobs /\ records \in 0..MaxRecords /\ phase \in {"working", "reported", "ended"}
  /\ mu \in {"free", "command", "ticker"} /\ (mu = "ticker" <=> ticker = "drawing")
  /\ ticker \in {"off", "select", "ticked", "drawing", "exited"}
  /\ \A i \in DOMAIN rows : rows[i].label \in Labels
  /\ shown \in 0..Height /\ (plain => shown = 0)
  /\ \A i \in DOMAIN screen : screen[i] \in Lines

\* The live lines are the last ones of the screen, as many as the region will
\* erase, and there are none once the report has begun: "no renderer can
\* repaint a stale frame after a report has begun scrolling the terminal"
\* (progress.go:84).
LiveRegionLast ==
  /\ \A i \in DOMAIN screen : screen[i] = "live" <=> i > Len(screen) - shown
  /\ phase # "working" => shown = 0

\* No warning, milestone, report or error is ever erased, overwritten or moved.
NothingErased ==
  [][\A i \in DOMAIN screen : screen[i] # "live" =>
       i \in DOMAIN screen' /\ screen'[i] = screen[i]]_screen

\* The command ends and takes the ticker with it.
Ends == <>(phase = "ended" /\ ticker \in {"off", "exited"})
=============================================================================
