# snipe-sync in TLA+

snipe-sync reconciles a Snipe-IT inventory with a directory (Microsoft Entra)
and with device sources (Intune, Jamf).  A *cycle* reads complete snapshots of
all of them, makes one plan, and applies it to Snipe call by call.  The
commands `plan` and `apply` run one cycle, `run` loops for ever.  This
directory holds the models of that program, what TLC checks of them, and what
TLAPS proves.  `PROJECT.json` maps every definition to the lines it stands for.

## Inventory

| Component | State | Operations | Modelled in |
|---|---|---|---|
| Applying a plan (`internal/app/service.go`, `apply`) | the plan, the IDs of created users, per-asset failure marks, the report | six passes of blocking Snipe calls; cancellation | `Apply`, `ApplyContract` |
| Planner (`internal/planner`) | none: a function of the snapshots | metadata, users, device selection, present and absent assets, skip rules | `Policy`, `Planner`, `Selection` |
| Reconciliation over time (`service.go`, `loop.go`) | nothing survives a cycle but the world | read, plan, apply, fail, crash | `Reconcile` |
| Entra identity source (`app/build.go`, `provider/microsoft/entra.go`) | cached users, delta link | delta rounds, retry after 410, group reads, commit | `EntraSource`; links in `Paging` |
| Fan-out, loop, signals, exit code (`service.go`, `cmd/snipe-sync`) | errgroup, timer, signal channel, context cause | start, concurrent reads, select, report, signal handling | `Service` |
| Jamf client (`provider/jamf/client.go`) | cached token under a mutex | request with one retry, token, invalidateToken | `JamfToken` |
| Listings of Jamf, Snipe and Graph (`jamf/inventory.go`, `snipe/client.go`, `snipe/snapshot.go`, `microsoft/intune.go`, `entra.go`) | rows read so far, the total, the links seen | pages, several listings after one another, duplicates | `Paging` |
| Snipe snapshot (`snipe/snapshot.go`) | none | accounts, catalogs, custom field, hardware listings | `Policy` (catalogs, field), `Paging` (hardware), `Reconcile` (accounts before assets) |
| Terminal progress (`cmd/snipe-sync/progress.go`, `diagnostics.go`) | the live region under a mutex, ticker, channels | update, draw, write, stop, report, error | `Progress` |
| Configuration (`internal/config`) | none after start | defaults, validation | `Policy` |
| Report text, expressions, domain records, Graph SDK client | none | formatting, CEL, record types | not modelled |

How they interact.  `Reconcile` starts one goroutine per source in an errgroup;
each fills a variable of its own, and `group.Wait` is the only synchronisation.
The planner is pure and is handed what they read.  `apply` is sequential; the
only concurrent party is the signal goroutine, which cancels the context.
Between cycles only the Entra source keeps something (users and delta link),
and the Jamf client its token.  That client serves one source at most
(`config/validate.go` refuses a second source of one type), which reads its two
listings one after the other, so no two of its requests overlap.
Log records of all of them go to the terminal display, whose ticker goroutine
repaints the live region until a report or an error is written.

What makes it hard: every snapshot part is of another moment and old when the
plan is applied; a call may take effect though its reply is lost; a cancellation
comes between or during calls; a plan has dependencies (a created user, then a
check-in, then a check-out) and stops half-way; the delta cursor must never run
ahead of the users; collections change while their pages are read; and the same
situation must end the same way when a process that was killed starts over.
The list of such places, each at its line, is under `hazards` in `PROJECT.json`.

What makes each component correct:

- *apply*: the report is true (applied, failed, blocked, not attempted), no call
  before its prerequisites, no call after the cancellation, passes are barriers,
  counters and the returned error agree with the report.
- *planner with the cycle*: nothing that is right is written, everything left
  alone is right after one undisturbed cycle, and the whole converges.
- *Entra source*: no change is lost between cache and cursor; the result is the
  directory of the time of the call; group aliases are complete.
- *process*: no writes unless all sources were read, no reader outlives its
  cycle, signals end the process, exit codes tell what happened.
- *Jamf client*: a retry carries a new token and there is only one, no token about to
  expire is used, and no state of the cache fails more than it must.
- *listings*: a listing accepted as complete is complete, and reading ends.
- *terminal*: the live region is the end of the screen, it erases nothing but
  itself, nothing is repainted over a report, and stopping it does not hang.

## Modules

**`Apply`** is `Service.apply` with one action per step at which something else
can happen: `Skip` (the `continue`s), `Interrupt` (the `ctx.Err()` returns),
`StartCall`, `Return` (the request answered, or failed with or without effect),
and one `Finish...` for what the code does with the result in each pass.
`phase` and `pos` are the loop variables; `status`, `usersApplied`,
`assetsApplied` and the two failure counts are the `ApplyResult`; `failed`,
`checkoutID` the `assetApplyState`; `written` is what Snipe has carried out.
Emails and assets are numbered in plan order; the constant `Plans` is a set of
plans, and the theorems hold for any.

**`ApplyContract`** says what carrying out a plan promises in any order: a set of
operations with prerequisites, at most one verdict each, an attempt only once
all prerequisites are applied, giving up only because one is not.  `Apply`
implements it under the mapping `needs <- Needs`, `returned <- phase = "returned"`.

**`ApplyProofs`** holds the theorems about `Apply` and the proof that it implements
the contract.

**`Policy`** is the configuration: which decoded files `validateAndCompile` lets
through (`Valid`), the names that `planner.New` and `findCustomField` resolve with
what Snipe lists (`MetadataResolves`, `FieldFound`), and the sets, IDs and texts
the planner works with afterwards.  Strings are compared as `Trim` and `Fold`
make them, two constants.  **`Planner`** assumes an accepted configuration
(`PolicyAssumption`, which TLC evaluates for each of the policies used) and holds the planning
decisions as operators over maps (functions whose domain is the set of keys):
`PlanUser`, `SelectDevices`, `PlanPresentAsset`, `PlanAbsentAsset`, `PlanAsset`.
Conditions in CEL are constant operators.  **`Reconcile`** extends it with the world
(directory, listings, accounts, assets), others who change it at any moment, and
the cycle: `Begin`, `Read` of each part at a moment of its own (assets after
accounts, as in `Snapshot`), `MakePlan`, `Succeed`, `Refused` or `Lost` for every
operation in the order of the passes, `EndCycle`, and `Abort` for failed reads,
cancellation and death of the process.  **`MCReconcile`** gives three policies for two
device sources, two emails and one serial: a plain one, one that promotes into
a status that is not writable, and one whose skip rules depend on the status,
the assignment and the name, which the tool changes itself.

**`EntraSource`** is `ListUsers` over Graph's delta queries: the directory is a
record per ID and a log of changes, a delta link a position in the log.
A change during a round may or may not be reported by it.  `MCEntraSource`
has two groups with overlapping aliases.

**`Service`** is the process: the command that may fail to start, one cycle with
concurrent readers and the group's context, the calls of a plan as a number,
`runLoop` with its timer and `select`, the report that may not be written,
`signalContext` step by step, and `run`'s exit code.

**`JamfToken`** is the Jamf client over all its requests, which come one after the
other: `token` (`UseCached`, `StartFetch`, `Fetched`, `FetchFails`), the call and the two
attempts of `request`, `invalidateToken`.  The lock around the cache has no variable, since
nobody ever waits for it.  Tokens are numbered, `aged` when within the refresh leeway,
`revoked` when Jamf refuses them, either at any moment, also between taking a token
and using it.  **`JamfTokenProofs`** holds its theorems.

**`Paging`** has a collection that changes while it is read, and three readers:
Jamf's (computers, then mobile devices; full pages in ID order, duplicates
rejected), Snipe's (the hardware in use, then each archived status; pages of any
length in any order, rows seen twice dropped, serials seen twice refused) and
Graph's (next links, the ones followed remembered).  The parts of a collection are
what each listing is of; assets move between parts when their status changes,
also into an archived status the catalog did not know yet.  `MCPaging` gives the
serial numbers.

**`Progress`** is the terminal: the goroutine of the command with the records it
logs, the ticker goroutine, the mutex between them, and the screen as the
sequence of its lines.  `startPlain` (no terminal, or CI), `--no-progress` and `--json`
are choices of `Init`.  What `shown` says is what will be erased; whether that is
what is live on the screen is the question.

**`Selection`** is `selectDevices` row by row; `Planner` uses its result.

**`EntraSourceProofs`**, **`ServiceProofs`**, **`SelectionProofs`**, **`ProgressProofs`**,
**`ReconcileProofs`** and **`PagingProofs`** hold the theorems of the modules they are named after.

Definitions named `X_Something` under a comment `Fault:` are bugs one could make in
`X`.  No specification uses them: they stand beside the definition so that each property can be
seen to fail with one of them.

## Runs

| Run | Asks | Bounds |
|---|---|---|
| `mc_apply` | Is the report true and what is summed up from it, are prerequisites and passes kept, is nothing sent after a cancellation, does apply return, does it implement the contract? | 2 users, 2 assets, every plan, cancellation anywhere; 989 000 states |
| `mc_entra` | Are cache and cursor consistent, results current, aliases complete, and does the cache catch up? | 2 users, 2 groups, 2 changes, 2 faults; 869 000 |
| `mc_reconcile` | Does a cycle write only what is wrong, and leave right what was left alone? | 2 emails, both internal, 1 serial, 2 changes, 1 fault; 1.1 million |
| `mc_reconcile_live` | Does Snipe converge, also under skip rules over what the tool changes? | 1 change, 2 faults; 93 000 |
| `mc_service` | Start, fan-out, loop, report, signals, exit codes | 3 sources, 2 calls, 3 signals; 13 500 |
| `mc_jamf_token` | Does the retry carry a fresh token, is a token about to expire left alone, and does the client recover whatever the cache was left with? | any number of requests, 3 tokens that end early, 2 failed calls; 2 700 |
| `mc_paging` | Does an accepted result lack a row? Are serials told apart? Does reading end? | 3 rows at first, in any parts, pages of 2, 2 changes; 274 000 |
| `mc_progress` | Is anything erased or repainted that must not be? Does the command end? | 2 labels, region of 2 lines, 4 records; 78 000 |
| `mc_selection` | Is the device of the first source, and there the newest, selected? | 2 sources, 2 serials, listings of up to 2 rows; 168 000 |
| `promotion_unblocks`, `moves_only_absent`, `snapshot_is_complete` | violated; see Findings | as above |

Why the bounds are enough.  Two users and two assets already give `apply` every
pair of items that can disturb each other: two check-outs to one created user,
a failing asset before or after a good one, both orders in every pass.  The
Entra cache forgets everything but cache and link between calls, so two changes
and two faults reach a change before, in and after a round, an expired link in
the first and in the second round, and a failure after the round.  A cycle of
`Reconcile` starts from scratch, so that the second change or fault already
meets every state a first one leaves.  Three signals are the one that is
received, one that is buffered and one that kills.  With three tokens ending
early a request can be refused twice and the next one be refused once more, with the token
that was left behind or with a new one.  Two pages with a
change in between are the shortest listing by offset that can go wrong; two
changes let the total recover, or bring an asset into an archive and out again.
Two stages and two more records on the screen already give every order of a
stage, its end, a warning and the report; the ticker may act between any two
steps.  (The proofs, which cover every state machine, do not depend on bounds at all.)

Every `MaxChanges`, `MaxFaults`, `MaxSignals`, `MaxCalls`, `MaxRetired`,
`MaxRows`, `MaxRecords` is such a bound, declared as a constant and used in guards only.

## Fairness

- `Apply`: weak fairness of the steps of the goroutine.  Each call returns
  because the HTTP client has a timeout.  Nothing is assumed about cancellation.
- `EntraSource`, `Reconcile`: weak fairness of the loop and of answers; faults and
  changes are bounded, which is the assumption that they cease.
- `Service`: weak fairness of the main goroutine and of the signal goroutine.
- `JamfToken`: weak fairness of the requests, which the loop of `run` makes again and
  again, and of their answers; tokens that end early and failures are bounded, which is
  the assumption that they cease.
- `Paging`: a request that does not fail is answered; failures are not assumed.
- `Progress`: weak fairness of the command and of the ticker.  Strong fairness of
  taking the mutex, because Go's `sync.Mutex` hands itself to a waiter after a
  millisecond (starvation mode), and of leaving the `select` once `quit` is closed,
  because a `select` with several ready cases chooses at random.

## Proofs

`ApplyProofs` proves for every number of users and assets and every set of plans:

- `TypeCorrect`: `Spec => []TypeOK`.
- `InvHolds`: `Spec => []Inv`, and from it `ReportIsTruthful`,
  `PrerequisitesHold`, `CheckoutsHaveRealUsers`, `BlockedOnlyByFailure` and
  `PassesAreBarriers`.
- `VerdictsNeverChange` and `CancellationStopsCalls`, of every step.

None of the five invariants is inductive.  `Inv` adds what the loops know:
`VerdictsFollowLoop` (an operation has been settled exactly when the loop has
passed it, or it was blocked by an earlier failure of the same asset),
`FailedFollowsStatus` (the failure mark of an asset is set exactly when one of
its operations has failed or was blocked), `IDsFollowStatus` (an ID is known
exactly for accounts that exist) and `CallIsSelected` (an outstanding call is
for an item the loop has chosen).  The proof has a lemma per action
(`SkipKeepsInv`, `StartCallKeepsInv`, ...), and lemmas for what several share:
`StableKeeps` (a step that changes no verdict), `Advance` and `SamePass` (what
moving the index by one means), `AnswerKeepsVerdicts`.  The assumptions are
`SizeAssumption` and `PlansAssumption`, which every run of `MCApply` evaluates.

`JamfTokenProofs` proves every safety property of the token cache for any number
of requests, early ends of tokens and failures: `TokenTypeCorrect`,
`RefusalSurvived`, `LatestIsTaken`.  `OneRefusalSurvived` is not inductive.  `IInv`
adds that the cache holds the last token issued or nothing (`CacheIsLast`), that only a
token refused at the first attempt is discarded (`DiscardsRefused`), and
`RetryDiffers`, which follows a request from the refusal to its second attempt: between the
two the cache never holds the refused token.  The assumption is `BoundAssumption`.

`SummaryIsTruthful` is proved on top of `Inv`: every step that records
a verdict changes the counters by what it changes in the set they count
(cardinality of a set with one more element, `FiniteSetTheorems`), the first bad
operation of an asset adds its one failure, and the error at the return follows
from what `VerdictsFollowLoop` says of the last pass (`LastPassDecides`).

`ApplyImplementsContract` is the refinement: the initial states map to
initial states (`InitImplements`), and every step to a step of the contract or to a
stutter (`StepImplements`).  A settled call is an `Attempt`: its prerequisites are
applied because the loop is past their passes and the asset has no failure mark
(`CurrentReady`).  A failure that blocks others, or an account that was not
created, is an attempt together with giving up (`BlockingGivesUp`, `BlockedForCause`).

`EntraSourceProofs` proves for any number of users, groups, changes and faults
`EntraTypeCorrect`, `CursorLosesNothing`, `ResultsAreCurrent` and `AliasesAreComplete`.  The
inductive invariant adds to them what a call under way knows: `RoundCovers` (what
the round would make of a user is right already, or the round is going to
report the user, or the round after its link is), `RoundIsCurrent`,
`MembersEnclosed` (what was read of the groups lies between the pairs that were
members throughout and those that ever were) and `GroupsLast`.

`ServiceProofs` proves every safety property of the process for any set of
sources and any number of calls and signals: `ServiceTypeCorrect`,
`WritesHaveAllSources`, `ReadersEndWithCycle`, `CancellationQuiets`, `ExitCodeIsRight`,
`SecondSignalEnds`.  Its invariant says where readers, writer and timer are while the main
goroutine is at each place (`WhereItIs`), what a cycle begun after the
cancellation can still do (`LateCycle`), which signal is where between channel and
cause (`FirstSignal`), and what is returned (`Returned`).

`SelectionProofs` proves `BestDeviceIsSelected` for listings of any length: the inner
loop keeps the best of the rows it has seen (`KeepsBest`), the outer one the best of
the first source that lists a serial (`SelectsBest`).  Being a better choice is an
order because times and keys are compared as integers (`OrderAssumption`).

`ProgressProofs` proves for any stages, height and number of records `RegionIsLast`,
`PersistentTextStays` and `ProgressTypes`.  The screen is a sequence whose last `shown`
lines are the live ones (`ScreenShape`), nothing is live in a plain or stopped region
(`NothingLive`), and there is no region any more once the report is written
(`OverIsOver`).  A step writes below the screen or below what is left of it when
the live lines are erased (`StepsOfTheScreen`), and by `ScreenShape` these are all
that is erased.  `ProgressTypes` needs to know besides that the mutex is the ticker's
exactly while it draws (`Holders`).

`PagingProofs` proves `NoRowIsMissed` and `SerialsAreResolved` for any collection that is
finite at first, any numbers and sizes of pages and any number of changes.  The
argument has three parts.  A page is counted: rows of a list stand at different
places (`PlacesDiffer`), so a page by offset has at most as many rows as were asked for
(`PageFits`, the pigeonhole principle) and what was counted is always the beginning of
the list (`PageCovers`); a page by link has the first rows behind the link
(`FirstOnes`).  The total tells: rows that only came, or only went, since the first
page have changed it for good, so no page is accepted any more (`ByOffset`,
`TotalTells`); this is where rows that come as well as go escape.  And every row that
stays is in a part that is still to be listed, or was read (`Covered`): the
assets in use are listed first, so a move from there into an archive cannot hide
one.  `IInv` is these with the shape of the lists.  The assumptions are those
of `Paging`, which its runs evaluate; the server's rows are finite, any rows may share a serial number.

`ReconcileProofs` proves, for any emails, serials, worlds, sources, rules and any number of
changes, faults and cycles:

- `ReconcileTypes`: `Spec => []TypeOK`.
- `PlanStaysCurrentForUsers` and `PlanStaysCurrent`: what is left to do in this cycle for an account or asset
  that was left alone is what a plan made now, from what Snipe holds now, would ask for.
- `WritesOnlyWhatDiffers` (`NoNeedlessWrite`) and `OneCycleIsEnough` (`OneCycleSuffices`).

The two properties are not inductive: they speak of the moment of a write, or of the
end of a cycle, about a plan made long before from readings that were stale when it
was made.  `IInv` says what links the two.  While reading, what was read of an item nobody
touched is still so (`ReadingCurrent`).  From the planning on, the operations
of an item that are still to come are the plan for its present state
(`UsersCurrent`, `AssetsCurrent`), so that each write has to be shown to take exactly its own part out
of the plan for the result.  The order of the passes is needed for one thing: by
the turn of an asset every account has been created, so that the user it goes to
has an ID.  At the end of the cycle nothing is left to come, hence a plan
made now is empty.

The statement for assets has two hypotheses about the configuration.
`SkipIgnoresWrites`: skip rules look at nothing the tool itself writes (status, assignment,
name, managed-by text).  `PromotesToWritable`: assets are promoted, if at all, to a
writable status.  Both are needed, since TLC refutes `OneCycleSuffices` for the policy of
`MCReconcile` whose skip rules depend on each other, and `NoNeedlessWrite` for the one that promotes into a
status that is not writable (the finding `promotion_unblocks`); the policy of `MCReconcile.cfg`
satisfies both.  The code enforces neither.  `KeyAssumption` says that no
email is the empty string and that sources are numbered, `WorldAssumption` that records have the
fields of `UserFields` and `AssetFields`.

Every one of these invariants was checked by TLC first.  With them every
invariant and every action property of the passing runs is proved, `NoNeedlessWrite` and
`OneCycleSuffices` under the two hypotheses named.  Only model-checked is all liveness
(`Returns`, `CatchesUp`, `Converges`, `EndsWhenItShould`, `LoopGoesOn`, `Ends` of `Paging` and of
`Progress`, `Recovers`), which is out of the prover's reach.

## Findings

Three places where the code does something else than its documentation says:

1. `promotion_unblocks`: `assets.statuses.promote.to` need not be one of the
   writable statuses, although `schema.go` calls it "a writable target status":
   validation, modelled in `Policy`, accepts the configuration of the run.  An asset
   promoted into such a status is blocked from then on.
2. `moves_only_absent`: users who are listed in Entra but excluded by
   `users.include_when` are moved to the department of absent users; the schema
   and the report speak of users absent from Entra.
3. `snapshot_is_complete`: the README promises complete snapshots or no writes,
   but an asset taken out of the archive between the listing of hardware in use
   and that of its archived status is in neither, and nobody notices.  (The other
   direction is harmless: the asset is in both and taken once.)  A status that
   becomes an archived one after the catalog was read does the same to its assets, and so
   does one listing by offset that loses a row and gains another between two
   pages, because the total stays the same.  The run is about Snipe's rows.  The last of
   these can happen to a Jamf listing as well, which `NothingMissed` therefore excepts
   (what it states is what does hold); what the planner makes of an incomplete listing
   of devices is not modelled, since `Reconcile` reads each part as it was at one moment.

A fourth observation is not a disagreement: under skip rules over fields the
tool changes itself one cycle need not suffice, as each write may let the next
rule stop to match; `mc_reconcile_live` shows that such a chain converges.  Two
rules that undo each other are not possible, since a rule only ever leaves a field
alone.

## Not modelled

- CEL evaluation: a condition is a predicate; what it may read is modelled.
- Of the configuration: reading and merging files, environment placeholders, the
  syntax of identifiers, domains, URLs, time zones and expressions, the JSON
  schema.  It is parsed once, before anything else happens.
- The text of reports, logs and progress lines; the JSON log of `run`.  They have
  no state of their own beyond what `Progress` and `Service` hold.
- Payload encoding, decoding of records and HTTP details: a call succeeds, is
  refused, or loses request or reply; a page arrives or does not.
- Credentials and the construction of the Graph client.
- What a cycle makes of a listing that lacks rows (finding 3): `Reconcile` reads each
  part whole, and its properties and theorems are about cycles whose parts are complete.
- Deltas that carry only some properties of a user: Graph is taken to send whole
  records.
- The commands `validate`, `schema` and `version`, which change no state.
