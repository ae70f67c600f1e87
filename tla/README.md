# A verification of Sub2API-AutoReset

Sub2API-AutoReset is a side car of a Sub2API installation.  It watches upstream
OpenAI OAuth accounts, notices when upstream staff reset an account's 7-day
usage window ahead of time, and passes the favour on: it resets the quota of
the downstream subscriptions mapped to that account.  This directory holds TLA+
modules that model the service (`src/cmd/sub2api-autoreset`), the TLC
configurations that check them, and proofs checked by TLAPS.

## The system

| component | state | operations | works with |
|---|---|---|---|
| poll scheduler (`engine.go` Run, PollAsync, PollNow) | next poll time, wake channel, `pollMu` | poll on a jittered interval, manual check, wake on a saved configuration | starts a cycle; shares `pollMu` with undo |
| cycle and workers (`engine.go` cycle, processSource) | a worker per enabled source, four at once, one context of three minutes | sample, confirm, record, reset the targets one by one, notify | reads the configuration several times; writes account state and events |
| detection (`engine.go` readWeeklySample, stabilizeNativeWindow, classify; `client.go` PersistedWeeklyMetadata; `restore.go` ReadAccountWindowTotals) | per account: last sample, expected reset, cards, fuse | reuse or force a snapshot, count usage, stabilise, classify | Sub2API's account record and its database |
| state file (`store.go`) | configuration, account states, newest 100 events, counters | every setter changes memory and rewrites the file (temporary file, rename) | everything; read once at start, with migrations |
| configuration handlers (`main.go` updateConfig, reconcileSourceMappings) | none of their own | merge one tab's settings, drop incompatible targets, save, wake the scheduler, switch the API key | two list queries between reading and saving |
| undo (`engine.go` UndoTarget, `restore.go` Restore) | undo status of target and event | compare-and-swap on window starts in one serializable transaction, invalidate caches | `pollMu`, the state file, PostgreSQL, Redis |
| Sub2API client (`client.go`) | base URL, API key | accounts, subscriptions, forced usage query, reset | Sub2API's admin API |
| notifications (`notifier.go`, `notification_template.go`) | none | Bark, WeCom, templates | after detection, reset and undo |
| HTTP server, pages (`main.go`, `web.go`, `index.html`, `menu.js`) | none | dashboard, configuration, manual check, undo | the administrator |

What is hard: up to four workers and any number of HTTP handlers share the
state file's memory copy; each worker waits for the network many times while
configurations change; saves, calls and replies fail one by one; the process
may die between any two of them; and the evidence of an official reset is
assembled from copies that are made at different times.  What must be right:

- *pipeline*: one official reset resets a subscription at most once; a call is
  on record before it is made; a verdict belongs to its call; an administrator's
  "off" stops a running worker; a cycle always ends.
- *detection*: a confirmed event has an official reset behind it; it is
  confirmed by two different observations, once per window.
- *undo*: usage restored is usage really consumed, once.
- *scheduler*: a saved configuration is never missed, automatic polls keep
  their distance, and there is always another one.
- *configuration*: saving one tab keeps what another saved, and the client uses
  the stored key.
- *state file*: an upgrade repeats no reset; a restart finds what was saved.

`PROJECT.json` lists every component with its status and, under `hazards`, each
of these dangers at the line where it bites with the properties that watch it.

## The modules

### ResetPipeline (and ResetLedger, MCResetPipeline, three modules of proofs)

A cycle (`StartCycle`, `Deadline`, `EndCycle`) takes `pollMu` (`polling`), copies
the configuration (`start`) and queues a worker per enabled source.  A worker
(`w[s]`, `pc` is the await or the store operation it is at) goes through
`processSource`: `SampleSettles` or `SampleCandidate`; `ConfirmRejected` or
`ConfirmReset`, which saves the fuse; `Resolve` (`resolveActionSource` on the
latest configuration); `RecordEvent` (group check and `AddEvent`);
`NotifyDetection`; then for each target in increasing order `CheckTarget`
(`targetStillAllowed`), `ReadFails` or `Prepare` (snapshot and "resetting" on
disk), `Post`, and `ResetFails` or `ResetSucceeds`; at the end `NotifyReset`.

The store is a pair: `mem`, which every setter changes, and `disk`, which takes
the whole of `mem` when the save succeeds (`Save`).  A failed save therefore
leaves memory ahead, and any later save, of whatever field, carries it over.
`Crash` starts again from `disk`.  The network is `wire`, calls on their way;
`Land` executes one, `Lose` drops one, and the worker may see a failure in
either case, or before.  `win[s]` counts the official windows of an upstream
account; what a sample says is abstracted to the window it shows, because the
pipeline uses nothing else (Detection models the rest).  Several statuses that
the loop treats alike are one here (`cancelled`, the reasons for `skipped`).
`landed` and `stray` are ghosts: how often Sub2API executed each call, and
calls sent since the last saved configuration that it forbids.

ResetLedger is the promise without machinery: a source's window is opened, and
a subscription is reset for an open window once.  `LedgerSpec` is ResetPipeline's
refinement of it with `official <- win, resets <- landed`.

### Detection (and MCDetection, DetectionProofs)

One account, its upstream and Sub2API's copies of it.  `begin` is when the real window
began; it moves with the natural end (`Tick`), an official reset, a used
card or a replaced account.  Sub2API's copies follow when they are renewed and
not before: `snap` is the persisted snapshot (`Refresh` stores a new one, its
reset time off by up to `Drift`), `cache` the card cache (`SaveCards`), `logs`
the request times, of which `Totals(start)` counts those since a start.  An
account is told apart by the `Fields` of its credentials, account id and plan,
of which any in `MayMiss` may be missing when they are read; as in the code, a
missing one is taken for the same (`SameSource`).  The
worker reuses a fresh snapshot or waits until a newer one is persisted (`Ask`,
`ReadMetadata`), then reads the totals, stabilises and classifies in one step
(`Settle`, `Candidate`, `Confirm`), with any number of upstream steps before it.
`acct` is AccountState; `begin` fields and `events` are ghosts.
The five totals are one count, as they are summed over the same log entries.
Expiry of cards is left out: an expired card is missing from the new sample
like a used one and can only make a candidate fail.

What the code cannot see is recorded in ghosts, and `EventHasOfficialReset`
excepts exactly that: `blind`, when a log entry was last deleted or a card
granted; `torn`, that the cards or the credentials of a sample are not those of
its snapshot's moment; `hidden`, that an account was replaced while the field
that tells was missing on one side; and `turns`, when a card was used or an
account replaced, if that was so soon after the start of the baseline's window
that the new boundary may be taken for the old one.

### Rollback (and MCRollback, RollbackProofs)

A subscription's row (`row`: usage and window starts), the events with the row
before and after each reset, and one undo at a time (`u`), as `pollMu` allows.
`Detect`, `Capture`, `ResetTarget`, `TargetFails` and `Done` are the reset loop
seen from the row; an undo is `UndoStart` (status "in_progress", target and
event saved one after the other), `Commit` (the transaction: `Plan` and
`Refused` are resolveRestoreWindows, `Restored` the UPDATE) and `UndoSucceeds` or
`UndoFails`, or `UndoExpired` at once.  With `LostAck`, `UndoFails` may follow a
commit that took effect.  `Crash` starts again from the file.

Time is ticks, a request is one unit of usage, and days begin at multiples of
`Day`.  A daily window starts with its calendar day, a weekly or monthly one at
its reset; resets of one subscription happen at different moments (`Movable`), as
the comparison of window starts supposes.  `spent` is a ghost, the moments of
the requests, against which the usage in the row is compared; `applied` counts
how often each reset was taken back.  Windows without a start, a changed user or
group and deleted subscriptions make Restore fail and are part of `UndoFails`;
the deletion of Sub2API's cache entries after the commit is left out.

### Scheduler (and MCScheduler, SchedulerProofs)

`Engine.Run`: `loop.pc` is where the loop is ("read" the configuration, "decide",
the select of a service that is "off", the select of one that "wait"s, "due").
`ReadConfig` and `DecideOff`/`DecideOn` are two steps, since a save may come
between; `WakeUp`, `OffTimer` and `PollTimer` are the cases of the two selects;
`Attempt` is PollAsync with the next poll drawn.  The wake channel has room for
one message (`wake`).  A handler saves (`SaveConfig`) and notifies later
(`NotifyConfigChanged`), or, when its save fails, changes memory and notifies
nobody (`silent`).  `lock` is `pollMu`: automatic cycles, manual checks and undos
take it if it is free and give up if not (`TryLock`, `CycleStarts`,
`CycleDisabled`, `Unlock`); what they do with it is left to ResetPipeline and
Rollback.  A random delay is any member of its range (`JitteredPollDelay`,
`InitialPollOffset`, `LaunchDelays`).  Time is the countdown `loop.left`, on which
any number of steps may fall.  `floor` is the ghost of the minimum distance.

### Configuration (and MCConfiguration, ConfigurationProofs)

`Submit` is `mergeScopedConfig` of one tab, or of all, into the configuration of
that moment, and `validateConfig`.  A request that maps an account reads the
subscriptions page by page (`ReadPage`, `ReadLastPage`, newest first and by
offset, as Sub2API answers) while they end and become active (`Leave`, `Join`),
and drops what `reconcileSourceMappings` finds unfit; `ListFails` refuses it.  Then
`SaveConfig`, `ReadBack` (the stored configuration once more, for the
answer) and `SwitchKey`, one step each since nothing holds a lock across them.
A save that fails leaves the configuration in memory, with no handler to go on
with it; `OtherSetter`, a poll's or an event's save, which writes the whole of
memory, then brings it into the file.  `refused` is the ghost of such requests.
`Started` is the key's secret file at the start.  A setting is the number of the
request that set it, so that a lost one shows as an older number; what the
scheduler and running workers make of it is in their modules.

### StateFile (and MCStateFile, StateFileProofs)

`Load` is OpenStore: `Rebaselined`, `WithUndoWindow` and `Seeded` are its
migrations in order, `WithDefaults` its defaults, `Start` the save before use and
the refusal of later versions.  `Init` is any file an older release may have
left (`Older`), with any two events.  Afterwards `SetConfig`, `PollSettles` and
`Confirm` are what a running process puts into the file, reduced to what the
migrations read, with failing saves; `Crash` takes it back to the file.

### How they are composed

The modules meet in shared state rather than in one product: ResetPipeline and
Rollback restart from "what the file holds", which StateFile's `RestartIsSame`
justifies; the scheduler's `LockStep` fairness is ResetPipeline's `CycleEnds`;
Detection delivers "a confirmed window", which ResetPipeline takes as a step;
Configuration delivers arbitrary saved configurations, which ResetPipeline and
Scheduler accept at any moment.

## The runs

| run | question | result |
|---|---|---|
| `reset_faults` | saves fail, replies are lost, the process crashes anywhere: is anyone reset twice, is every call on record, does the ledger hold? | holds |
| `reset_edits` | four configurations saved at any moment: what may a running worker still send, and is every target settled? | holds |
| `reset_fanout` | three accounts in two slots, one subscription, an event list of one: do verdicts stay with their calls, does every cycle end? | holds, the latter under fairness |
| `detect_drift` | natural resets, drift of the reported boundary, requests on it | only official resets confirm |
| `detect_cards` | cards granted and used, accounts and plans replaced, log entries deleted, with copies of any age and an account id that may be missing | no used card or replaced account confirms, except where the samples do not show them; one event per window |
| `rollback` | two resets undone in any order, across midnight, week's end and deadline: is the usage put back real, and put back once? | yes |
| `rollback_faults` | saves fail, the process crashes, acknowledgements are lost, others reset: is a weekly reset taken back twice, is what is shown as undone undone? | never twice; yes |
| `rollback_lost_ack` | is a daily reset undone once when the commit's acknowledgement is lost? | no: the second undo adds the usage again |
| `scheduler` | configurations saved at any moment, failing saves, `pollMu` taken by others: is a save missed, do polls keep their distance, do they go on? | no; yes; yes, under fairness |
| `configuration` | one request after another, with failing saves, crashes, a secret file and a moving subscription list: does a tab lose another's settings, is the client's key the stored one, is a mapping reduced for cause only? | no; yes, but for a key whose own save failed; yes |
| `config_lost_update` | two requests at the same moment: does each tab save only its own settings? | no: the later save puts the other tab's settings back |
| `state_file` | files of every older version, crashes and failing saves: is a reset repeated, an old baseline trusted, anything saved lost? | no |

The two runs whose result contradicts the documentation (`rollback_lost_ack`,
`config_lost_update`) are the findings in `PROJECT.json`.

Limits of the code that follow from the models and are not runs:

- two accounts that reset one subscription after both read it: undoing both adds
  its daily usage twice (set `Overlap` to TRUE in `Rollback.cfg`);
- a card used while Sub2API's card cache, or the snapshot, stays as it is
  confirms as an official reset (without the exception for `torn` samples,
  `DetectCards.cfg` shows it);
- so does another account, or another plan, when the account id or the plan is
  missing in one of the samples (engine.go:901-902; without the exception for
  `hidden` replacements, `DetectCards.cfg` shows it);
- so do a card granted and used between two samples, and usage that falls because
  log entries were deleted (`blind`);
- so does a card used within two minutes of its window's start, when a later
  report of the boundary drifts past the tolerance: `stabilizeNativeWindow` takes
  the new boundary for the old one, the usage does not fall, and the number of
  cards becomes the new baseline.  Counted from a boundary past the tolerance
  the usage then falls, and no card is missing (`turns`);
- a reset whose reply is lost is recorded as failed, without the after-snapshot
  an undo needs (`ResetFails`), and a target left "resetting" by a crash stays so;
- the event list keeps the newest events whatever their undo deadline
  (`RecordEvent`), so that a reset may no longer be undone within its day, and a crash between fuse and event loses the event;
- a configuration whose save failed is reported as refused, used at once, and
  stored by the next save of anything, a poll's account state or counter
  (`OtherSetter`); only a restart before that forgets it.  The polling loop sees
  it at its next turn (`silent`).  An administrator key that came with it is then
  in the file while the client has the old one, until the next request is saved
  or the process restarts (`KeyFollows` excepts it by `refused`);
- each notification draws the next poll anew, so that an unbroken stream of
  saves postpones polls (`PollsResume` supposes that they stop);
- zero and blank settings, and the undo text that used to be the default, are
  replaced at a restart though `validateConfig` accepts them (`RestartIsSame`
  excepts them);
- a request of scope "all" with a blank administrator key erases the stored one
  (`MergeAll`), and the client keeps the old one until a restart;
- with more active subscriptions than a page holds, one that ends while the list
  is read moves another past the reader, and its mapping is dropped
  (`MappingReconciled` excepts it by `left`); more than 1000 OAuth accounts are
  not read.

Bounds. Two subscriptions are enough for the order of the loop and for one
target's verdict to land on another; two windows for the fuse to be crossed and
met again; three sources for two slots, so that one waits while two share the
event list. `MaxIds` is one more than the windows where crashes let an event
repeat. In Detection a window is a few ticks, `MaxTime` lets it end once where
natural resets matter (`detect_drift`) and not at all where they do not; one
card and two values of account id and plan suffice since a sample is compared
with one earlier sample. `detect_cards` follows behaviours of two kinds
(`MCBound`): short ones (to time 4) with an official reset, replaced accounts
and an account id that may be missing (the plan is always known), and longer
ones without them in which log entries are deleted and cards granted (to time 6,
to time 4 once a card is used), where a window would be confirmed again were it
not for the fuse. In this run TLC finds `EventHasOfficialReset` violated as soon
as one of the exceptions `blind`, `torn` and `hidden` is left out. Reports are
exact in this run; with one card, `Drift` 1, `Tolerance` 2, `Window` 7 and
`MaxTime` 7 the bound in `EventHasOfficialReset`, tolerance and twice the drift,
is exact: with one tick less TLC finds it violated. `Grace` is not below
`Drift`, as the defaults (120 s against a few seconds). A replaced account does
not come back, since an account that does keeps its own window.
In Rollback a day is two or three ticks and a week three, so that midnight, the
undo deadline and the end of the week all fall between a reset and its undo;
the month, which the code treats like the week, is left to a later instance, and
two requests are enough to tell usage kept from usage lost or doubled.
`MaxApplied` is one more than the promise.
The scheduler has a short interval without jitter, a long one with two values,
and off; two handlers may be between save and notification, which is one more
than the channel holds; the launch delays are checked for one to five accounts
on spans both shorter and longer than that (and proved for any number).  In Configuration three requests
let a setting be stored, overwritten by a second and looked for after a third;
only the first may be of scope "all", which sets everything; pages of one make
two subscriptions two pages.  `config_lost_update` needs two handlers and two
requests.  In StateFile two events are the newest and the oldest, of the same
account or of two; versions 2 to 5 are the older ones, 1 being migrated as 2 is,
and 7 a later one.
Events, subscriptions and, in StateFile, accounts are symmetric where a run has a
SYMMETRY, and these runs check safety only.
Detection, Rollback and StateFile may stop (at a time bound, or before a file of
a later version), so their configurations switch the deadlock check off; the
others never stop.

Fairness.  ResetPipeline's `FairSpec` asks weak fairness of `EndCycle` and of each
worker as a whole.  Every wait of a worker ends: upstream and Sub2API requests
carry the cycle's context and a client timeout, notifications their own
15 seconds, the confirmation timer its delay, saves are local.  Nothing is assumed
of the network, the administrator or the deadline; a worker that waits for a slot
gets it because the workers that hold the slots end.
Scheduler's `FairSpec` asks it of the clock, of the loop, whose selects all have a
timer, of the handlers that have saved and only have to send without blocking,
and of the holder of `pollMu`: a cycle ends by `CycleEnds`, an undo by its
context.  Nobody has to save, check or undo anything; `PollsResume` and
`LoopCatchesUp` hold for behaviours in which the administrator at some moment
stops.

## What is proved

Every safety property that a passing run checks, invariant or action property,
is a theorem that TLAPS checks, and so is the refinement of ResetLedger.  The
theorems hold for every set of accounts, subscriptions, events, handlers and
configurations, for every length of window, day, page and list, and for every
value of the bounds; the constants are restricted only by the ASSUME of the
module and by the hypotheses named below.  `PROJECT.json` lists them under
`theorems`.

| module | theorem | property | hypotheses |
|---|---|---|---|
| ResetPipelineProofs | `TypeCorrect`, `PipelineInvariant` | `TypeOK`, `IInv` | |
| | `ResetOnce` | `AtMostOnceReset` | |
| | `FuseMonotone` | `FuseNeverBack` | |
| | `ImplementsLedger` | `LedgerSpec` | |
| ResetEventProofs | `EventInvariant`, `OneEventEach` | `OneEventPerWindow` | |
| | `SuccessIsTrue` | `SucceededMeansLanded` | |
| | `VerdictStays` | `DiskVerdictFinal` | |
| | `SnapshotFirst` | `SnapshotBeforeReset` | |
| ResetGuardProofs | `StragglerBound` | `OneStraggler` | |
| | `SentWasStarted` | `OnlyStartedTargets` | |
| | `SettledWithoutFaults` | `SettledWhenIdle` | saves succeed, no crash |
| DetectionProofs | `DetectionTypeCorrect` | `TypeOK` | |
| | `ConfirmedTwice` | `ConfirmDistinct` | |
| | `UsageNeverFalls` | `WindowUsageGrows` | logs are kept, twice the drift within the tolerance |
| | `WindowConfirmedOnce` | `OneEventPerWindow` | twice the drift within the tolerance, drift below a window |
| | `ConfirmedIsOfficial` | `EventHasOfficialReset` | drift within grace and, twice, within tolerance |
| RollbackProofs | `RollbackTypeCorrect` | `TypeOK` | |
| | `ConsumptionStaysCharged` | `ConsumptionKept` | |
| | `ShownAsUndone` | `UndoneIsTrue` | |
| | `UndoComesToAnEnd` | `UndoEnds` | saves succeed, no crash |
| | `TakenBackOnce` | `UndoneOnce` | no daily window |
| | `TakenBackOnceWithoutFaults` | `UndoneOnce` | no crash, no lost acknowledgement |
| | `LongWindowsChargedForReal`, `ChargedForReal` | (weekly and monthly part of) `UsageIsReal` | none; no daily window |
| | `ChargedForRealWithoutFaults` | `UsageIsReal` | no crash, no lost acknowledgement, one worker at a time |
| SchedulerProofs | `SchedulerTypeCorrect` | `TypeOK` | |
| | `IntervalIsMinimum` | `IntervalKept` | |
| | `WakeNeverLost` | `NoLostWake` | |
| | `LaunchesInSlots` | `LaunchesSpread` | |
| ConfigurationProofs | `StoredIsValid` | `TypeOK` | |
| | `NothingForgotten` | `NoSaveForgotten` | one request at a time |
| | `KeyOfTheFile` | `KeyFollows` | one request at a time |
| | `MappingKept` | `MappingReconciled` | |
| StateFileProofs | `UpgradeReplaysNothing` | `NoReplay` | |
| | `BaselinesNative` | `BaselineIsNative` | |
| | `UndoForADay` | `UndoWindowFixed` | |
| | `RestartFindsTheFile` | `RestartIsSame` | |

### The hypotheses

Without each of them the property is false of the code, as TLC shows on a small
instance, but for one: that the drift is below a window, seconds against a week,
only serves the arithmetic.  The passing runs satisfy them too.

- *Saves succeed, no crash* (`SettledWithoutFaults`, `UndoComesToAnEnd`): a crash
  leaves a target "resetting" or an undo "in_progress", and where a save fails
  the worker or the undo stops half-way; the code has no recovery.
- *One request at a time* (`NothingForgotten`, `KeyOfTheFile`): two requests that
  overlap are each merged into what they found; `config_lost_update` is the
  counterexample.
- *No daily window* (`TakenBackOnce`, `ChargedForReal`): a weekly or monthly reset
  leaves a window start by which a second undo is refused.  A daily window
  starts with its calendar day before and after the reset, so that nothing in
  the row tells an undo that has been applied; `rollback_lost_ack` is the
  counterexample, and a crash between commit and mark is another.
- *No crash, no lost acknowledgement* (`TakenBackOnceWithoutFaults`,
  `ChargedForRealWithoutFaults`): then the mark is made, in memory even when its
  save fails, and refuses the second undo of a daily window too.
- *One worker at a time* (`ChargedForRealWithoutFaults`): two workers may read
  the same daily usage before either resets it, and undoing both adds it twice.
- *Drift within the tolerance*: `nativeWindowDriftTolerance` is two minutes,
  reports drift by seconds, and two reports of a window lie within twice the
  drift of each other.  *Drift within the grace*: 120 s by default; with a grace
  below the drift a natural reset can be seen, twice, before it is expected.
- *Logs are kept* (`UsageNeverFalls`): usage falls with the log.

### The arguments

*ResetPipelineProofs.*  `AtMostOnceReset` is not inductive: it says nothing of a
call that is about to be made again.  `IInv` adds why it cannot be.
`WriteAhead`: a call that left the process is for a window no later than the
fuse *on disk*, so neither the running process nor one restarted from the file
confirms that window again.  `FuseOrder`: disk, memory and upstream only move
forward in this order.  `CallOnce`: a call on the wire has not landed.
`WorkerInv`: a worker that confirmed a window holds the fuse of that window (in
memory at once, on disk once its event is recorded), and no call it still has
to send was ever sent.  The proof has one lemma per action; most actions move
one worker and touch the store in ways that keep the fuses, which `OthersKeep`,
`GlobalKeep`, `WorkerMoves` and `WorkerAdvances` say once.

*ResetEventProofs* adds `EventsInv`: in memory and on disk an identifier and a
window are one event's (`Listed`), every success has its landed call (`Landed`),
memory is never behind a verdict on disk (`Follows`), and a worker's event has
no verdict for what the worker has still to do (`EventInv`) - which is why
evicting an event that is in use, or another worker's write, never puts a
verdict where it does not belong.  `SnapInv` adds that every call sent, or about
to be, has its snapshot in both stores unless the list is full; the oldest
event, which the list drops, is found with the well-ordering of the naturals.

*ResetGuardProofs*: `StrayInv` (a checked target is allowed by the configuration
in force, or nothing was sent against it yet), `StartInv` (what a worker holds is
within the configuration its cycle read) and `SettledInv` (a target without a
verdict is on the list of the worker that opened it).

*DetectionProofs*: `OrderInv` orders window, snapshot, reading and baseline in
time and puts each report near its window; `StageInv` orders the three
observations of a confirmation; `UsageInv` keeps the baseline's usage countable
in the logs; `FuseInv` says that the fuse is the boundary of a window no earlier
than any confirmed one - one boundary is enough because baselines never go back.
`ResetInv` is the strongest: a snapshot, a reading or a baseline that is not torn
explains (`Explains`) every later window of the same account by an official reset,
a missing card or the window's end.  A baseline that was put back on the old
boundary does so too, because the window it was read in began (`WindowsInv`) with
an official reset or so early that the property excepts it.

*RollbackProofs*: `LoopInv` (the loop and an undo exclude each other; memory and
file agree on everything but an undo's marks) carries all the others.
`UndoneInv` and `ProgressInv` tie marks to applied undos.  For weekly and monthly
windows `StartInv` says that a reset moves a window's start forward, and
`OnceInv` that a start, once taken back, never returns (`NoReturn`): no undo that
could still be applied (`Barred`) brings the row to it.  Usage is counted with a
witness that the code does not have: `CountInv` stamps each request with the
start of the window it was counted in; the requests before and after a reset
have different stamps, and an undo puts two disjoint sets of them together.  A
daily window's start does not move, and there `DailyInv` gives each request an
owner instead: the row, or the one event whose snapshot charges for it.
`SoloInv` is what makes owners unique: one event at work, and an applied undo
recorded.

*SchedulerProofs*: `LoopInv` (a next poll exists exactly while it is waited for
and is never earlier than the interval allows) and `NoLostWake` itself are
inductive; `LaunchesOrdered` is the arithmetic of the slots for any number of
accounts.

*ConfigurationProofs*: `TypeInv` (what is on its way to the store was validated),
`SavedInv` (memory, and what a request is about to store, are at least as recent
as every setting that reached the file, by whatever save), `KeyInv` (the keys
of memory and of the file are the client's, or of a request whose save failed,
but for the time until a request that has stored its configuration answers) and `ReadInv` (whoever is active was read,
was away, or is on a page to come, until someone leaves).

*StateFileProofs*: `StateInv` says what a file is worth by its version.  In an
older file every window that reset somebody has an event (`Old`), from which the
fuse is seeded no lower than that window; in a file of the present version the
fuse covers it (`Covered`), and settings, samples and deadlines are already what
a start would make of them (`Current`).

The attempts changed three things in the models.  In Configuration a request that starts to
read the lists no longer lets the subscriptions change under another request
that is reading them: only `Leave` and `Join`, which that reader records, do
(`Submit`).  In Rollback and StateFile two EXCEPT paths are written with a tuple,
which the provers read and which means the same.

### Only model-checked

`CycleEnds`, `PollsResume` and `LoopCatchesUp`: liveness under fairness is out of
the prover's reach.  What the runs show of one instance, beyond the theorems, is
that the interesting cases happen: every action fires, and each property is
broken by some plausible bug.

## Not modelled

- The wording and delivery of notifications, templates, and how the channels'
  results are put together into one status: text and network I/O; that a
  notification is sent at its place, and cannot hold up the cycle, is modelled.
- The HTTP layer and the pages: routing, authentication, headers and layout,
  around calls that are modelled.
- The dashboard's preview of what an undo would restore (main.go:501-585), which
  changes nothing, and the poll counters and summaries of the state file, which
  only the page reads.
- JSON decoding, response limits and the bearer check of the Sub2API client.
- The monthly window of an undo, left to an instance with another `Dims`; a
  subscription's identity checks and the Redis invalidation after the commit.
- A clock that is stepped back.
- The container build.

A target left "resetting" by a crash, and a window whose event was lost by a crash
between fuse and event, stay as they are in the code; the properties that speak
of settled targets are checked without crashes.

## Plan

Done: ResetPipeline and ResetLedger, Detection, Rollback, Scheduler,
Configuration and StateFile, and a theorem for every safety property of the
passing runs.

Left, in this order:

1. Rollback: what the daily window is charged at most when the faults do
   happen, once per acknowledgement lost or worker that overlaps.
2. Detection: a snapshot that Sub2API persists later than it was taken, in one
   run with drift and cards.
3. Configuration: what remains of `NoSaveForgotten` and `KeyFollows` for requests
   that overlap - that every stored setting was asked for, and that the client's
   key was stored by some request.
4. ResetPipeline: that at most `SemSize` workers are between two calls at once.
