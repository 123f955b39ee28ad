# Formal model of RicePoster

RicePoster posts videos to Instagram and TikTok accounts from one local server:
a FastAPI application on one asyncio event loop, with a scheduler task for
batches that are to go out later. It keeps all its state in files, and the hard
part of it is what happens to a scheduled batch when the process dies, a write
fails, or an endpoint is called in the middle of a run; then what one run does on
pages nobody controls, and what is told of it; and the files of sessions and
devices that the server shares with a command-line tool. This directory models
those parts in TLA+, checks them with TLC and proves the central properties with
TLAPS.

## Inventory

| Component | State | Operations | What must hold |
|---|---|---|---|
| Queue file (`backend/queue.py`) | `queue.jsonl`, rewritten atomically as a whole; malformed lines are skipped by readers and dropped by the next rewrite | add, cancel, dismiss, reschedule, load, save | a batch leaves only when it ended or was withdrawn |
| Media snapshots (`backend/queue.py`) | `queue_media/<batch>/` | copy on add, delete on withdrawal and on full success, reconciliation at boot, explicit removal | media exist as long as their post is in doubt |
| Scheduler task (`backend/scheduler.py`) | due list and batch in memory, status on disk | startup sweep, poll, execute a batch | at most one post per batch, no post of what is not wanted, everything recorded, nothing stuck |
| Run guard (`backend/run_guard.py`) | one flag | acquire, release | manual and scheduled runs never overlap, no path leaks the guard |
| History (`history.jsonl`) | appended rows, a torn line possible | append by runs, read by reconciliation and statistics | a finished batch has a row |
| Server lifecycle (`backend/main.py`) | the scheduler task | boot reconciliation, start, shutdown, death alert | a dead scheduler is noticed |
| Posting run (`backend/poster_browser.py`, `backend/outcomes.py`) | results of the slots so far | slots in sequence, two platforms each, summary | a skip is neither a success nor a failure; one slot's failure leaves the others alone |
| Browser flows (`instagram_browser.py`, `tiktok_browser.py`) | a browser profile, cookies | log in, upload, caption, share, confirm | an unconfirmed post is not reported as failed |
| Session health (`backend/session_manager.py`) | `.health_cache.json` | check, cache, evict | only a recent "live" verdict is reused |
| Handoff pickup (`backend/handoff_pickup.py`) | handoff directory, receipts, archive, staged media | pull, replay, acknowledge, clear | one frozen assignment per batch; the source is never lost before it was applied |
| Account state (`account_state.py`, `device_identity.py`) | `.account-state.json` | discover, save, assign profiles | an account keeps its device, no two share one |
| Live progress (`backend/main.py`) | `PostProgress` | start, record, finish | the panel never shows a run that is over as active |
| Alerts of the scheduler (`backend/scheduler.py`, `backend/queue.py`) | failure counter, reports of malformed lines | poll, drain, announce | one alert per streak, each malformed line reported once |
| Captions, notifier, configuration, models, jitter, logging, API poster | none that outlives a call | | |
| Frontend (`frontend/index.html`) | a view of the endpoints | | |

The components meet in three ways. Endpoints and the scheduler task share one
event loop, so they interleave exactly at `await`. Manual and scheduled runs
share the guard. Everything else is exchanged through files: the scheduler and
the endpoints through `queue.jsonl`, the runs and the boot-time reconciliation
through `history.jsonl`, this process and the next through all of them.

The hard behaviours are: a due list that is as old as the runs before it; a
death between any two writes of post, rows, status, prune and media deletion;
each of these writes failing on its own; history lines torn in the middle; queue
lines damaged from outside; the sweep, which awaits between its read and its
write; the guard on every exceptional path; a click that reached the platform and raises;
four tellings of one run (page, pushes, summary, history) that must agree; two
processes that rewrite one cache; a device file that becomes unusable because a
folder is gone; a pull that dies or fails between two
of its files, is answered to nobody, or meets another roster when it is replayed;
and eventual progress despite all that. `PROJECT.json` lists them with their lines.

## Modules

| Module | Models |
|---|---|
| `QueueFile` | the contents of the files and the pure operations on them |
| `ScheduledPosting` | the scheduler task, the endpoints, the guard, manual runs, the environment |
| `BatchLifecycle` | the abstract specification: the life of a batch, without files, tasks or faults |
| `PostingInvariants` | the inductive invariants |
| `PostingClaims` | what comments and documents say and the code does not do |
| `PostingProofs` | proofs: types, the guard, at most one post; what may be posted, the abstract life of a batch |
| `PostingEvidenceProofs` | proofs: media and history rows |
| `MCScheduledPosting` | the instance TLC runs |
| `HandoffPickup` | Pull from Clipper: staging, receipt, archive, replay, acknowledgement, clearing |
| `HandoffContract` | the abstract specification: an assignment frozen once |
| `HandoffInvariants`, `HandoffProofs` | its inductive invariant; proofs of all its safety properties |
| `MCHandoffPickup` | the instance TLC runs |
| `AccountDevices` | the account state file, the assignment of devices, launches by runs and by the command line |
| `AccountProperties`, `AccountProofs`, `MCAccountDevices` | its properties; proofs; the instance |
| `SessionHealth` | the health check and its cache in several processes, logins, clears, exports |
| `HealthProofs`, `MCSessionHealth` | proofs; the instance |
| `PostAttempt` | the abstract specification: what `post_media` of a platform promises |
| `BrowserFlow` | what the flows of both platforms share: steps that raise or swallow, the caption, the click |
| `InstagramFlow`, `TikTokFlow` | `post_media` of each platform, step by step |
| `PostMedia`, `PostMediaProofs` | one call of `post_media`, of either platform, with the properties of both flows; proofs |
| `Outcomes` | what is read off a result: success, events, summary, class per platform |
| `PostingRun` | a manual or scheduled run over its accounts; uses `PostAttempt` for each platform |
| `PostingRunProperties`, `PostingRunProofs`, `MCPostingRun` | its properties; proofs; the instance |
| `SchedulerAlerts` | the alert for failing polls, the reports of malformed lines, the announcements of the sweep |
| `SchedulerAlertsProofs`, `MCSchedulerAlerts` | proofs; the instance |

`PostAttempt` is the seam between the flows and the run: `PostMedia` shows that
either flow implements it, and `PostingRun` posts by its steps, so the run is
checked against everything the flows may do on a platform that takes a post once
and with no stray text box. `ScheduledPosting` sees a run as its
outcome only, and `PostingRun` sees the queue as one batch whose media are kept or
let go. The two are not composed into one instance, but `EveryAccountAnswered` reads
`RowsOf` from `QueueFile`: the rows a run leaves are those the scheduler's model
appends for the status of the batch, and for a crash.

### How state and actions correspond to the code

A batch is its uuid. Its line in `queue` is a status and `due`, whether its
`fire_time` has passed; `"absent"` is no line, `"unreadable"` a malformed one.
`history[b]` is the set of kinds of readable rows with that batch id: `"clean"`
(no error but disabled-platform notes) and `"unclean"`. `tail` is whether
`history.jsonl` has an unreadable line and whether it is the last one. `snap` is
the set of batches with a media directory. These four survive the process;
everything else is memory and is reset by `ProcessEnds`. Four ghost variables
record what really happened (`answer`, `runs`, `outcome`, `discarded`); no guard
of an operation reads them, except that a uuid is used for one batch only.

`at` is the point the scheduler task has reached. At the points in `Awaits` the
event loop is free and endpoints may run; the other points lie inside synchronous
code, where only the task itself, a fault or a death can come next. A synchronous
section is split at each write of a file, because that is where a death or a
failing operation makes a difference:

| Code | Actions |
|---|---|
| `lifespan`, `_reconcile_media_at_startup` | `Boot` |
| `startup_sweep` | `SweepReads`, `MalformedReported`, `SweepWrites`, `InterruptedAnnounced` |
| `scheduler_loop` | `Poll`, `MalformedReported`, `ListExhausted` |
| `execute_batch`: guard, re-validation, flip to running | `SkipBusy`, `Claim` |
| ... pre-flight checks, `post_fn` | `PreflightEnds`, `PostingEnds` |
| ... history, status, prune, media | `RecordHistory`, `SealStatus`, `PruneRecorded`, `DeletePostedMedia` |
| ... history failed | `KeepUnrecorded` |
| ... `except` | `RecordCrash`, `PruneCrashed` |
| ... last notification and `finally` | `RunNotified`, `Release` |
| `/api/post` | `ManualRunStarts`, `ManualRunEnds` |
| `POST /api/queue` | `AddSnapshots`, `AddSaves` |
| `DELETE /api/queue/{id}` | `CancelOrDismiss`, `DeleteWithdrawnMedia` |
| `PATCH /api/queue/{id}` | `UpdateFireTime` |
| `DELETE /api/queue/media/{id}` | `RemoveSnapshot` |
| `_scheduler_died`, then the maintainer | `RestartAfterDeath` |
| the environment | `Kill`, `KillMidAppend`, `DamageLine`, `FireTimePasses` |

Faults are bounded by `MaxFaults` and chosen from `Faults`: `"kill"`, the process
ends (a crash or a shutdown: `CancelledError` passes through the `finally`, which
in-memory state cannot show); `"io"`, one file operation raises; `"tear"`, an
interrupted append stops in mid-line; `"damage"`, a queue line becomes unreadable.

### HandoffPickup

`place[b]` is where the directory of a batch is (`"unborn"`, `"inbox"`, `"archive"`,
`"gone"`), `receipt[b]` the status in its receipt, `frozen[b]` that receipt's targets
(kept in the model after the receipt is gone), `source[b]` the clips in the directory.
`good` and `altered` are the staged files, by account, batch and position; `roster`
is the active roster. `at`, `cur`, `done` and `candidates` are the request in
progress; `inHand` the batches that some page is preparing, and the ghost `told[b]`
the assignments that were sent. Batches are numbered in the order of their names
and may arrive in any order.

| Code | Actions |
|---|---|
| `ingest_oldest`: which batch, and how | `PullReplays`, `PullResumes`, `PullStages` |
| ... copies, roll back, receipt, move | `StageClip`, `UndoStaging`, `WriteReceipt`, `Archive` |
| `_restore_staged_media` | `RestoreClip` |
| the answer | `Reply` |
| `acknowledge` | `Acknowledge` |
| `pullFromClipper` in the page, when it fails | `GiveUp` |
| `clear_consumed_batches` | `ClearBegins`, `RemoveEntry`, `RemovalFails` |
| `/api/media/clear` | `ClearMedia` |
| `PUT /api/accounts/state` | `SwitchRoster` |
| the environment | `Deliver`, `AlterMedia`, `Kill` |

The endpoints contain no await, so one request runs at a time, and the only thing
that can come between two of its steps is a death (or what other programs do: a
new batch, a page that is closed). A request that is refused before it changes a
file is no step. `HandoffContract` is the abstract view: a batch waits, is frozen
for an assignment, is told to somebody any number of times, is applied and is
discarded.

Left out: symlinks, malformed manifests and receipts, and source clips that
somebody removes, which all lead to refusals; temporary files; whether two file names
`{account}_{batch}_{file}` can coincide; a second delivery of a batch name; the
refusal of `/api/media/clear` during a post run; the device profiles that
`_account_context` may save on the way.

### AccountDevices

`folder[a]` is whether the Instagram session folder of an account exists and holds
something, `file` the state file with active roster, saved rosters and profiles
(an index into the device table per account), `targets` the accounts an accepted
run will still launch, `cli` the three lookups of a command-line check, `opened`
the folders an open login created. The ghost `worn` collects the devices that each
session presented.

| Code | Actions |
|---|---|
| `_account_context` at any endpoint | `Look` |
| `PUT /api/accounts/state` | `PutState` |
| `_validate_active_targets`, later the launch and the end of the run | `Accept`, `Launch`, `Done` |
| `session_manager check` | `CliStarts`, `CliLookup`, `CliLaunches` |
| `session_manager login`, `clear` | `LoginOpens`, `LoginEnds`, `ClearSession` |
| a folder copied or removed by hand | `MoveFolder` |

`assign_active_profiles` and `validate` are the operators `Assignments` and
`Valid`; the loop of the former is stated by what it returns. Which accounts have
a TikTok folder is fixed per instance; caption defaults and platform toggles have
no part in the state. A save whose write fails changes nothing and is no action. A
folder is not removed between the lookups of one check of that account. Launches
change only the ghost, so they are followed for some accounts (`Followed`).

### SessionHealth

`stored[s]` is the material of a session on disk (a profile, a cookie file in the
account's folder, a flat legacy one), `alive[s]` what of it the platform would
accept, `cache[s]` when it was last found live. Every process of `Procs` runs
`check_session`: `Start` (no session, cached, or on to the browser), `Probe` (the
verdict, or the timeout), `Load` and `Write` (`record_check_result`, which reads,
changes and replaces the whole file without a lock, under one temporary name). The
environment is `Clock` (which may go back), `Expire`, `Login`, `Clear`,
`ExportCookies`. The clock counts in parts of the TTL and stands still while a
verdict is recorded. An account that is not to be checked is answered without a
look, which is no step.

### The browser flows

`step` is the helper `post_media` is at; each helper is an action that goes on,
and, unless the code swallows it, may raise (`Must`, `May`). `own` is whether the
text box that was found is the caption's, `editor` what the caption holds,
`submitted` (ghost) under which captions the platform took the post, `again`
(ghost) whether it took it a second time, `broken` (ghost) whether a click that
reached the page raised, `told` the verdict. Selectors, typing rhythm, pauses and
screenshots are left out.

| Code | Actions |
|---|---|
| Instagram `post_media` | `GetContext` ... `AdvancePastEditScreens`, `FindCaptionField`, `EnterCaption`, `SharePost`, `AwaitPostConfirmation`, `Finish` |
| TikTok `post_media` | `GetContext`, `CopyMedia` ... `EnterAndVerifyCaption`, `ClickPostButton`, `ConfirmPostModal`, `AwaitUploadConfirmation`, `ChooseFile`, `BackUpFile`, `ReplaceFile` (`_write_back_cookies`), `Finish` |
| the platforms | `Expire`, `Redirect` |
| the maintainer, meanwhile | `ExportCookies`, `ClearSession` |

What a page does is free, but for what decides whether a promise can be kept at all:

- Two facts about a page are rigid variables of either value. `repeats`: the
  platform may take the post of one editor twice. TikTok's second click is made
  whatever the first one did, so with `repeats` it may hand the media over again
  (`Repeat` in `PostAttempt`); Instagram's flow has one click, and its promise holds
  without regard to `repeats`. `strays`: the first text box that the selectors find
  may be another than the caption's, which then keeps what it held. `PostMedia` is
  checked and proved for every value of both; `PostingRun` takes them as FALSE, by
  the named assumptions `TakesTwice` and `StrayBoxes`.
- Instagram's composer has its caption box and a Share that posts on its last screen
  only. A click on Next may advance it or not, and raise or not, each independently;
  the loop ends where it ends, and `_find_caption_field` then takes the text box
  of whatever screen that is. On an earlier screen a Share hits something else: the
  post is not made, and the verdict may be any.

`_write_back_cookies` is three steps, between which other processes may write. An
export is `owed` (ghost) until the maintainer exports anew or clears. One that
falls between the backup and the replacement of the same file is overwritten and in
no backup (`TooLate`): `ExportKept` promises nothing for it, and the claim
`PreviousIsBackedUp` below shows it.

### PostingRun

`at` is where the run stands, `todo` the accounts to come, `turn` the platform,
`result` and `results` what was found so far, `progress` the `PostProgress` of the
page, `pushes` and `summary` what the phone gets, `rows` the results in history,
`snapshot` whether the media of the batch are kept, `media` the uploaded files.

| Code | Actions |
|---|---|
| `/api/post` | `PostAll`, `RefusedPost` |
| `execute_batch` around `post_fn` | `PostBatch`, `Record`, `Escape` |
| `post_slot` | `LookUp`, `TakeTurn`, `HandOver`, `Answer`, `Returned` |
| `_notify_slot_result`, `_inter_slot_delay`, `_notify_run_summary` | `NotifySlot`, `EndGap`, `Summarise` |
| `upload_media`, `clear_media` | `UploadMedia`, `ClearMedia` |

The contents of a file are not modelled: an upload during a run may replace the
video of an account that is still to come, and the code allows it. The look-up of
sessions is the only thing in `post_slot` that can raise out of it. There is one
run per behaviour, in browser mode. A batch without slots, which
the request model admits, ends as failed with one row of no account.

### SchedulerAlerts

`bad`, `running` and `interrupted` are what matters of the queue, `known` and
`pending` the two module-level sets of `queue.py`, `failures` and `alerted` the
locals of `scheduler_loop`. Every push is an await, at which `Endpoint` may read
and rewrite the queue; `Damage` and `Kill` may come at any time.

| Code | Actions |
|---|---|
| `lifespan` | `Boot` |
| `startup_sweep` | `SweepReads`, `SweepSaves`, `Announce`, `SweepEnds`, `TaskDies` |
| `scheduler_loop` | `Poll`, `GoodPoll`, `BadPoll`, `AlertSent`, `Wake` |

### Abstractions of ScheduledPosting

- Due batches are taken in any order; the code sorts them by fire time.
- The age floor of an orphan is a free choice at each boot (`old`).
- `rmtree(..., ignore_errors=True)` may leave a directory: both outcomes.
- Rows of one batch are a set of kinds. A stopped append leaves any subset.
- A rewrite of `queue.jsonl` is atomic (`os.replace`). The code does not sync it
  to the disk; a loss of power that undoes a rewrite is not modelled.
- Endpoints whose read or write fails change nothing and are not actions, except
  where something was written before (`AddSnapshots`).
- `SCHEDULER_ENABLED` is true. Repairing a damaged line by hand is not modelled.
- In `Poll` with `"damage"` the report of malformed lines may be awaited whether
  or not one is left, for reads elsewhere record them too.

## Runs

Nine runs pass and three refute what a document says. There is one run for each
module and question, with several properties where they share the state space.
`CHECK_DEADLOCK` is off for `PostMedia_all` and `Run_all`, whose one call or one
run ends; a server always has a step to take, were it only the next poll.

| Run | Instance | Shows |
|---|---|---|
| `Posting_all` | kill, io, tear, damage (3) | types; runs exclude each other, the guard follows them, no batch is posted twice |
| `Posting_refine` | kill, io, tear (3) | media survive, active batches have media, nothing unwanted is posted, the abstract life of a batch is implemented |
| `Posting_live` | kill, io (2) | due batches are settled, the guard comes free, stale runs are flagged, and a batch leaves with a row that tells how it ended |
| `Handoff_all` | kill, io, drop, alter, switch (3) | no clip is lost, one batch is outstanding, replies are honest, the contract is implemented, a delivered batch is applied in the end |
| `Account_all` | two slots, one account known by its folder, room for two | devices are distinct and stay, a session strays to its legacy device at most, a refusal means that there is no room |
| `Health_all` | two processes, one TikTok session, TTL 1 of 3 | "live" has a browser behind it; an eviction lasts |
| `PostMedia_all` | both flows, every start | a post goes out whole and once (by TikTok twice only if the platform takes it twice), only the click hides one, the write-back breaks no session and loses no export but one that comes between backup and replacement |
| `Run_all` | up to two accounts, both kinds of run | page, phone and history agree, what is left out stays out, media outlast trouble, nothing is posted twice, everybody is answered, the run ends |
| `Alerts_all` | two lines, one batch, alert at the second failure | one alert per streak, each line in one push, no report lost |

Bounds. Two batches are enough for a due list that
is stale after the first of them, for one batch to be rewritten while the other
runs, and for a manual run to take the guard between them; `Claim_cancel` needs
three. Three faults are enough for each pair of writes to fail in the same run
and for a death in the restart after that; two for the liveness properties, which
begin when the faults stop. One manual run suffices for a guard
that has one holder.

For the pickup, a batch of one clip and one of two let a batch arrive after a younger
one, a copy or a restoration stop half-way, and a roster be too short for one of
them only. The rosters are a prefix, a reordering and a replacement of each other.
Three faults let a death, a failing roll back and a roster switch meet in one pull.

Three accounts and two devices are the smallest instance in which a roster can be
refused, a file become unusable and be repaired, and a slot fall back to an index
that somebody else has. The saved rosters are empty; the theorems are about any.
One session is enough for what two processes do to its entry, and the second
process is the other one's only adversary (they are symmetric); the theorems are
about any number. Two accounts are enough for a run to have a past, a present and
a future account, and `Orders` includes a request that names one twice. The flows
have no bound but the code's own (three looks for Next, two attempts at a caption).
Two lines let one be known and the other new; the threshold of two stands for six.

`LeavesWithRecord` does not hold with torn lines, and `Posting_refine` not with
damaged ones; the claims below show what happens then.

| Refuted claim | What the code does |
|---|---|
| `Claim_media`, `queue.py:364` | a rewrite drops a malformed line and the next boot deletes the media of that batch |
| `Claim_cancel`, `CHANGELOG.md:641` | the sweep saves what it read before an await: a cancelled batch is back, and is posted |
| `Claim_landed`, `scheduler.py:133` | an exception out of `post_all` loses the results of the accounts it had posted for; they are recorded as crashed |

Further properties state what a document or comment says and TLC refutes. They
are no runs of the project; to see the counterexample, put the property into the
named configuration in place of its properties (for those of the flows, define a
name for the instance's property in `PostMedia` first).

| Property, module | Configuration | Said at | What the code does |
|---|---|---|---|
| `TerminalLinesPruned`, `PostingClaims` | `Posting_live` | `queue.py:3` | a failed append or prune leaves a terminal line; nothing removes it later |
| `PendingSurvivesHiccup`, `PostingClaims` | `Posting_live` | `scheduler.py:485` | a failing read in the re-validation records and prunes a batch that was never started |
| `CompletionLeavesRow`, `PostingClaims` | `Posting_refine` | `scheduler.py:223` | a row is glued to a torn line and lost |
| `AssignmentsSurvive`, `AccountProperties` | `Account_all` | `main.py:286` | a file that parses but is no longer valid hands on no profile: a repair may move every account |
| `OneDevicePerSession`, `AccountProperties` | `Account_all` | `device_identity.py:23` | a slot launched from its legacy index gets another one when it is activated after a newcomer |
| `OneDisplayPerLaunch`, `AccountProperties` | `Account_all` | `device_identity.py:45` | a save between two of the three lookups of one command-line launch mixes two devices |
| `FailedIsNotOut`, `InstagramFlow` | `PostMedia_all`, as `Instagram!FailedIsNotOut` | `frontend/index.html:1079` | the Share click reaches the page and raises: a post that is out is reported failed |
| `ConfirmedWasSeen`, `TikTokFlow` | `PostMedia_all`, as `TikTok!ConfirmedWasSeen` | `README.md:179` | any page but `/upload` counts as confirmation, a login page included |
| `PreviousIsBackedUp`, `TikTokFlow` | `PostMedia_all`, as `TikTok!PreviousIsBackedUp` | `CHANGELOG.md:562` | an export between the backup and the replacement is overwritten and in no backup |
| `EveryRunIsRecorded`, `PostingRunProperties` | `Run_all` | `main.py:621` | an exception out of a manual run skips its history |
| `DeletedIsOut`, `PostingRunProperties` | `Run_all` | `README.md:255` | an unconfirmed post counts as success, and its media are deleted |
| `RecentRunStaysShown`, `PostingRunProperties` | `Run_all` | `main.py:608` | a refused request wipes the progress of the last run |
| `DroppedIsTold`, `SchedulerAlerts` | `Alerts_all` | `scheduler.py:34` | a report is drained before its push, which may not arrive |
| `InterruptedIsAnnounced`, `SchedulerAlerts` | `Alerts_all` | `scheduler.py:73` | a death between the sweep's save and its push: nobody announces the batch |

### Fairness

`Posting_live` assumes that the scheduler task takes its steps (weak fairness:
the event loop runs what is ready, awaited calls have timeouts and return), that
an admitted request runs to its end, that a server that is down or whose
scheduler died is started again (the maintainer is alerted: `_scheduler_died`),
that a manual run that is over is resumed, and that time passes. The last two
are strong fairness: both are disabled again and again while synchronous code
runs, and asyncio's queue of ready callbacks is first in, first out. No request
has to come and no fault has to happen. Faults are bounded, so the properties
say: once the faults stop.

`Handoff_all` assumes that a request runs on (weak fairness), and that the
maintainer does what the page advises when a pull fails: pull again, acknowledge by
finishing a review, and clear the media if a pull finds them changed. Pulls and
acknowledgements are strongly fair, for each request disables them while it runs and
a page may be closed any number of times. `DeliveredIsApplied` is about behaviours
in which, from some time on, the roster is one that has room for every batch that
waits and begins with the targets of every batch that is frozen (`Accommodated`): a
batch frozen for a roster that is not activated again, or too large, blocks all
others by design, until somebody steps in.

`Run_all` assumes that the run goes on (a gap is bounded, a push has a timeout) and
that an attempt answers, which `PostMedia_all` shows of the flows under the
fairness of their steps: every call on a page has a timeout and every sleep ends.
No platform and no maintainer has to do anything.

## Proofs

`PostingProofs` proves, for every set of batches, every set of faults and
every bound (the named assumptions of `ScheduledPosting` are about these constants only):

- `TypeCorrect`: `TypeOK`. The invariant is `TypedControl`: types, and what the
  program counters say of the variables their section uses.
- `GuardCorrect`: `GuardMatchesRuns` and `SingleRun`, inductive together, because
  a release is right only if no run of the other kind is in progress.
- `PostedAtMostOnceCorrect`: `PostedAtMostOnce`. A second post needs a pending
  line, and pending lines come from nowhere but `AddSaves`: every other rewrite
  takes its lines from the file or from the sweep's copy (`RewritesCreateNothing`,
  `ComesFrom`). So `OnceInv` says that no posted batch has a pending line in the
  file or in that copy, and that a batch between claim and post has none either.
  It holds even when the sweep writes a stale copy back.

It proves further, for every choice of faults without `"damage"` (the assumption
`NoDamage`):

- `PostsOnlyWhatIsWantedCorrect`: `PostsOnlyWhatIsWanted`.
- `ImplementsLifecycleCorrect`: `ImplementsLifecycle`. Each action is one of
  `BatchLifecycle` or stutters (`LifecycleStep`): a death or a failing write in a
  run strands the batch, pruning or sealing it settles it.

Both rest on `SteadyInv`: every line can be read, an endpoint's section only runs
while the task is at an await, and the line of the batch being run shows how far
the run is. It is what a stale due list or an interleaved endpoint would break.

`PostingEvidenceProofs` proves, under the same assumption:

- `MediaCorrect`: `MediaSurvives` and `ActiveMediaPresent`. `MediaInv` says which
  evidence keeps media at each point of a run: a batch in the queue, an
  `"unclean"` row, or a history known to be incomplete.
- `LeavesWithRecordCorrect`: `LeavesWithRecord`, if no append is torn either
  (`NoTear`). `RecordInv` adds that what was posted in full has its row before its
  line is pruned, and that no run recorded as a crash posted everything.

`HandoffProofs` proves every safety property of `Handoff_all`, for all batches, clip
counts, rosters and faults (the named assumptions of `HandoffPickup`): `TypeOK`,
`SourceSafe`, `OneOutstanding`, `ReplyReady`, and `ImplementsContract`. The invariant
`HandoffInv` (module `HandoffInvariants`) says of each batch what its directory,
receipt and ghost allow (`Stage`), and of each point of a request what has been staged
so far (`StagedUpTo`) and that the receipt agrees with the roster. `SourceSafe` needs
that candidates for removal were told; `ReplyReady` that a resumed pull starts its
restoration at the first clip. No assumption about faults is needed.

The assumptions of these proofs are necessary: `Claim_media` and `Claim_cancel` show what damaged
lines do, `CompletionLeavesRow` what a torn append does.

`AccountProofs` proves, for all accounts, slots, capacities and rosters:

- `AssignmentsApart`: an assignment never gives two accounts one index. It is a
  fact about the operator, and makes the check of the code for it redundant.
- `DevicesCorrect`: `DistinctDevices`. The invariant is `FileSound`: whatever wrote
  the file last, a repair included, it holds an injection into the table. A
  legacy index is used only when no profile has it.
- `AssignedStayCorrect`: `AssignedStay`; and `TypeCorrect`.
- `AssignmentExists`: an assignment exists whenever the accounts that keep a profile
  and the newcomers are no more than the displays. This is an induction over the
  newcomers, in the order of the roster, done without an induction rule: among the
  sets of first newcomers for which there is no assignment a smallest one exists
  (`SmallestMember`, from the well-foundedness of inclusion on finite sets), its last
  member had an index left to take (`OneNewcomerMore`, by counting), so it was not
  one. `RefusedOnlyWhenFullCorrect` follows with `FileSound`.
- `StraysToLegacyOnlyCorrect`: `StraysToLegacyOnly`. `StrayInv` adds to it what the
  command line read before it launches, and that a session which is gone has
  presented nothing.

`HealthProofs` proves, for all sessions, processes and TTLs, `LiveIsBackedCorrect`
and `DeadStaysOutCorrect`. The first rests on `Evidence`: every entry of the cache
and of every copy about to be written is a moment at which a browser saw the
session live, so losing entries to the other process can only cost a look. The
second needs that no copy in the hands of a process still holds an entry of a
session in `dead`.

`PostingRunProofs` proves, for all accounts and requests, `PostedOnceCorrect` and
`RunKeepsMediaCorrect`. `OutInv` says which pairs may have a post behind them at
each point of the run; it needs the accounts to come to be distinct, which the
check for duplicates guarantees. `LeftOutStaysOutCorrect` and
`MediaOutlastTroubleCorrect` rest on `StoryInv`: every complete result deals with
both platforms in one of four ways (`Handled`), the present one does so up to the
present turn, posts went only where they were wanted, and media are let go only
after every result was recorded as a success. That invariant is inductive because
a turn adds to the result of its own platform only.

Three further invariants of it lead to what the run tells. `SlotInv`: there is one
result for each account, and none while it is to come, so that
`EveryAccountAnsweredCorrect` can count the rows, those of a crash included. The same
theorem ties the run to the scheduler: the kinds of the rows are `RowsOf` the final
status, as `ScheduledPosting` supposes when it appends them (`KindsOfStatus`), and
after a crash none is of a success, because an account that was ruled out altogether
had something switched on (`RuledOutFails`). Were that not so, the startup
reconciliation could clear the media of a batch that never ran to its end.
`PhoneInv`: the pushes are those the results so far call for. `PageInv`: the events
show every platform that was dealt with in the word for its class, and nothing of
those to come, at each point of a turn. `HandledClass` relates the class that history
gives a platform, the event noted of it and its post id, once for all; so
`PhoneAgreesCorrect` and `PageAgreesCorrect` follow, the latter with a bijection
between the results that count as posted and the accounts that are shown well.

`PostMediaProofs` proves every safety property of `PostMedia_all`, for all that a page
may do: `OnlyTheClickHidesCorrect`, `SharedWholeCorrect`, `SessionNeverBrokenCorrect`,
`ExportKeptCorrect`, and `ImplementsAttempt`, the safety part of `KeepsPromise`.
`FlowInv` says of each step of either flow where the media is (in the composer, in a
whole copy), that nothing was handed over before the click, that the caption about to
go out was read back from its own box (or another box was taken for it, which needs
a stray one or a screen that cannot be shared), that TikTok's second click meets the
editor of the first, and that an attempt on its way to the verdict failed has handed
nothing over, unless the click raised. `BackInv` follows an export through the
write-back: it is in the file until the file is backed up, in the backup when the
file is replaced. There is no assumption about the page but the ones named above.

`SchedulerAlertsProofs` proves every property of `Alerts_all`, for all lines,
batches and thresholds: `AlertFollowsStreakCorrect`, `ReportedOnceCorrect`,
`NoReportLostCorrect`, and the types. `AlertInv` ties the counter and the flag to
the streak, `ReportInv` the two sets to the pushes.

Every safety property that a run checks is proved. Only model-checked are the
liveness properties: `DueBatchResolves`, `GuardComesFree`, `StaleRunIsFlagged`,
`DeliveredIsApplied`, `RunEnds`, and that the verdict of `KeepsPromise` comes; for
liveness under fairness is out of the prover's reach.

## Plan

1. Done: the scheduler core, the pickup, and their proofs.
2. Done: accounts and devices, session health, the browser flows, the posting run
   and the alerts, each with its run and the proofs of its safety properties.
3. Done: `PostingRun` and `ScheduledPosting` agree on the status and the rows of a
   batch (`EveryAccountAnswered`).
4. Left: one instance that runs both; the polling page and its view of the progress.

## Not modelled

- Selectors, page contents and typing rhythm of the browser flows: they belong to
  the platforms. What the model takes for granted of a page is named under
  "The browser flows"; anything else it may do.
- The polling page (`frontend/index.html`), but for what it asks the maintainer to
  do when a pull fails; captions, notification texts, logging, jitter: pure
  functions or presentation.
- Parsing and validation of single values in the configuration and the request
  models; the duplicate check, the switches per platform and the capacity check
  are modelled where they matter.
- The dormant poster for the official APIs, the fingerprint probe, tests and
  continuous integration.
- The contents of uploaded files; power losses that undo an atomic replacement.
- Two further statements of the documents about sessions need a history the models
  do not keep, and are not stated: that clearing a session removes it for good
  (`session_manager.py:249`; a flat legacy cookie file remains, and a run that is
  under way writes its cookies back to it), and that a re-login is picked up by
  the next check (`session_manager.py:176`; an expired cookie file takes
  precedence over the profile).
