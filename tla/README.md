# autostand in TLA+

autostand compiles a developer's daily standup: on a schedule, or at the press of
a button, it gathers what was done (commits, notes, reviews, AI sessions), renders
it with a language model or a deterministic template, merges it into a Markdown
file named after a *filing date*, and commits that file to a repository shared by
several machines. This directory holds the models of that behaviour, the TLC runs
that check them on small instances, and TLAPS proofs of what holds in general.

`tlc -config <run>.cfg <module>.tla` repeats a run, `tlapm <module>_proofs.tla` a
proof; `PROJECT.json` lists the runs, the properties, a mutant that breaks each of
them, and which source lines every definition stands for.

In the paths below, `APP` is `apps/autostand-app/src-tauri/src`, `CORE` is
`crates/autostand-core/src` and `SCH` is `crates/autostand-scheduler/src`.

## Inventory

| Component | State it keeps | Operations | What makes it correct |
| --- | --- | --- | --- |
| Run lock, `SCH/lock.rs` | a directory with a pid file in the state directory | `acquire`, `release`, `LockGuard::drop` | one run at a time; no exit leaves a lock behind; a dead owner never blocks the others for good |
| Business days and filing, `CORE/dates.rs`, `SCH/selfheal.rs` | none | `filing_date`, `compute_window`, `compute_targets`, `is_frozen` | the windows of successive files partition the calendar, in both filing policies |
| Compile pipeline, `APP/pipeline_runner.rs`, `CORE/pipeline.rs` | AUTO blocks, audit sidecars and input hashes on disk | `run`, `self_heal_gate`, `compile_one`, `compile_file` | a file reports only work it may claim, loses none, and a skipped compile was really unnecessary |
| Accumulate, `CORE/accumulate.rs`, `CORE/textsim.rs` | none | `accumulate`, `covered` | what was reported stays reported |
| Provenance and scrub, `CORE/provenance.rs`, `CORE/scrub.rs` | none | `compute`, `scrub_notes` | a body names no ticket of another day on the word of a note |
| Standup file, `CORE/fileops.rs`, `CORE/format.rs` | one `.md` per filing date: AUTO blocks per host, a MANUAL region | `set_auto`, `add_manual`, `write_atomic`, `parse` | old text or new text, never a mix; nobody's region is lost |
| Scheduler runtime, `APP/scheduler_runtime.rs`, `SCH/cron.rs` | the schedule, the last-run record | `tick`, `run_due`, `is_due`, `record_run`, `set_cron`, `set_enabled`, `next_run` | no boundary is swallowed; the tick runs each once |
| Unit installer, `SCH/install.rs` | the plist, timer or task, and what is armed | `plan`, the three translations, `install`, `uninstall` | what is armed fires when the expression says, and is the saved schedule |
| Gathering, `APP/gather.rs` | a cache with a time to live | `gather_all`, `gather_one`, `write_cache` | a failing source leaves work out, never wrong work in |
| Provider chain, `APP/render.rs`, `APP/commands/llm.rs` | inferred health in memory, probed health on disk | `render_llm_outcome`, `attempt_plan`, `validate_render`, `record_provider_attempts`, `refresh_provider_health` | the order is followed, retries end, a skip rests on a recent failure, nobody is skipped for ever |
| Local models, `APP/commands/local_models.rs` | each model's file and `.part`, the selection, the built-in provider | download, cancel, delete, select | only a verified model is installed, a deleted one stays away, the two records agree |
| Git sync, `APP/git_ops.rs` | index, branch and remote of the dailies repository | `sync_pull`, `commit_push` | no conflict marker is committed; what is committed is pushed in the end |
| Regeneration, `APP/commands/regeneration.rs` | pending candidates that expire | `preview_regeneration`, `apply_regeneration` | a candidate is applied only to the text it was compared with |
| Run status, `APP/state.rs`, `APP/run_log.rs` | one status for the whole process | `set_state`, `set_percent`, `set_done`, `set_error` | the status shown is that of the run that is active |
| Notifications, `APP/notifications.rs` | sent keys of the last days | `notify_gui`, `notify_headless` | one notification per transition in six hours |

Everything else (data sources, usage probes, dependency installers, the process
runner, the frontend) reads foreign formats, does platform I/O, or shows state; it
is listed with its reason in `PROJECT.json`.

How they interact. A trigger (the button, the in-process tick, the system unit's
`--compile`, a session end) calls `run`, which takes the **lock**, pulls with **git
sync**, asks **filing** for its targets, and calls `compile_one` for each. That
gathers, consults the **sidecar** and the **hash** left by earlier runs, awaits the
**provider chain**, and hands the body to `compile_file`, which merges it with the
block read earlier (**accumulate**) and writes the **standup file**. Then git sync
commits, and the **scheduler** record is stamped. Several processes run the same
code: the GUI, with its button and its tick, and a headless compile. Only `run` and
the regeneration commands take the lock; `add_manual_item` does not.

What is hard: steps of two processes inside `acquire`; the block that is read before
an await of minutes and written after it; the day that changes in between; sources
that fail; a crash after any of four files is written; the self-heal rule that a
filled day is final; two writers of one temporary file; two machines that push; a
candidate that the user looks at for half an hour while the file changes; a record
stamped in the wrong order by a tick, a button and another process; a download that
is resumed, deleted and cut; evidence that is copied from one cache to the next.

## Modules

| Module | Models | Checked by | Proofs |
| --- | --- | --- | --- |
| `RunLock` | the lock, one action per file-system call | `RunLock`, `RunLock_exclusion` | `RunLock_proofs` |
| `Calendar` | weekdays, filing, windows, targets, as operators | through the next two | in `DailyRuns_proofs` |
| `StandupLedger` | the abstract specification of the pipeline | as `KeepsTheLedger` | in `DailyRuns_proofs` |
| `DailyRuns` | runs and compiles over several days, with failures | `DailyRuns`, `DailyRuns_forgets` | `DailyRuns_proofs` |
| `Bullets` | what `accumulate` does with lines, words and copies, as operators | through `CompileText` | in `DailyRuns_proofs` |
| `Provenance` | the tickets a compile may name, as operators | through `CompileText` | in `DailyRuns_proofs` |
| `CompileText` | the text behind the sets of `DailyRuns` | `DailyRuns` | in `DailyRuns_proofs` |
| `DefaultWeek` | `DailyRuns` under the schedule the application ships with | `DefaultWeek_next_business_day` | |
| `StandupFile` | one file, its writers and its regenerations, inodes and names | `StandupFile`, `StandupFile_lost_update` | `StandupFile_proofs` |
| `StandupEdits` | the abstract specification of a file's edits | as `EditsAreAtomic` | in `StandupFile_proofs` |
| `StandupText` | parse, render and the two edits over lines, as operators | through the next one | in `StandupFile_proofs` |
| `StandupLayout` | the lines behind the regions of `StandupFile` | `StandupFile` | in `StandupFile_proofs` |
| `SharedStandup` | the abstract specification of what is published | as `PublishesOwnBlock` | in `GitSync_proofs` |
| `GitSync` | machines that share a remote: pull, compile, commit, push | `GitSync`, `GitSync_repush` | `GitSync_proofs` |
| `Cron` | expressions, next runs and their translation into units, as operators | through the next one | |
| `Scheduler` | tick, unit, commands and manual runs over one lock and one record | `Scheduler` | `Scheduler_proofs` |
| `LocalModels` | downloads, deletes and selections of a model | `LocalModels` | `LocalModels_proofs` |
| `ProviderChain` | renders over the chain, and what is remembered of the failures | `ProviderChain` | `ProviderChain_proofs` |
| `Selections` | the places of a sequence that a condition keeps, in order | through the modules that use it | `Induction` |

`Selections` is what `ProviderChain` and `Bullets` share: `Selected(s, places)` is a filter as a
recursive function of its length. `Scheduler` extends `Cron`; `DefaultWeek` extends `DailyRuns`, which extends `Calendar`
and refines `StandupLedger`. `CompileText` composes it with `Bullets` and `Provenance`, and
`StandupLayout` composes `StandupFile` with `StandupText`. The others meet only through what one promises the next:
`Scheduler` and `DailyRuns` take the lock as `RunLock` shows it, `DailyRuns` takes the
outcome of the chain as a choice, `StandupFile` takes bodies as sets of work.

### RunLock

`owner` is the run that made the directory, `pidFile` and `age` what is in it.
`pc[r]` walks a run through `acquire`: `Mkdir`, then on `AlreadyExists` `ReadMeta`,
`Probe` (an awaited `kill -0`), `CheckAge`, and if the lock looks stale `Steal` and
`Recreate`; `Stamp` is `finish_acquire`, `Drop` the guard's destructor. A run that
is refused goes back to `idle` and may try again. `RemoveDir` works by path, as
`remove_dir_all` does, and sets the history variable `clobbered` when the directory
belonged to another live run. `Crash` kills all runs of a process; `Tick` advances
an age that saturates one step past the timeout.

* `RunLock` checks that mutual exclusion is lost only through such a removal
  (`OverlapNeedsClobber`), that no exit leaves a directory without a guard
  (`NoOrphanedLock`), and that a dead owner's directory goes in the end
  (`StaleLockReclaimed`). Bounds: three runs, two of them in one process that may
  die, so that a contender can be overtaken by two others; `StaleAfter = 1`
  distinguishes fresh, at the timeout, and past it.
* `RunLock_exclusion` shows that `lock.rs:5` does not hold even when no process
  dies and no run is slow (`PromptSpec` has neither `Crash` nor `Tick`).

Fairness: a live run is scheduled (weak fairness of its own steps: each has a
time-out of its own, so none can block for ever), time passes, and a refused
trigger is fired again by the next cron boundary, which is why `Mkdir` is among the
fair steps. The survivor that reclaims is the headless process, which in this
instance does not die.

### Calendar and DailyRuns

A day is an integer and day 0 a Monday. `DailyRuns` follows `run` and `compile_one`
step by step, in the code's order: `Begin` (configuration, today, targets, once),
per target `SkipFrozen`, `OpenWindow` or `SkipBeyond` (today is read again),
`Gather`, `SkipRegression`, `SkipUnchanged`, `ReadExisting`, one of the `Render`
actions, `Write`, `WriteSidecar`, `EnrichSidecar`, `PersistHash`, and at last
`EndRun`. An error in one target goes on to the next, as the loop does. Between any
two steps work may happen, midnight may pass, or the process may die.

The text of a standup is the set of the items it reports. `Covers` says which item a
line about another one counts as covering, which is all that `accumulate` looks at.
A deterministic body reports what was gathered; an accepted model body any part of
what it was shown, which is the gathered facts and the previous body. That a model
invents no work is an assumption here; the code's own check is on ticket numbers.

* `DailyRuns` has a commit on a Friday and a note on a Saturday, the two days on
  which windows, weekend and self-heal meet, both filing policies, all render modes,
  every failure, and a run that names its date. `NoBackdating`: whatever the
  interleaving, the file of a business day reports only work that the filing rule
  sends there. `HashMeansWritten`: the dirty check never skips a file that was not
  written. `FrozenIsFinal`: a filled block changes only in a run that was asked for
  that very file. `KeepsTheLedger` is refinement of `StandupLedger`: what a file
  reports is admissible, and disappears only when something covers it.
* `DailyRuns_forgets` shows what that "only when covered" costs.
* `DefaultWeek_next_business_day` runs from a Thursday to the Wednesday after with work
  on Friday, both weekend days and Monday, under `0 7-19 * * 1-5`: at least one run on
  every business day, none on a weekend, nothing fails. Under the default policy the
  weekend's work is in no file at all, because Friday's run has already filled Monday's
  file and self-heal finds it frozen.

`OnlyDates` of the run is a business day. A run that names a weekend date gets a
window that overlaps Monday's; `NoBackdating` therefore speaks of business days.

`CompileText` looks under the sets. A text is no part of a run's state, so its claims
range over every small text and are asked at the steps that handle one; TLC evaluates
each once.

* `Bullets` is `accumulate` on lines, which are the sequences of the words `sig` keeps.
  `NoBulletLost` counts copies: a previous bullet is kept as often as it was there unless
  a line of the new render says half of it, whatever else is re-injected.
  `CopiesDoNotGrow`: no run holds a bullet more often than the render or the file before
  it did. Bounds: two words, lines of up to three (half of three is not a whole number),
  bodies of up to two lines, headings among them. The instance's `Covers` is `Covered` of
  two bullets of which one covers the other.
* `Provenance` follows the tickets: what `local_git` asks git, `compute`, `scrub_notes`,
  `render_det` over what `compile_file` hands it, and `validate_render`.
  `NotesDoNotBackdate`: whatever was gathered and rendered, a body names no ticket because
  a note or the session digest does, if git has said that its commits are all on other days.
  Commits, GitHub and reviews may tell of one, and nothing scrubs the reviews; a ticket whose
  days git was not asked for, or did not give, is none the property speaks of.
  `NotedIsTold`, the other side: the scrub takes from the notes only what is told anyway or
  is known to belong to another day. Bounds: two tickets, one key inside the other; two
  lines of notes and one of the digest, which show every pair of reasons to keep or drop a
  ticket.

### StandupFile

Writers are compiles (of one host: the lock lets one at a time between
`ReadAutoBody` and its rename), `add_manual` calls, and regenerations. Each reads the
whole file, edits its region (`SetAuto`, `AddManual`) and goes through `Create`, `Fill`
and `Rename` on the one temporary name. Inodes are apart from names because a writer
keeps its descriptor while another truncates or renames what it opened. `WriteError`
is an I/O error that is returned to the caller, `Crash` the death of the process.
Nothing keeps `add_manual` from reading the file that another is about to replace, or
from truncating the temporary file that another has open, so both do. Two history
variables tell what came of it: `crossed` has the writers that were between their read
and their rename at one time, `misread` says that some write began from a file that was
left empty. `LockIsFree` takes the run lock as exclusive; `RunLock` shows when it is not.

A regeneration is two commands, each under the run lock. `Preview` notes the bytes of
the file and compiles a candidate elsewhere; it is then `shown` for as long as the user
likes (`Expire` ends it). `KeepCurrent` drops it; `Resolve` demands that the bytes are
still those, and takes the candidate, or any bullets of the two bodies. Then comes the
same `SetAuto` as for a compile, which reads the file once more. The candidate's file
goes only after the commit (`RemovePending`): a resolution that fails or dies before
leaves it, and the user may resolve it again. `dropped` is the work a user was shown
and left out.

* `StandupFile`: faults at every step, and an item that crosses what it likes.
  `NeverTorn`: the file is empty only through a crossed writer that has not written yet,
  or has died or failed before it did. `NoUpdateLost`: what an uncrossed writer was told is
  saved stays until a user who was shown it takes it off, whatever others cross later on
  (without the base check, an item compiled while the candidate was on the screen would
  be overwritten); a resolution that was crossed, and a write that began from a torn file,
  void the promise. `EditsAreAtomic` is refinement of `StandupEdits`: however long ago an
  uncrossed writer read, its edit happens at one instant, its rename, on the text that is
  there then, changes its own region only, and is reported if and only if it was made; a
  write that fails or dies has changed nothing. A writer that was crossed may leave
  anything (`Garble`), but an item is one of those that cross and at most one holds the
  lock (`Cross`). The other host's block is part of the text. Two compiles, a regeneration
  and an item, so that those that take the lock meet their own kind and the others, and
  each of them meets one that does not. Three inodes suffice: the file, the temporary one,
  and one that was renamed while still open; a writer that would need a fourth waits for
  one. Inodes and compiles are interchangeable, and symmetry is used.
* `StandupFile_lost_update`: when a compile and an item cross, the item that was reported
  saved is overwritten.

`OnlyManualsCross` and `PeerUntouched` are theorems without a run.

Deadlock is not checked in the first because every writer is done in the end.

`StandupLayout` looks under the regions, as `CompileText` does under the sets.
`StandupText` is the parser line by line and the two edits over what it returns.
`EditsKeepTheRest`: an edit of one region of a text that a union merge or a user has left
with regions twice, empty, in any order and with lines between them keeps what all the
regions of another host show, and the MANUAL region where there is one. Where regions of
one host show different things it keeps one of them whole, no mixture, which is less than
the documents promise (below); it never empties a host that showed something, nor gives
something to one that showed nothing.
`EditsAreStable`: writing the same body again changes no byte, so nothing is committed for
ever. Bounds: this host, a peer, MANUAL and loose lines, up to three of them, and bodies of up
to two lines, one text and the blank one, which tell apart a first body from a later, an
empty one from a filled, and a body from one with a blank in front; and no file at all.
The proofs need none of these bounds. A region without an end is left out:
the rest of the file becomes its body, MANUAL included.

### GitSync

Each machine has a working tree (`work`), a local branch (`head`), the remote's text
it is built on (`base`), and the two kinds of trouble a pull leaves: an index with
`unmerged` paths and a rebase stopped half way (`rebasing`, whose abort brings back
`saved`). A text is the version of every machine's block and whether conflict markers
are in it; because only a machine itself makes its block newer, git's three-way merge
keeps the newer of each (`Merge`). The MANUAL region is left out.

The steps are those of `sync_pull` (`PullFails` ... `AbortKilled`),
`ensure_gitattributes`, what the compile does to the file (`Render`, `RenderSame`,
`SkipCompile`), and `commit_push` (`RefuseCommit` ... `PushFails`) in the code's
order. Between any two of them the other machine may move, as there is no lock across
machines. What git does inside a call is taken from what the calls and the comments of
`git_ops.rs` rely on: a replayed commit or a popped stash may conflict without the
union rule, a push is taken only on top of the remote. `run_git` reports a killed call
as an empty answer, hence `InspectKilled` and `CheckKilled`. A regeneration commits
without pulling; a run without repo sync only writes. `UserResolves` is the user who
finishes a conflict by hand, keeping both sides.

* `GitSync`: no marker is published or committed (`NoMarkersPublished`); a push changes the
  block of its own machine only, and never back (`PublishesOwnBlock`, which is refinement
  of `SharedStandup`); the file on disk keeps the body rendered last
  (`LocalFileKept`), and no run leaves a rebase behind (`ConflictNeverStrands`). Two
  machines with two bodies each: one that is committed and one that is still only in
  the tree when the other machine pushes, which is what a conflict needs. The last two
  properties except a machine on which a call was killed, or the process died, between
  a conflict and its abort (`cut`); that case is a real weakness of the code: the abort
  of a later run resets the tree, and a body that an unsynced run wrote meanwhile is
  gone from it.
* `GitSync_repush`: after a push that failed, the next run, though every git call of
  it succeeds, pushes nothing when it has nothing new to commit.

### Cron and Scheduler

`Cron` has the expressions and their translation: `NextRun` walks minutes and jumps
over days as `next_run_spec` does, `WeeklyTimes` enumerates a week through it, `Plan`
accepts what is a grid, and `UnitTimes` says when a plist, an `OnCalendar` line with its
ranges, or a task with its repetition fires. The lengths of hour, day, month and year
are parameters, so that a model checker can walk whole weeks: the run has days of four
two-minute hours.

`Scheduler` puts around it what shares the lock and the record: the tick (`TickDue`,
then `run_due`'s ends), a manual run, the unit's process, which asks nobody whether a
run is due, and the two commands, whose reconciliation of the unit is one action per
awaited call, each of which may fail. `armed` is what the operating system fires on,
`unitFile` what it will read at the next login. A run that ends stamps the record with
the time it is, then `run_due` stamps it again with the time the tick began. The unit
reads its times on the local clock, `Offset` ahead of the UTC of the tick.

* `Scheduler`: `UnitIsFaithful` (the armed unit has exactly the week of its expression:
  no run more, none less, or it was refused), `NextRunIsFirst` (nothing is jumped
  over), `UnitTracksConfig` (a reconciliation that ran alone and without error leaves
  the saved schedule armed, or nothing, logins included), `InProcessOnce` (no tick finds
  a boundary that a tick has answered, although the record goes back and forth),
  `BoundaryServed` (a boundary that passed leads to a run). Three expressions: the
  shipped one in small, one with uneven hours, which a task cannot carry, and one with a
  day of the month or a weekday, which no unit can.

Bounds: from the last hour of a Friday's schedule to the end of it (`Start`, `End`),
with sleep of up to `Leap`; schedules change between runs, and a reconciliation ends
before the next run or the next minute; of two commands that overlap `set_enabled` is
the later; load and save of the configuration are one step. `Lossy` is off in the run: a
record that cannot be written makes the boundary due again, which both record properties
except. That Task Scheduler's repetition includes the hour at which its duration ends is
taken from the code. Fairness: the interval timer wakes the tick, a run ends, and
neither is every run a panic nor every free moment of the lock lost to others (strong
fairness of `TickDue`, `TickStarts`, `TickRunEnds`: the tick is retried every minute,
runs take minutes and come by the hour); each call of a reconciliation has a timeout.

### LocalModels

A file's content is its length, whether its bytes are the model's, and whether they are
synced. A download is the steps of `download_model`: `Begin` (the map of running
downloads, the offset), `Answer` (206, or 200 to a range), `Chunk` or `StopAtChunk`,
`Finish`, `Verify`, which reads the partial by name, and `Install`, a rename. A
descriptor follows the file it was opened on through a rename or a delete (`fd`).
`Delete` and `Select` are one action per file they touch, each of which may fail. `Quit` stops
everything, and after a power failure what was not synced may be wrong.

* `LocalModels`: a model's file is the model's (`InstalledIsVerified`); a download
  flagged by a delete brings nothing back once the delete has removed its partial
  (`DeletedStaysDeleted`); selection and provider agree after commands that ran alone
  and without error (`SelectionAgrees`); and a user who keeps trying gets the model or
  ends with a partial of the full length (`DownloadSettles`), which no retry gets past:
  its range starts at the end, the server answers 416, and only a delete helps.

Bounds: a model of two parts (so that a resumption is neither from the start nor from
the end), a second one to select, two calls so that a refused one overlaps, and
`MaxFaults` = 2 cancels, deletes, quits, failures and wrong chunks in all. One process. Fairness: the user
tries again, and a connection does not break each time before the same step.

### ProviderChain

`Begin` to `GiveUp` are a render: for each provider of `ChainOf` a skip (disabled,
unknown, or on health), or its channels in `Plans`, with a retry after a rate limit and
a validation that turns the attempt just recorded into a failure. `Record` draws the
inference from the attempts. A refresh asks providers concurrently (`Probe`, or
`Silent`, which falls back on the inference), and stores what it found when the last
has answered. Of a reading the model keeps its age, and only if it is one of the three
kinds that lead to a skip. `seen` is a history variable: how long ago an attempt or a
probe really found the provider dead.

* `ProviderChain`: the order is followed, nobody is passed over without a trace, and a
  success in the sidecar is the body that is used (`ChainIsFollowed`, against the
  configured list itself); a channel is asked twice at most (`RetriesAreBounded`); a
  skip rests on a failure of the last six hours, however often it was copied
  (`SkipsAreFounded`); a provider that cannot be probed is tried again and again
  (`SilentIsTriedAgain`: an inference must not renew itself). One provider that fails in every way
  and cannot be probed before one that can; an order with a repetition and an unknown
  id, a configuration without an order and without fallback, an override.

Bounds: `MaxAge` = 1 step for the six hours, so that a reading is fresh, at the limit or
gone; a render is over before its evidence is a step older. Failing writes of the cache
file are left out. Fairness: compiles come again, time passes, and the application is
not restarted in every render.

## What is proved

For every value of the constants, under the named assumptions of each module:

* `RunLock_proofs`: types, `NoOrphanedLock` and `OverlapNeedsClobber`, hence mutual
  exclusion as long as no live run's directory was removed. `NoOrphanedLock` is
  inductive together with the types; `OverlapNeedsClobber` needs in addition that a
  directory is made only when there is none, which is what `mkdir` gives.
* `Induction` has what the other modules need about data. The library's theorems on
  induction take an operator, which no backend here can instantiate; these take a set or a
  function instead: a set of naturals that has a least element (`Least`), a function whose
  values follow a step function (`IteratesNumbers`), how often a value occurs in a
  sequence (`Count...`), what `Selected` keeps and in which order (`Selects`,
  `SelectedKeeps`). All of it rests on the well-foundedness of the naturals, used for one
  set at a time.
* `DailyRuns_proofs`: of the calendar, that filing dates are business days; a business-day
  file claims a day exactly when the filing rule sends that day to it (so windows partition
  the calendar); today is always in the window of the first target; the self-heal target is
  never later. The step everything rests on is a closed form of the walk back over a
  weekend. Of the runs: types without further assumption; the others assume that a
  standup file can be read back (`Misreads = FALSE`). The inductive invariant
  `SafeInv` says of every stage what the target has in hand: gathered facts are
  admissible for the file, the previous body is still what is on disk (no other
  writer of this block, by the lock), the body about to be written is admissible, a
  self-heal slot that passed its gate is still empty, and a clean render on its way
  to `PersistHash` is on disk. From it follow `NoBackdating`, by the partition
  theorem, `HashMeansWritten`, `FrozenIsFinal` and the refinement `KeepsTheLedger`.
  Of the text, for any tickets, any keys inside other keys and any number of notes:
  `NotesDoNotBackdate` and `NotedIsTold`. An accepted body names only what is a fact;
  whatever else a deterministic body names survived the scrub, so git does not place it
  on another day only. Of the lines, for any words and lengths: `NoBulletLost` and
  `CopiesDoNotGrow`. The loop of `best_match` yields the largest overlap, which is at least
  half of a line just when some line holds half of it; and the copies of a bullet in what
  `accumulate` appends are all of those in the previous body or none.

* `GitSync_proofs`: types, and the four other properties of the run, for any number of
  machines, bodies and interruptions. `SafeInv` orders the copies of a file: remote
  below branch, branch below tree (or below what an abort restores), every version
  below what its machine rendered; that is why a push, which needs `base = remote`,
  can only add. `PublishedInv` bounds each tree from the other side: a machine has another
  one's block from the remote only, so it has none that is newer than what is there. What a
  push carries of another machine is therefore just what is published, whatever was merged,
  stashed or resolved by hand before; the rest of the refinement is that only pushes and
  renders move anything the others see. `KeptInv` follows the latest body through a conflict: it is in the
  tree, or in what the abort brings back, and a stopped rebase always has unmerged
  paths, so `InspectIndex` sends it to its abort.

* `StandupFile_proofs`: everything is for any number of writers and inodes, for writers that
  cross as they like, with faults at every step: no hypothesis on who overlaps whom. Types; `OnlyManualsCross`;
  `NeverTorn`; `NoUpdateLost`; the refinement `EditsAreAtomic`; `PeerUntouched`. The
  invariants build on each other. `LockInv`: one worker at a time, and of two writers
  between read and rename both are `crossed`. `FileInv`: an uncrossed writer owns the
  temporary file, which is empty or holds its draft, and its draft is the file with its own
  region replaced. `TornInv`: an inode that is empty is so because of a writer that emptied it
  (`EmptyIsEmptied`). `KeptInv`: while nothing was misread, every text that is
  in the file or may still come there, also by a crossed writer, has what is owed to
  those who were not crossed (`Owed`): a writer read it before it crossed, and edits only
  its own region. The base check is what makes that inductive for a regeneration. `PeerInv`
  says it of the other host's block. For the refinement every step but a rename leaves the
  text alone; a rename is the edit of its writer, or `Garble`. `Safe` puts them together:
  until an `add_manual` crosses somebody, no history of runs, failures and crashes
  empties the file or loses what was acknowledged.
  Of the lines, for any number of regions and lines: `EditsKeepTheRest` and
  `EditsAreStable`. The parser is a loop over the lines, so it reads a text put together of
  parts as it reads them one after the other (`RunParts`); what `render` writes is read back
  but for the blank lines a body begins with (`RenderIsRead`); and each edit changes what is
  read in one region. The second edit of the same body meets what the first one left.
* `LocalModels_proofs`: types and the three safety properties, for any number of models,
  calls and faults. `DownloadInv`: a model in the map has exactly one call behind it,
  which says how long and how right the partial is at each stage (`Staged`), unless a
  delete has taken it away. `SelectionInv` says how far each command has brought the two
  files when nothing has gone wrong.
* `ProviderChain_proofs`: types, and the three safety properties of the run. `FoundedInv`:
  every reading that is stored, inferred, or held by a refresh under way is at least as old
  as the last time the provider was found dead (`BackedBy`), which copying a reading with
  its date preserves and dating it anew would not. `RetryInv`: all attempts are at providers
  up to the one whose turn it is, and no channel left in its plan was tried, but for a rate
  limit that is to be tried again; it needs a chain without repetitions, which `ChainOf` is
  because it keeps the first place of every id. `FollowInv` compares the attempts with the
  configured list place by place, and gives `ChainIsFollowed`.
* `Scheduler_proofs`: types, and `UnitTracksConfig`, for any expressions and on all three
  platforms. `UnitInv`: as long as nothing went wrong, either no command is under way and what is
  armed and what a login would arm are the saved schedule (`Resting`), or one is, and
  each of its steps has the right file behind it and the right one before it
  (`Pursues`).
  `NextRunIsFirst`: the search of `cron.rs` is a recursive function of the instant it has
  reached. That such a function exists is shown by a witness in closed form; that it
  returns the first match, by the least distance to the limit at which it would not
  (`Least`). Nothing is jumped over
  because a day or an hour that fails its field fails it to its end.
  `InProcessOnce`: by `AnswerInv` the record, as long as none is lost, is never earlier
  than the last instant a tick has answered for, so the next search begins after it.
  `UnitIsFaithful`: the week that `install.rs` walks with the search is the set of times
  at which the expression matches; calendar units list it, a set that equals its grid of
  days, hours and minutes by cardinality is expanded to the same, and an even gap is
  accepted only when it repeats over the whole week. The walk needs a search that reaches
  over two weeks (`MaxSearchDays >= 14`; the code's is 1464, `cron.rs:22`).

Only model-checked: liveness (`StaleLockReclaimed`, `BoundaryServed`, `DownloadSettles`,
`SilentIsTriedAgain`), which is out of the prover's reach, and the properties of the runs
that are expected to fail. Every other property of a run is a theorem.

The assumptions on constants are what tells values apart (a blank file is no text, a
manual item is no work, `""` is no line with something on it, an id is not the name of a
region), and that bounds are numbers; none limits how many there are. Two theorems'
hypotheses go further and are stated in them: `Misreads = FALSE`, and the reach of the
search above.

## Where code and documents disagree

Five runs are expected to fail, each on a sentence of the repository: `lock.rs:5`
(two compiles never race), `anti-backdating.md:115` (no work is lost), `dates.rs:16`
(weekend work always lands in some file), `standup-file-format.md:66` (the MANUAL
region is never overwritten), `05-security.md:128` (a rejected push is retried by the
next run). `PROJECT.json` tells each story under "findings".

Met while modelling, without a run of their own:

* `gather.rs:536` and `docs/specs/pipeline.md:304` say that any `set_config` clears the
  gather cache; `clear_cache` is called by tests only.
* `install.rs:29` calls a unit that fires at the wrong time "far worse than refusing";
  the unit reads on the local clock what `cron.rs` and the tick evaluate in UTC, so the
  two fire at different instants of one schedule.
* `local_models.rs:622` deletes "final and partial files"; a download between its last
  chunk and its rename brings the model back when it renames between the two removals.
* `render.rs:413` skips nobody where "refusing it would replace a real attempt with
  silence"; an environment override with fallback enabled is a chain of one, and is
  skipped all the same.
* A full-length partial that was never verified is resumed from its end for ever
  (`DownloadSettles`), against the "resumable" of `local_models.rs:4`.
* `docs/specs/anti-backdating.md:178` drops a clause on a ticket that was committed on
  another day. On a day without a commit of the user `local_git.rs:84` returns before it
  asks for the days of tickets, so nothing is forbidden and the clause is kept; and
  accumulate then keeps it for good. `NotesDoNotBackdate` does not speak of such tickets.
* `docs/specs/pipeline.md:184` scrubs the conversation digest and the reviewed PRs (PRREV)
  of FORBIDDEN mentions. `pipeline.rs:105` scrubs only the digest: in the deterministic body a
  review may name a forbidden ticket. (A model's body that does is refused.) The model has it
  so (`Told` has the reviews), and `NotesDoNotBackdate` claims no more.
* The session digest is scrubbed of the forbidden tickets, but only notes make a ticket
  forbidden (`provenance.rs:132`): what the digest alone names may be backdated.
* `anti-backdating.md:64` compares tickets; `scrub.rs:21` looks for a key inside the line
  and finds `FIF-13` in `FIF-133`.
* `anti-backdating.md:181` keeps the note of a ticket in SKEW; that ticket is forbidden
  too (`provenance.rs:147`), so the note is dropped.
* A bullet without a significant word ("fix CI") is never covered (`textsim.rs:46`): every
  run that renders it again adds a copy. `CopiesDoNotGrow` leaves such bullets out.
* Of two MANUAL regions in a file the first is lost with the next edit (`format.rs:83`),
  although `standup.rs:33` calls it "never touched by auto-compile".
* Of two filled blocks of one host that differ the second is lost with the next edit
  (`format.rs:65`, whose test `collapse_duplicate_auto_blocks` asks for that);
  `docs/specs/standup-file-format.md:244` has them "merged by concatenating unique sections".
* `05-security.md:202` answers "File corruption on crash" with "Atomic write-then-rename".
  The temporary name is shared (`fileops.rs:14`): a compile may rename the file that an
  `add_manual` has just truncated, and the application may die there, which leaves the
  standup file empty. `NeverTorn` says that it takes such a crossing.

## Not modelled, and why

Of the reasons for which `acquire` fails, `TickRefused` has the busy lock; any other leaves the
record alone just the same. The months of `Cron` all have one length, as its years do.
Redaction, the regular expressions, the wording of a render, parsing of sources and
vendors' pages are text transformations without state; events and logs carry no property
here. Holidays do not exist in the code either. `DailyRuns` takes the lock for
granted, and `RunLock` shows when that is wrong. Reads of a standup file succeed
(the code takes any read error for a missing file).

The models therefore stand for a small share of the implementation's lines. About half
of the lines of the Rust files are their tests; of the rest, most describe data
(`commands/types.rs`, the wire types and their defaults), map a vendor's JSON or HTML to
it (`usage`, `sources`, the adapters), build prompts and units as text, or draw the
frontend. A definition for them would repeat the code and have no property to check.
What has state, or is run by more than one actor, is modelled, except for what the plan
lists.

## Plan

In order of what matters most to a user's standup:

1. `GatherCache`: refine the choice of sources that `DailyRuns` leaves open, with the
   cache's expiry against a configuration that changes.
2. Composition of `DailyRuns` with `StandupFile` (user edits, read errors, deleted
   files), and of two runs that overlap as `RunLock` permits.
3. Two compiles in a row over `CompileText`: a clause that a quiet day's render has kept
   stays after the days of its ticket are known.
4. `AppStatus`: the status is that of the run which holds the lock (a refused run
   reports its failure over it today, `pipeline_runner.rs:1300`).
5. Notifications (one per transition in six hours) and dependency installs (one at a
   time, with a cancel).

Proofs: an abstract specification of `RunLock` (a lock with a lease) and of `Scheduler`'s
record (a boundary is owed or answered), with the refinement of each.
