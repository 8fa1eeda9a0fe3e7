# Metewand: TLA+ verification project

Metewand runs benchmark experiments: it expands a manifest into execution
*slots*, runs worker processes for each slot, has the results evaluated
independently, and keeps every attempt and observation as immutable evidence in
an output directory that several processes may resume, concurrently and after
crashes. This directory models that system in TLA+, checks it with TLC on small
instances and proves its central safety properties with TLAPS for every
instance. Source paths below are relative to the repository's `src/` unless they
begin with `docs/` or are at its root.

## Inventory

| Component | State it keeps | Operations | Modelled in |
| --- | --- | --- | --- |
| Attempt lifecycle (`runtime/run_store/attempts.rs`, `runtime/run/attempt.rs`) | one row per attempt (state, revision, `updated_at_ns`), its leases, the slot's finalization claim | `reserve`, `advance`, `renew` (heartbeat thread), `begin_finalization`, `commit_finalization` | `RunStore` |
| Publication (`run_store/publisher.rs`, `publication.rs`) | staging directories with lock files and staging leases, `artifacts/` | `stage`, `publish_artifact`, `outcome_document`, `publish_finalization` | `RunStore` (locks, races), `Resume` (what survives a power failure) |
| Recovery (`run_store/recovery.rs`) | the pass: locked stages, orphan documents, the attempt it holds | `recover`, one attempt after another, quarantine | `RunStore`, `FreshSequence`, `Resume` |
| Registration (`run_store/coordination.rs`) | resolved runs, slots, observations, selections | `register_*`, `register_observation`, `slot_progress` | `Resume`, `RunStore` |
| Fresh sequences (`run_store/fresh.rs`) | members, per-attempt budget, dispositions of a repetition | `register_fresh`, `reserve_fresh_time`, `record_fresh_time`, `finish`, `progress` | `FreshSequence` |
| Run loop (`run.rs`, `run/selection.rs`) | schedule, batches, busy repetitions | filter, batch, reserve, execute, join, report | `FreshSequence`, `Resume` |
| Status and archives (`inspection.rs`, `core/archive/validation.rs`) | none | what the store is said to be in, what an archive accepts | `RunArchive`, `FreshReport` |
| Execution (`fixed_dataset_run*`, `run/profile.rs`) | the trajectory of one attempt | one-shot, buffered and streamed execution | `WorkerSlots` |
| Buffered collection (`buffered.rs`, `core/profile.rs`) | the trace a worker records | `start`, `record`, `finish`, `validate_buffer` | `BufferedTrace` |
| Worker process and session (`worker_process.rs`, `worker_session.rs`, `protocol/`) | request tracker, deadlines, pipes | launch, exchange, stream, reset, shutdown, discard | `WorkerSession` |
| Worker reuse (`worker_reuse.rs`) | the retained session and its key | run slot, warm up, reset, discard | `WorkerSlots` |
| Artifact cache (`artifact_store*.rs`, `dataset_materialization.rs`) | objects, catalog, roots, leases, pending deletions | materialize, lease, root, verify, collect | `ContentStore`, `ArtifactCache` |
| Store opening (`run_store/durable.rs`, `durability.rs`, `platform_fs.rs`) | the init lock, the schema version | probes, schema transaction | `Resume` |
| Planning (`core/planning.rs`, `identity.rs`, `records.rs`, `seed.rs`, `scheduling.rs`, `run/resolution.rs`) | none | pure functions | `Planning`, `PlanTables` |
| Manifests and schemas (`core/manifest*.rs`, `parameters.rs`, `schema.rs`, `compatibility.rs`, `profile.rs`) | none | pure functions | `ManifestExpansion` |
| Lock file and environments (`lockfile.rs`, `locked_uv.rs`, `source_bundle.rs`, `source_resolution.rs`) | `metewand.lock`, generations of environments, Nix roots | `lock`, `lock --check`, `run --locked` | `LockedRuns` |
| Export, authoring, CLI output, language packages | files | formatting and scaffolding | not modelled |

`PROJECT.json` lists every component with what is and is not modelled, and the
hazards (what a test would hardly reach) at their lines.

What is hard here: a heartbeat thread, an execution thread, recovery passes of
other processes and the wall clock interleave at transaction granularity; each
may die between any two transactions; evidence is first renamed into place and
only later recorded; time is sampled before a lock is obtained and may be set
back. Workers are processes nobody controls: they answer late, twice, wrongly or
never, and can write to what they were lent. The dataset cache and the prepared
environments are shared by commands that do not know of each other. And the
author edits the repository while all of this runs.

### How the modules fit together

- `RunArchive` EXTENDS `RunStore`, `FreshReport` EXTENDS `FreshSequence`: the
  read side as operators on the committed state of the write side.
- `RunStore` and `FreshSequence` are two views of one database. `RunStore` has
  every transaction, lock and rename of an attempt; `FreshSequence` coarsens the
  lifecycle and adds invocations, batches, budgets and decisions.
- `ArtifactCache` implements `ContentStore` (`KeepsItsPromise`).
- `WorkerSlots` EXTENDS `WorkerSession` (the lane composed with its three
  sessions and their workers) and `BufferedTrace`.
- `ManifestExpansion` → `Planning` → `PlanTables` → `Resume`, each EXTENDing the
  one before: decode, expand and identify; tabulate; run and resume.
- `LockedRuns` stands alone. `MC*` modules only give constants their values.

## `RunStore`: lifecycle, publication, recovery and selection

| Variable | Code |
| --- | --- |
| `clock` | real time; `Sampled` and `Current` are what `now()` may have returned |
| `row`, `lease`, `claim`, `selected`, `receipt` | tables `attempts`, `leases`, `finalization_claims`, `selected_observations`, column `final_artifact_id` |
| `stage` | a staging directory (`private`, `locked` by its publisher, `left`, `quarantined`) and its staging lease |
| `obs`, `published` | where an observation stands, outcome documents in `artifacts/` |
| `owner` | the `AttemptExecution` of an attempt: its program counter and the `OwnedAttempt` guard (revision, updated) |
| `rec`, `faults` | the recovery pass that is running, and how often one died |

A step is one SQLite write transaction, one namespace change or one lock
attempt. `Reserve`, `Advance`, `Renew`, `BeginFinalization`,
`CommitFinalization`, `CreateStage`/`LeaseStage`, `PublishObservation`,
`CommitArtifact`, `RegisterObservation`, `WriteOutcome`, `PublishOutcome` are
the operations of the same names; `Conclude` is the end of an execution that
claims nothing (`publish_failure`, a censored profile), `ObservationFails` an
observation that cannot be published, `Abort` the death of an owner at any
point. Recovery is `RecoverBegin`, then per attempt `RecoverTake`,
`RecoverJudge`, `RecoverImport` or `RecoverPublish`, `RecoverCommit`, with
`RecoverFails`, then `RecoverQuarantine` per stage and `RecoverEnd`;
`RecoverCrash` ends it anywhere.

The checks that only the SQL schema makes (unique index on accepted attempts,
triggers, insert-only tables) are deliberately not guards: the properties show
that the Rust code alone keeps them.

Abstractions: file contents are what the code compares (the embedded
coordination snapshot); listing stages, finding orphans and querying expired
attempts are one step, because recovery's exclusive coordination lock excludes
new stages meanwhile; recovery's own failure document is written and renamed in
one step; selection timestamps and buffer artifacts are left out; buffered and
streamed slots are both "profile" slots and differ in what the document of an
acceptance embeds (`Streams`); corruption of files by third parties is
not modelled; a heartbeat error after the commit shows as an owner that ends
`dead`. `fsync` is the subject of `Resume`.

| Property | Says |
| --- | --- |
| `TypeOK` | shape of the state |
| `OneAccepted` | at most one accepted attempt per slot |
| `ClaimHeldByFinalizer` | a claim is held by a finalizing attempt of its slot, with unreleased leases, and never beside an acceptance |
| `ReceiptDescribesRow` | a terminal row points at a published document with its own state, revision and finish time, which goes on describing the attempt's observations and, except for a stream's acceptance, the slot's selections |
| `SuccessIsEarned` | an accepted attempt has the observations and selections acceptance requires |
| `LoserSnapshotStable` | a failed or superseded attempt's document stays valid until its commit |
| `StageStaysWithPublisher` | recovery cannot take the stage of a publisher that is alive |
| `SelectionPermanent` | no step changes or removes a selection |
| `SoleSuccessNotOverruled` | recovery does not commit a failure over the only published outcome when it is a valid success |
| `EveryAttemptEnds`, `StagesResolved` | liveness |
| `SettledStoreArchivable` (`RunArchive`) | once every attempt has ended, the evidence validation of an archive accepts the store |
| `StatusMatchesRecovery` (`RunArchive`) | status asks for recovery of exactly the attempts a pass would take |

| Run | Instance | Shows |
| --- | --- | --- |
| `one_shot` | two attempts of a one-shot slot, lease 1, time 2 | the race for the claim, with expiry, death and recovery between |
| `clock` | one attempt of a one-shot, a buffered or a streamed slot, lease 2, time 3, samples stale by 1, clock set back by 1, one recovery crash, stages left after commits | clock hazards and fencing |
| `liveness` | one attempt of either kind, lease 1, one recovery crash, under `FairSpec` | every attempt ends, stages are resolved |
| `profile` | two attempts of a profile slot with two observations | selection from one trajectory, status and archive |
| `archive` | the instance of `one_shot` | violation, see the findings |

Two attempts are enough for the races: claims, selections and acceptance are
decided pairwise, and recovery treats attempts one by one. Lease 1 with time 2
lets a lease be live, expire and be observed expired by another process; lease 2
with time 3 adds a renewal. Revisions are bounded by `MaxRevision` in `Advance`
only; finalization and recovery go beyond it. `StatusMatchesRecovery` is checked
with exact clocks: with stale samples status may lag by the difference between
the claim's lease and the reservation.

Fairness: `WF(Tick)`, time passes; `WF(OwnerStep(a))`, an execution thread ends
or its process dies (every worker exchange has a deadline, see `LaneEnds`);
`WF(RecoverStep)`, somebody resumes the output directory again. Nothing is
assumed about the heartbeat or about winning a race.

## `FreshSequence`: budgets, decisions and the run loop

The points of a *repetition* share an active-time budget (`max-active-time`) and
a target decision. Several invocations, each with its schedule, lanes,
`--retry` and `--max-attempts`, work through the same repetitions, die, and
recover one another's attempts. The lifecycle is `RunStore`'s; here an owner is
fenced off once its lease has run out (`expired`), and a recovery pass takes
exactly such attempts.

| Variable | Code |
| --- | --- |
| `members`, `budget`, `disposition` | tables `fresh_members`, `fresh_budget`, `fresh_dispositions` |
| `row`, `claim`, `observed` | `attempts.state` (all phases before finalizing are `active`), `finalization_claims`, `observations.completion` |
| `expired` | unfinished attempts whose leases have run out |
| `doc` | a published outcome document with the embedded `snapshot` of the budget and the decision |
| `exec`, `run` | the execution thread of an attempt, the invocation a process is in |

An invocation is `Start`, the recovery pass (`RecoverTake`, `RecoverResolve`,
`RecoverEnd`), `RegisterFresh` and `FilterSlot` point by point, then per batch
`NextBatch`, `Reserve` for each lane and `Join`, and `FinishRun`. An execution is
`FailEarly` or `ReserveFreshTime`, `RecordFreshTime`, `ClassifyTimeout`,
`BeginFinalization`, `RegisterObservation`, `PublishOutcome` and
`CommitFinalization`; `Abort` is an owner that the store refuses, because its
lease is gone or because it stages during a recovery pass. `Crash` kills a
process, `Expire` lets a lease run out at any time, so no clock is needed.

Abstractions: stage creation, write and rename of an artifact are one step
(`RunStore` has them apart); every slot is a fresh point of one experiment;
starting an invocation while another one is recovering fails without effect and
is a disabled `Start`; a reservation attempt that errors for another reason
(a full disk, a busy database) is covered by `Crash`; times are naturals, and the
sum of a repetition's times is the number of its units of time (`Units`), which
is the form the proofs can reason about.

| Property | Says |
| --- | --- |
| `OneOwner` | a repetition has at most one unfinished attempt |
| `BudgetHeld` | what is reserved and spent never exceeds the limit, over retries, overruns and crashes |
| `DecidedPointsRest` | a point is never both accepted and disposed of, and nobody works on a disposed one |
| `CensoredDecides` | an attempt reported as censored has disposed of its point |
| `DecisionFinal` | what the report says of a decided repetition never changes |
| `RepetitionsEnd` | liveness: every repetition is brought to an end |
| `ProgressArchivable` (`FreshReport`) | the archive's recomputation of a sequence's status accepts every settled store |
| `StatusPredictsResume` (`FreshReport`) | a point that status calls pending or retryable is one a resume may reserve, and no other |

| Run | Instance | Shows |
| --- | --- | --- |
| `sequence` | two processes with `--retry`, one repetition of two points, limit 2, target, measured 1 or an overrun of 4 | reservation, decisions, budget and what is reported of them |
| `lanes` | one process (restarted after a crash), two repetitions of two points, two lanes, `--max-attempts` absent or 3 | batches, joining, and liveness under `FairSpec` |

Two points are the least with one before and one after a decision; three points
with retries exceed what TLC finishes in minutes, so the order of first attempts
over three points is not checked. Processes are interchangeable, and `sequence`
uses that symmetry; `lanes`, which checks liveness, does not. In `sequence`
nobody is killed: `Expire` and `Abort` already let owners be overtaken at every
step, and `lanes` adds the crash.

Fairness: threads and invocations proceed (`WF` of `Execute(a)` and
`Invoke(p)`; every exchange with a worker has a deadline and every lock is tried,
not waited for), somebody runs the command again (`WF` of `Start(p)`), and the
lease of a dead owner runs out (its heartbeat is gone). Nothing is assumed of
leases of live owners.

## `WorkerSession` and `WorkerSlots`: workers, exchanges and one lane

`WorkerSession` has, for each of the three roles a lane can have running (the
retained implementation worker, an implementation worker owned by one execution,
the evaluator), the host's session with its protocol thread, and the external
process with its two pipes. `Call` is `exchange`'s begin, `ThreadWrite` and
`ThreadRead` the protocol thread, `Receive` the end of an exchange with
correlation, decoding, the check for lateness and managed outputs, `TimesOut`
the limit passing while it waits; `Discard` kills and reaps. A worker answers a
request it has read with a well-formed or a malformed frame (`WorkerAnswers`),
repeats its last frame (`WorkerRepeats`), writes a frame nobody has asked for yet,
with the identifier of the pending request or of one of the next and a checkpoint
number of its choice (`WorkerWritesAhead`), or exits, at any time. `Unasked` says
which frames it may write ahead. A frame keeps the execution and method it was
written for, which the host never sees; a frame written ahead has neither.

`WorkerSlots` is one lane working through a plan (`run_slot_scoped`,
`run_workers`, the buffered and the streamed loop): the private dataset view,
eligibility of the retained worker, warm-ups, `reset_and_clear`, the timing
envelope, prepare, execute, checkpoints with decisions, hashing, evaluation and
the checks on the way to publication. Live workers may change the view and the
result tree between any two steps of the host (`ChangesView`, `ChangesTree`);
the result tree may also be restored to what it was (`tree.restored`).
A slot ends accepted, failed or censored: a profile without its target, or a
stream whose active time ran out (`ActiveTimeLimit`), is censored. `overrun` is
per execution: a warm-up stream whose terminal frame is late is accepted (see
the observations) and says nothing of the measured execution after it.

`BufferedTrace` has the collector and the host's validation as operators. A
metric is a number and reaching a level is `>=`; work is one counter; files and
rows are their sizes; `true` is one byte shorter than `false`; the manifest is
measured with its longest total and reason, as the code does. Header fields,
paths and file hashes are left out. The collector's observation limit is
unreachable for a validated policy (there are at most as many levels as
observations), so that branch has no effect.

| Property | Says |
| --- | --- |
| `AnswersTheRequest` | an answer the host acts on that was written for any request was written for the one it was waiting for, in the execution it is in; the only others are frames a worker made up before it was asked |
| `CleanWorker` | an execution starts in a process that carries nothing of another, unless that process answered what it was not asked, warmed up as its terms promise |
| `NothingLeftBehind` | between slots nothing lives but the retained worker |
| `DeadlineInScope` | the scientific deadline limits only calls of its own execution's timed scope |
| `PublishedAsJudged` | what is published is what was hashed, on an unchanged view, and what the evaluator read unless the tree was changed and restored around it |
| `NothingLatePublished` | no observation comes from an execution with an overrun exchange or deadline |
| `RecordingAccepted` | what the collector records, the host accepts |
| `LaneEnds` | the lane gets to the end of its plan, whatever workers do |

Run `worker`: two plans (two one-shot slots of different specifications on a
warmed worker; buffered, cold streamed, buffered), two pending frames, two
misbehaviours, which is what a change and its restoration take; a frame written
ahead counts for two (`AheadCost`), so that it is combined with answers and exits
but not with repetitions and changes. `Unasked` has acknowledgements, failures and
checkpoints for the pending and for the next request. Four profiles (roomy, tight,
fixed count, a reserve that is too small) reach every stop reason. Two frames are
enough for a stale one to be before the awaited one. Fairness: `WF` of the lane's own steps, of the protocol
threads and of time passing (`Elapses`); none of the workers. The code justifies
it because `discard` kills unconditionally and never waits for a worker's
consent.

## `ContentStore` and `ArtifactCache`: the dataset cache

`ContentStore` is the promise: an intact tree that somebody holds or has rooted
stays where it is, and a recipe is bound to one tree for good. `ArtifactCache`
is the code: processes look a recipe up under a read lease, construct and stage
a tree, publish it under the cache lock, bind the recipe, root, view and verify
it, and collect: intent, rename into `garbage/`, second record, removal,
forgetting. Processes die anywhere (their kernel locks go with them), trees are
damaged by third parties. `KeepsItsPromise` is the refinement, with the pins of
the abstraction mapped to the leases and roots of the code; `GarbageClaimed`
says that a collection that died never leaves garbage nobody claims,
`HolderNotWaiting` that no operation waits for the lock it holds itself (a lease
takes it when dropped). Run `cache`: two processes, two addresses, one recipe,
one root name; symmetric in processes and addresses. Two addresses let two
constructions of a recipe differ.

## `LockedRuns`: lock files, environments and locked runs

Commands `lock`, `lock --check` and `run --locked` over a working tree that is
edited at any point, also back to what it was. A read of the tree is one step,
two reads are two steps. The manifest is named by the backend of its one
environment; native dependency locks are part of the captured files; a digest is
the value it digests. uv environments are generations under a key with a lock, a
receipt and `current.json`; Nix outputs live in a store anybody may collect.

| Property | Says |
| --- | --- |
| `EnvironmentAsLocked` | a launched worker uses an environment built from exactly the tree its lock records |
| `SteadyRunAsLocked` | without edits during planning and comparison, everything a run launches is what was locked |
| `GenerationsShared` | an undamaged complete generation is the current one, and `current.json` never names an incomplete one |
| `OutputsStayRooted` | nothing about to be launched or recorded can be collected |

Run `locked`: two processes, two contents, both backends, two edits (an edit and
its undoing), three commands, three generations, one damage; symmetric in
processes and contents. Deadlock is not checked: users may stop giving commands.

## `ManifestExpansion`, `Planning`, `PlanTables`: from a manifest to a schedule

`ManifestExpansion` decodes and checks a manifest (bindings, implementations,
profiles and their schedules, policies, parameter axes, grids and cases, schema
documents with identifiers and references, compatibility, the repository's
checks). `Planning` gives definitions their identities, derives seeds, builds
the logical plan, selects, resolves it against a *world* (artifact, host,
applicability) and orders it. A host has an operating system, an architecture,
the digest of the program that workers run, the libraries it loads and the lock's
evidence; `fingerprint` keeps of it what `run/resolution.rs:1525` does, which for a
local environment is the first three, with `dependency_closure` null. `PlanTables` does so for every
manifest, world and selection of the instance once, numbers the identities and
puts reference definitions beside them that read the manifest and the world, not
identities:
`Work` (the `Job` a worker is given, and what it measures) and `Promised`,
`Owed`, `Total`, `Covered`.

Abstractions: an identity is the record it digests, so equal identities mean
equal records; digests are compared through an arbitrary injection `Shuffle`; a
schema document is the names it admits and its subschemas by the keywords that
lead to them, and a document admits its own names and those of what it reaches
(relative URIs and percent encoding are tagged names); control schemas are sets of values; schedule
arithmetic is on integers; nested objects are flattened; errors are not told
apart.

## `Resume`: run, edit, resume

One process at a time uses an output directory on one of several file systems:
it creates and locks it, probes it (locks, record locks, rename, SQLite, no
network file system), opens the database and checks or writes its schema,
recovers, registers and executes slot by slot, publishing each directory by
populating, synchronising, marking, renaming and synchronising the parent, and
only then committing a row: for an observation first that of its directory
(`CommitArtifact`), then its own. Recovery synchronises every complete observation
directory that has no row and gives it one (`ImportObservation`, which is
`find_orphans`), then imports complete outcomes and interrupts the other
attempts. `Crash` ends the process, `PowerLoss` also takes
what was not synchronised. Between invocations the manifest is edited or the
world changes.

Abstractions: leases have expired by the next start and slots run one after the
other (`RunStore` has the rest); SQLite commits are durable; the init lock is
free; `--max-attempts` is `Stop` at any time; fresh points are registered in
schedule order and their dispositions left to `FreshSequence`; platform
differences are left out. That a prepared directory already exists at its
destination is not reachable on the run path.

| Property | Says |
| --- | --- |
| `ReusedWorkIsSame` | a result is reused only for the work it came from, as far as the manifest, the data, the program and the lock say what the work is; not the libraries of a local program, nor the hardware |
| `CoveredOnce` | a schedule has every observation slot of the selection exactly once, a measurement those of one repetition |
| `OrderStable` | two slots of a randomized experiment keep their order whatever is added, removed or selected |
| `ReferencesDurable` | every directory a committed row names is complete after a crash or a power failure, the rows that recovery commits for directories it finds included |
| `SlotsOwnObservations` | a registered slot owns the observations it fills; violated, see the findings |

Run `resume`: nine manifests (reordered, edited source, moved environment,
widened shared schema, grid beside a default experiment, buffered, fresh and
streamed, two equal cases, which is refused), four worlds (another program, other
libraries, other data), three selections,
six volumes, a directory that is absent or of a newer program, one edit, two
invocations, two attempts, two faults: 2.7 million states. The first invocation finds
one of two worlds (`FirstWorlds`), a later one any of the four. One edit and two
invocations are what the properties relate. `renamed` renames the experiment.
Deadlock is not checked: users may stop.

## Findings

- `archive`: `docs/guide/authoring/running.md:372` says that an archive can be
  made once every started attempt has finished. A one-shot attempt selects its
  observation before its terminal transaction; if its leases run out in between,
  recovery fails it, the selection stays, and archive validation refuses the
  store for good. Fresh points and profiles do not select there.
- `renamed`: the identity of an attempt slot contains a priority derived from
  the benchmark's and experiment's names, that of an observation slot does not;
  after a renaming (or with two experiments that differ in name only)
  `ON CONFLICT(observation_slot_id) DO NOTHING` leaves the new slots without
  observation slots, and they fail at every retry.

Observations made while modelling, without a run of their own:

- A censored outcome embeds the slot's selections, so a concurrent winner makes
  its commit refused (`publisher.rs:380` and the test at 491 speak of
  non-accepted attempts). `--retry` may start an attempt beside an active one
  (`run.rs:301`, `docs/guide/authoring/running.md:296`). A recovery pass makes a
  live owner that stages meanwhile fail with `Busy` (`recovery.rs:509`, and the
  comment at 73).
- The document of an accepted stream embeds its observations as unselected,
  although the same commit selects them: `publisher.rs:393` lists buffered and
  fresh observations only. No reader compares the two.
- A terminal stream response is not checked against the limit again after it is
  received; a slot without reuse leaves the retained worker alive; a failed
  private view discards the retained worker on the profile path only
  (`run.rs:580`); `connect_with_deadline` selects a reported preparation
  capability whatever the role (`protocol/messages.rs:1707`).
- Changing a private dataset and restoring it between two checks cannot be
  noticed, and neither can a result tree that a live worker changes while the
  evaluator reads it and restores before `verify_result_tree`
  (`fixed_dataset_run.rs:632`, `fixed_dataset_run/buffered.rs:313`,
  `fixed_dataset_run/streaming.rs:295`): what is published is then what was hashed
  and not what was judged. `PublishedAsJudged` names that case.
- Identifiers count up from zero and a checkpoint's number is the next one, so a
  worker can write the answer to a later request or decision before it is made,
  and the host takes it when it comes to ask (`protocol/messages.rs:1811`,
  `worker_session/streaming.rs:198`): checkpoint *n + 1* before decision *n*, or
  `ok` for a reset that the process has not read. `AnswersTheRequest` and
  `CleanWorker` leave that case out by name.
- A stream whose warm-up runs out of active time is recorded as censored by the
  active-time limit, with no observations, like a measured execution
  (`run/profile.rs:279`). The controls of a worker are not verified between a
  checkpoint and the publication of its observation, only before the decision.
- A one-shot result tree is validated before it is hashed
  (`fixed_dataset_run.rs:608`), so a live worker may have an unvalidated tree
  hashed and judged. Disagreement of a buffered metric fails the slot after its
  observation was handed on (`fixed_dataset_run/buffered.rs:386`).
- `CONTRIBUTING.md:417` says that collection requires explicit targets; without
  any it collects everything unprotected. A run roots only its dataset. A tree
  damaged between its validation and its rename, followed by a crash, leaves an
  intent with bad garbage on which later collections fail.
  `quarantine_abandoned_leases` has no caller.
- `run --locked` compares sources on disk and not the manifest it read earlier
  (`lockfile.rs:864`); with four well-timed edits it could run another bundle
  than the locked one, though never another than it planned. Nix preparation
  reads `flake.lock` from the repository and not from the snapshot
  (`lockfile.rs:564`). An installed uv environment is verified once per run. A
  lock made during an edit may record the old definition with the new source and
  is then refused.
- `ComparisonBlock.measurement_index` is documented as a repetition
  (`core/scheduling.rs:24`), but is a multiple of `max-observations` for
  buffered profiles (`run/resolution.rs:1023`), so randomized blocks mix
  repetitions where buffered and other deliveries share an experiment. Duplicate
  experiment names are not refused.
- The fingerprint of a local environment has no dependency closure
  (`run/resolution.rs:1525`): after an upgrade of the libraries that a program
  loads, or on another machine with the same program, `--resume` reuses what was
  measured before. `docs/design.md:209` disclaims it. In run `resume` this is the
  world `relinked`.
- A crash between opening the database and the schema transaction leaves a
  version-0 database that `--resume` initialises as version 1, in which a profile
  can never be registered; a crash before the database exists leaves a directory
  neither a new run nor a resume accepts. Both fail closed.

## Proofs

Eight modules of proofs, each beside its component. All theorems hold for every
value of the constants the named assumptions allow (numbers of processes,
attempts, edits, frames and misbehaviours included); the assumptions are shapes
the code guarantees (a lease is positive, warm-ups need reuse, a plan has slots)
and the distinctness of `None` from what it stands beside.

| Module | Theorems |
| --- | --- |
| `RunStore_proofs` | `TypeCorrect`, `ClaimsAreHeld`, `AcceptedOnce`, `SelectionsArePermanent` |
| `RunStoreOutcomes_proofs` | `StagesStayWithPublishers`, `LosersPublishInPeace`, `SuccessesAreEarned`, `SoleSuccessesStand` |
| `RunArchive_proofs` | `ReceiptsDescribeRows`, `StatusesMatchRecovery`, `ProfilesAreArchivable`, `OnlyLosersSpoilArchives` |
| `FreshSequence_proofs` | `SequenceHasOneOwner`, `DecidedPointsAreAtRest`, `BudgetIsHeld`, `CensoringDecides`, `DecisionsAreFinal`, `StatusesPredictResumes`, `ProgressIsArchivable` |
| `ArtifactCache_proofs` | `GarbageIsClaimed`, `LockHeldWhereUsed`, `CacheKeepsItsPromise` |
| `LockedRuns_proofs` | `EnvironmentsAsLocked`, `SteadyRunsAsLocked`, `GenerationsAreShared`, `OutputsAreRooted` |
| `WorkerSlots_proofs` | `AnswersAreCorrelated`, `WorkersAreClean`, `NoProcessIsLeftBehind`, `DeadlinesStayInScope`, `PublicationsAreJudged`, `NothingLateIsPublished` |
| `Resume_proofs` | `ReferencesAreDurable`, `ReuseFollowsIdentities`, `SlotsIdentifyJobs`, `SlotsIdentifyPositions`, `ChunksAgree` |

`RunStore_proofs` (`StoreAssumption`, `NoneAssumption`). `TypeInv` is `TypeOK`
and that the document in recovery's hands is a failure of the attempt it works
on. `OneAccepted` alone is not inductive: an attempt is accepted only while it
holds the claim, so the induction is on `ClaimInv`, which adds that a claim is
held by a finalizing attempt and excludes an acceptance.

`RunStoreOutcomes_proofs` extends it with what is published. Its `IInv` follows
an attempt from the document its owner writes to its receipt. The heart is
`Standing`: while an attempt is unfinished, a document that calls it accepted is
evidence recovery would accept, because its attempt holds the claim, and with
the claim taken nobody else of the slot selects an observation or moves the row.
From there: an owner commits what it wrote (`OwnerWrote`), a receipt describes
its row (`Described`), a success has its evidence (`Earned`), and recovery, which
judges by the documents it listed while it holds the exclusive coordination lock
(`StageInv`, `RecoveryInv`), overrules a success only where a second document
contests it.

`RunArchive_proofs` extends that with what is read (`ExpiryAssumption`: `None` is
no time). `ArchiveInv` says that an attempt's observations are its slot's, that an
accepted one has some and that the receipt of a finished one lists them all
(`Measured`), that the owner of a profile stores none once it has its plan
(`Planned`), and that a profile is selected in the transaction that accepts it
(`SelectedWithAcceptance`). So the document of an accepted stream, which names the
selections it finds, names none (`StreamRecords`): with `Described` this is
`ReceiptsDescribeRows`. And a settled store of profiles can be archived
(`ProfilesAreArchivable`), and any settled store can unless a one-shot point was
selected by an attempt that was not accepted: `OnlyLosersSpoilArchives` makes the
finding of run `archive` exact. `StatusesMatchRecovery` is about exact clocks,
like the property: status never reads the claim's lease, and is right because
`begin_finalization` and `renew` keep it at least as long as the reservation
(`Punctual`, with the times each process still carries).

`FreshSequence_proofs` (`SequenceAssumption`). Neither of the first two theorems is inductive: a
terminal transaction of an attempt that is already finished would break the
second, and a document naming an unfinished state the first. `IInv` adds that
plans and documents name outcomes (`PlansMade`, `DocumentsTerminal`), that
recovery passes exclude each other (`OnePass`) and that what a pass has taken
stays unfinished because its owner is fenced off (`HeldUnfinished`).

Its second part is about the account. `Ledger` says that nothing
is held for an attempt before its time is reserved (`Untouched`), that no charge
exceeds its reservation (`Books`), that an owner which found the budget used up
stays right about it because it is the only spender (`CensoredInTruth`), that a
point is tried in order and accepted once, and that a budget which is used up
leaves no point open (`UsedUpDecided`). The last one is what makes a reported
decision final and a status trustworthy, and it is not inductive alone: the
transaction that disposes of the open points reaches only those registered, so
every point of a repetition must be registered before any is tried
(`WholeSequences`). That rests on how an invocation walks through its schedule,
interrupted anywhere by others (`Walks`). Sums are cardinalities: `TallyStep`
says what changes when one attempt's units do.

`ArtifactCache_proofs` (`CacheAssumption`). Everything rests on the cache lock,
which is held exactly at the locked steps (`LockWhereUsed`). Leases and roots
only appear while nobody has it, so what a collection found unprotected stays so
until its last target (`TargetsFree`), while whoever holds a tree has had a lease
on it since before it saw the tree (`LeaseBehindHold`). `CollectionProgress` and
`ClaimedAlways` relate `gc_pending` and `garbage/` for each step a collection may
die at. The refinement of `ContentStore` shows for each action that it is a step
of the promise or a stutter under the mapping of pins to leases and roots.

`LockedRuns_proofs` (`LockedRunsAssumption`). `Known` follows a command from step
to step: what it has read, what its lock record says of the environment
(`EnvMade`), what it has pinned. Generations only gain content (`Grow`), so a
record that was true stays true; a damaged generation loses `intact`, which no
record promises.

`WorkerSlots_proofs` (`SessionAssumption`, `PolicyAssumption`,
`PlansAssumption`). `Session` says of one host session and its worker, without
the lane, that no frame on its way that was written for a request could be taken
for an answer to the pending one unless it is one: request identifiers only grow,
and within a stream the sequence numbers tell frames apart; all other frames come
from a worker that is marked as having written ahead (`Correlated`). The rest of `IInv` ties sessions to the lane: what was asked
(`Placed`), when a deadline is set (`Timed`), which processes may be left
(`Remaining`), what a process remembers (`Clean`, `Warm`), what the evaluator saw
of a tree that was never restored (`Judged`), and that an execution that overran can no longer publish
(`Doomed`). The steps of a session and a worker are instances of one effect,
`Exchange`; those of the lane begin an exchange, act on its answer, or move
between executions.

`Resume_proofs` needs no assumption of its own for its first theorem, which is for
every number of edits, runs, attempts and faults. `ReferencesDurable` is not
inductive: a power failure may take what is complete but not synchronised.
`DurableInv` says that what a row names is complete *and* synchronised, contents
and entry (`NamedAreDurable`), that the directory being published is named by no
row (`NothingNamesIt`), and what each step of the publication has secured
(`Progress`); a power failure then only takes what no row names. That a complete
directory is durable once recovery has synchronised it is one lemma
(`Synchronizes`) for both imports.

`ReusedWorkIsSame` is shown in two halves. `ReuseFollowsIdentities` is the
dynamic one: if a slot stands for one work in all plans (`SlotsNameOneWork`),
nothing that is reused came from another work (with `ResumeAssumption`: the first
world is one of the worlds), since an attempt is filed under
the slot and the work of one position of some plan (`HonestInv`, `PlanInv`) and
keeps both. `SlotsIdentifyJobs` is the static one: for any two manifests and
worlds, measured slots with equal identities have equal jobs. A job has the
operating system, the architecture and the program, or the evidence of the lock,
and not the libraries of a local program. Its hypothesis
`WellDefined` is what decoding leaves of the definitions a candidate names. What
lies between the two is that `PlanTables` numbers identities by a fold and that
schedules are flattened and sorted, which is induction over data: TLC evaluates
it on the instance, where `SlotsNameOneWork` and `WellDefined` hold.
Likewise `SlotsIdentifyPositions` (equal identities have equal block, round and
priority, all that `Before` compares) is the core of `OrderStable`, and
`ChunksAgree` that of `CoveredOnce`: the slot `plan_specification` makes for every
step-th observation is filled by `resolve_candidate` with exactly the chunk of
`preselect` that begins there, for every delivery and number of repetitions.

In every module one lemma per action shows that it preserves the invariant;
facts about record updates are lemmas of their own.

Only model-checked:

- liveness (`EveryAttemptEnds`, `StagesResolved`, `RepetitionsEnd`, `LaneEnds`)
  and `HolderNotWaiting`, which speaks of enabledness: both out of the prover's
  reach;
- `RecordingAccepted`, which is about folds over a trace: induction over data;
- of `ReusedWorkIsSame`, `CoveredOnce` and `OrderStable`, what flattening, sorting
  and numbering compute: induction over data as well (their cores are theorems,
  see above);
- `SettledStoreArchivable` as it stands holds for profiles only (see the
  findings); `OnlyLosersSpoilArchives` says when it holds in general.

## Plan

Done: every component of the inventory's upper part, and the proofs above. Left:
archive extraction and its limits, `explain`, the transport over a socket and the
draining of logs.

## Not modelled

Export, authoring, CLI output and the language packages: formatting and
scaffolding without state, and one protocol mirrored in other languages. YAML,
compact declarations and reference cases of manifests; the rendering of status
and `explain`; extraction limits of archives; what uv, Nix and source downloads
do (a choice of their results); log draining, resource accounting and the socket
transport of workers; Windows variants of locks, renames and synchronisation.
Corruption of the run store's files by third parties is not modelled; damage to
cached trees and environments is.
