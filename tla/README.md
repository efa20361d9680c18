# Verification of the Harbor control plane of FCP2

FCP2 turns financial workbooks into reinforcement-learning tasks. A workbook passes a
pipeline of gates (source, segmentation, research, normalization, environment, disclosure,
naturalization, verification, dialogue), each judged by a validator of its own, and is then
published as an immutable release. Most of the code is sequential analysis of spreadsheets.
What coordinates it is not: agent processes, guarded subprocesses, an operator and a
publication coordinator share files under `flock`, expire each other's leases, die and are
restarted; a fleet of remote workers claims workbooks and calls models under a central
ledger, over a network that loses and delays requests. These control planes are what the
modules specify.

All paths below are relative to `src/`.

## 1. Inventory

| Component | State it keeps | Operations | Talks to |
|---|---|---|---|
| Workbook tracker (`scripts/batch/harbor_tracker.py`, `harbor_tracker_lifecycle.py`) | one JSON document per workbook: revision, execution state, leases, hand-off history | create, guarded compare-and-swap, acquire, renew, release, replace_expired | everybody, through the file and its `.lock` |
| Lease takeover (`harbor_lease_takeover.py`, `harbor_pause_recovery.py`, `harbor_continuation_allowance.py`) | proof files, slot and worker locks | prove an owner stopped, replace its lease | tracker |
| Lane pipeline (`harbor_completed_lanes.py`, `harbor_lane_notes.py`, `harbor_failure_snapshot.py`, `harbor_ready_transitions.py`) | lane states, bindings, confidence, current failure, archives | complete, record_failure, snapshot_failure, begin_repair, clear, resume, enqueue, promoted | tracker, owning validators |
| Agent notes and their journal (same files) | notes text, one directory per transaction, completion markers | prepare, two replacements, marker, three recoveries | tracker |
| Release store (`xl_release_publication.py`, `scripts/qualified_publication.py`) | `current-release.json`, immutable releases, legacy snapshot, compatibility copy | freeze, publish, publish_or_resume, materialize | coordinator, generations |
| Publication coordinator (`scripts/harbor_publish.py`) | a journal of receipts (intent, acquisition, task, release intent, release, output, promotion, lease releases, result) | fresh run, resume, acquire, publish, deliver, promote, release leases | tracker, notes, release store, guardian |
| Guarded subprocess (`scripts/batch/process_guardian.py`, `hardened_runner.py`) | processes, three pipes, an inherited lock | arm, launch, terminate, disarm | every runner |
| Ready batch (`hardened_runner.py`) | ready records, ledger | convert_and_publish, run_ready_batch, reconcile | guarded subprocess |
| Fleet coordinator (`scripts/fleet/coordinator.py`) | one SQLite file: workbooks, claims, retired claims, operations, model policy, author slots, extensions, quarantines, capacities | enroll, claim, heartbeat, finish, begin, end, reconcile, abandon, policies and exceptions; a sweep of expired leases in front of each | fleet clients |
| Fleet clients (`scripts/fleet/worker.py`, `model_gate.py`, `publish.py`, `heartbeat_reconciliation.py`) | a controller and a guarded child per job, intents and outcomes of model calls | execute, slot, controlled, beat | coordinator, provider, guardian |
| Fleet administration (`scripts/fleet/pool_v5.py`, `takeover_control.py`, `coordinator_upgrade.py`, and many scripts for one workbook) | evidence files | pools, takeovers, continuations, upgrades | coordinator |
| Source intake, health, recalculation, inventory (`xl_source_*.py`, `xl_inventory_approval.py`) | reports | sequential | source gate |
| Source and segmentation generations (`xl_source_publication.py`, `xl_seg/publication.py`) | generations behind a pointer | publish, resolve | gates, release store |
| Workbook graph and segmentation (`xl_ast_graph.py`, `xl_segment.py`, `xl_seg/`) | none shared | pure | segmentation gate |
| Normalization, masking, tool environment (`xl_variable_source_audit.py`, `gen_normalizer.py`, `mcp_env/`) | none shared | pure | environment gate |
| Packaging, grader (`xl_output_task.py`, `grader/`) | none shared | pure | release store |
| Finalization and retention (`scripts/harbor_finalize.py`, `harbor_retention.py`) | verification package, retained artifacts | package, verify, delete | tracker, release store |
| Slots and recovery worker (`scripts/harbor_slot_*.py`, `scripts/batch/recovery_worker.py`) | slot locks, admissions | admit, retire, recover | tracker, takeover |

What is hard in this code: every mutation is a read-check-replace of files with crashes
between any two of them; leases expire on a wall clock that may be set back; a proof that
an owner is stopped must hold until the takeover is committed; two files (tracker and
notes) are replaced one after the other; the release pointer is read outside its lock
before it is compared under it; a coordinator that died must tell its own half-recorded
change from a foreign one; a lock is inherited by a process that outlives the one that took
it; a request to the ledger may be served after its sender gave up or died, and what a
provider was asked cannot be taken back. `PROJECT.json` lists each hazard at its line with
the properties that cover it.

What makes each component correct, in a sentence:

- tracker: a token that was released or taken over changes nothing, a running owner is never
  taken over, terminal means terminal, and the document always passes its own validation;
- pipeline: no lane stays passed against artifacts that were replaced, only fully qualified
  trackers are queued, and a started repair can be finished;
- notes: an interruption is visible as a pending entry, can be completed, and completing it
  never undoes a later write;
- release store: a request becomes current at most once, only as the successor of what it
  was qualified against, and its interruption is not a reason to refuse it, but for two
  replacements that cannot be taken up in their middle (below);
- publication coordinator: a tracker is promoted only over a delivered, current release, a
  death anywhere is resumed to the result, and what is refused is refused for a cause;
- guardian: no command works unguarded, and no two commands of one workbook overlap;
- fleet ledger: an effect that may still happen stays counted and keeps its workbook,
  nothing is told to execute twice, and unknown effects stop new calls but inside their
  quarantine;
- fleet clients: what really runs is what the ledger counts, and every job and every claim
  comes to an end.

## 2. Modules

| Module | Models | Checked with | Proved in |
|---|---|---|---|
| `TrackerLifecycle` | abstract: what the tracker of a workbook promises | by refinement | |
| `TrackerLeases` | tracker revision, leases, history, takeover | `MCTrackerLeases` | `TrackerLeases_proofs` |
| `LanePipeline` | gates, failure, repair, readiness | `MCLanePipeline` | `LanePipeline_proofs` |
| `NotesTransactions` | tracker and notes pair, journal, recovery | `MCNotesTransactions` | `NotesTransactions_proofs` |
| `ReleasePointer` | abstract: what a release store promises | by refinement | |
| `ReleaseStore` | pointer, releases, snapshot, output, requests | `MCReleaseStore` | `ReleaseStore_proofs` |
| `HarborPublication` | one publication: receipts, leases, release, promotion | itself | `HarborPublication_proofs` |
| `ProcessGuardian` | controller, guardian, launcher, lock | `MCProcessGuardian` | `ProcessGuardian_proofs` |
| `WorkbookCustody` | abstract: what the ledger promises about one custodian per workbook and its effects | by refinement | |
| `FleetCoordinator` | the ledger and every call of it | `MCFleetCoordinator` | `FleetCoordinator_proofs` |
| `FleetClients` | controllers, children, provider and requests over the ledger (extends `FleetCoordinator`) | `MCFleetClients` | `FleetClients_proofs` |

### TrackerLeases

`cas_mutate` and `lease_operation` take the lock, compare revision and hash, check the
lease, build the document and replace the file if a second reading of the clock is before
the deadline. An operation is two steps: `Admit` (all checks, the lock is held in `op`) and
`Commit`; in between only the clock moves and processes die. `CommitUnacknowledged` is an
exception after `os.replace`: the write stands, the caller was not told. `Abort` is any
exception before it. `current` are the processes that read the tracker as it is now (any other
one is refused by the comparison of revision and hash), and `known[w]` the tokens a process
remembers, also across its restart, which makes stale tokens an ordinary input. `alive` is
the set of processes whose slot and worker locks are held; a takeover holds those of the
old owner until it commits, which is the guard of `Restart`. A lease is named by an argument
of the call, so that a release may be asked for by another process than its owner, with the
token of the tracker (`ReleaseFor`). Three callers do it, all on a tracker whose work is over
(`Ended`): the coordinator of a publication, with the worker's lease of the promoted tracker
(`harbor_publish.py:352-355`), the root that stopped a worker (`release_stopped`,
`harbor_ready_transitions.py:294`), and the finalization after the publisher's death
(`harbor_publication_finalize.py:97-117`). A lease that has not expired is released so whether
its owner still runs or not, as in the code; an expired one needs the proof that the owner is
stopped, as a takeover does, and `Restart` waits for both (`Displaces`).
`HistoryBinds` is the replay of `_validate_lifecycle`. A revision stands for the bytes of
that revision.

`TrackerLifecycle` is the same document without owners, clocks, tokens, locks or processes:
an execution state, a revision, and for each kind of lease the revision in which it was granted.
`Lifecycle` maps the state to it, and `KeepsLifecycle` says that every commit is one of its
steps and everything else a stutter. An operation is admitted in one step and committed in
another, so this is more than a restatement of its guards: the lease that was compared at
admission must still be there at the commit.

Not modelled: the other three lease kinds (they follow the same code as `publication`),
operator allowances, the coordinator-pause event, the systemic-paused state.

### LanePipeline

One action per committed mutation; concurrency of mutations is `TrackerLeases`' subject. A
gate may pass or fail for any version of its artifact, which is what the validators decide;
everything the tracker code decides from it is modelled. `bound` are the tracker's bindings
as version numbers, `basis` remembers for each lane the pair (source and segmentation
generation) its pass was checked against; it is not in the code and no action reads it.
The readiness proof of clear, resume, enqueue and promoted re-enters every gate on the
current pair, so it refreshes `basis` of all lanes when they are all set passed; only the
staged bundle is bound by it. A lane passes with high confidence, the source profile also with
medium (`Levels`): a public source that could not be captured is skipped, and the four
transitions then mark the tracker, which they can only when it binds the artifacts the marker
names (`Marked`). `harbor_publish.py:287` asks for high confidence of every lane, so that a
workbook queued with a medium profile is promoted only by a direct call of the transition. A failure that is not terminal cannot be recorded while
publication is queued (`validate_tracker` refuses the document), and a failure of the source
gate is recorded only through a later gate that re-enters it.

Not modelled: attempt budgets, the terminal verdict.

### NotesTransactions

The seven transactions that write both files share one shape: `Prepare` (journal entry with
both documents and both texts), `ReplaceNotes`, `ReplaceTracker`, `WriteMarker`, each of
which checks again what the code checks again (`Timely`, `MayReplaceNotes`, `MayMark`;
`Refuse` when a check fails). `Crash` separates any two; `CrashInPrepare` and
`CrashInMarker` leave the journal file or the marker incomplete, because `_immutable` creates
it in place. `Recover` is the entry of the three recoveries, which go through the same
replacements. `LeaseOperation`, `CompleteLane` and `BeginRepair` replace the tracker alone;
the first reads no journal.

`disturbed` is a history variable: a journal file was torn, a lease operation hit a pair with
an open entry, or bound evidence was edited. A lease operation on an interrupted pair makes
the entry unrecoverable (the recovery wants the tracker to be one of the two documents); the
orchestrator's skill says to retain the lease, `lease_operation` does not enforce it. The
two properties about recovery say that nothing but a disturbance does such a thing.

This module and `TrackerLeases` are two views of one file. Both implement `TrackerLifecycle`
(here `KeepsLifecycle` with one lease for both kinds, proved): a recovery, however late, moves
the tracker as the interrupted transaction would have, or not at all.

### ReleasePointer and ReleaseStore

`ReleasePointer` has one sentence per line: a request is qualified against the current
release, becomes current only as its successor, and is reported only if it did.
`ReleaseStore` has every file operation as a step of a request's program counter: the
coordinator's intent, the unlocked look at the pointer, the two steps of freezing, the lock,
the check, the immutable release, the pointer, the two steps of the compatibility copy, the
comparison of the output, its move aside (`Displace`), the delivery and the report. A request may die anywhere and is resumed by hand. Its refinement
is `Abstract`, checked as `KeepsThePromise`. A release is the sequence of requests that led
to it, since its hash covers its predecessor.

The lock of the store covers the pointer and the copy that `publish_release` makes, not the
coordinator's own delivery: a whole tree is copied between the comparison of the output
(`harbor_publish.py:219`) and its replacement (`xl_release_publication.py:1692`).
`qualified_publication.py:3` leaves it to the caller to serialize its queue, and the queue lock
is one per journal root. `overtaken` remembers that what was moved aside was not what was
compared. `OutputSound` says that nothing at the output is ever lost, and that a reported
release which is current is at the output unless that happened; TLC reaches both cases.

`overlapped` remembers that a request was started while another ran. `SafeResume` states the
promise of a safe resumption for requests that run one after the other. It excepts two
interruptions which the code refuses to resume: the freezing between directory and pointer (the
run `release_freeze`), and the replacement of the output between the move aside and the move
in (`HalfReplaced`): `harbor_publish.py:325` accepts the initial output or the task there, not
their absence, and an operator has to put one of them back.

Not modelled: partial and dual-pointer legacy states, task generations (content addressed,
idempotent). The tracker's side of a publication is `HarborPublication`.

### HarborPublication

`execute` runs from its beginning at every invocation, under the queue lock and the
workbook's slot lock, so the state between invocations is in files only. `kept` is the set
of receipts in the journal (each is written atomically), `pc` the next step of the child, and
`Passes` the check that `execute` makes at that step; `Refuse` is the exception it raises.
`Die` separates any two steps. `tracker` is the document as the sequence of events since it
was queued: `TrackerKnown` and `MayRelease` are the comparisons by which the code recognizes
a change it made before it could keep the receipt. The promotion is the notes transaction
of `ReadyTransitions.transition`, its recovery `recover_ready`, with the two files that
`_immutable` may leave torn. Leases run out (`Expire`), the worker renews, releases or fails
its own workbook (`WriteTracker`), other releases are published or the pointer is put back
(`MovePointer`), an operator restores an output that a death left moved aside
(`RestoreOutput`), and expired leases of a promoted workbook are released by hand
(`CleanUp`). Each of these, and a death that leaves something half written, sets `disturbed`.

What the model showed while it was written, beside what its properties say:

- between the replacement of the tracker and `promoted.json`, the release of a pointer that
  was put back is published again, although the comment at `harbor_publish.py:328` speaks of
  the tracker's promotion; no property is stated about it, since after the receipt the guard
  (`MayPublish`) excludes it by itself;
- leases are checked once, before the release is published: a publication lease that runs out
  after that leaves a current release whose promotion is refused (an expiry is a disturbance
  in the properties);
- a publication lease that runs out while the workbook is queued can be neither released nor
  replaced (`harbor_tracker_lifecycle.py:557`), so the publication is refused until somebody
  reconciles the workbook by hand;
- releasing both expired leases of a promoted workbook by hand, or the task's first, makes every
  later resumption refuse, although the workbook is promoted.

The release store is one step but for its copy, the readiness proof and the qualification
are guards; what several requests do to one store is `ReleaseStore`'s subject.

### ProcessGuardian

Per run: controller, guardian, process group, unread content of the liveness pipe, the
acknowledgement, the gate. `locked` is the run whose open file has the lock; the lock is free
when neither the controller nor the guardian of that run has the file open, or when somebody
unlocked it explicitly (`ExplicitUnlock`, what `convert_and_publish` does). `Die` is the
death of a controller, `Interrupted` an interrupt inside its cleanup. `terminate` does not wait
for what it killed: a group is "killed", does no work any more, and ends when the kernel is
done with it (`Reaped`). A guardian whose acknowledgement finds the controller's end closed
ends by `BrokenPipeError` (`AcknowledgesNobody`); its launcher then finds its gate closed.

Not modelled: death of the guardian itself, descendants that leave the process group,
reuse of group identifiers, the memory monitor.

### FleetCoordinator

One action per call of the ledger, and `Sweep` for the first of the two transactions every
call makes. The second may start up to `Wait` later (`InCall`), so that a call may see a
lease that ran out after its own sweep. Times are kept as time left; `Tick` takes one from
each. A refused call changes nothing but the sweep, so an action is the branch of its
handler that succeeds. Requests come in any order and number from anyone who ever got a
grant: `Claim`, `Heartbeat`, `Begin`, `End` and `Finish` carry the credentials of any claim,
current or not. `granted` counts how often an identifier was told to execute, and `stopped`
remembers whose end was reported (finish) or attested (reconcile); no action reads either.
`RenewQuarantine` is the call of `quarantine_renewal.py`: it extends the time of a quarantine,
also of one that ran out. A quarantine, and a model call while there is one, is refused to
the identity of the local host (`Local`).

`SlotsMatchHolders` compares slots with `stopped`: a slot that was taken is occupied until its
owner's end is known and free from then on. A sweep that freed the slot of an expired claim,
whose worker may still run, would violate it.

`WorkbookCustody` is what a user of the ledger relies on: a workbook has one custodian at a
time, a claim takes custody once, an effect starts once and under the custodian's claim and only the
custodian reports its outcome, what was running when work stops may become unknown and never
runs again, and a workbook passes on only when nothing of it is outstanding. There are no leases,
clocks, hosts, author slots or retired identifiers in it. `KeepsCustody` is the refinement: the
sweep and whatever else ends work is `Stop`, and heartbeats, policies, extensions and exceptions are stutters.

### FleetClients

The ledger is extended with the programs around it. `phase` and `child` are where a job's
controller and its guarded child are, `requests` are calls that may still reach the ledger:
`Serve` answers one, `TimesOut` is the caller's time limit, after which the request is lost
or remains as a stray (up to `MaxStrays`, of the jobs in `Straying`). `Crash` is the death of a controller, `GuardianKills`
what its guardian then does to the child, `ChildCrashes` the child's own death; `ProviderEnds`
is external: a call that the provider accepted goes on without its caller. `Fails` is the
handler of exceptions (the child is terminated, a last finish or uncertain end is sent),
`Beats` and `Checkpoint` the heartbeats and the reconciliation of an unanswered one, for jobs
in `Patient`. `Administer` are the calls a root makes, with what its evidence must show:
`OwnerStopped` and `EffectOver`, and for a workbook that it calls complete by hand, that its
output was collected (`Collected`).

Not modelled: one worker's jobs one after another, the staged pipeline with its disk and
memory rules, the tunnel, the pool.

## 3. Runs

| Run | Question | Bounds | Distinct states |
|---|---|---|---|
| `tracker_leases` | fencing, takeover, validity, refinement of `TrackerLifecycle` | 2 owners, revision to 6, 3 lease operations, clock to 2 in steps of 1 both ways | 1 218 thousand |
| `lane_pipeline` | stale passes, order, repair, archives | 6 steps, 2 versions, 2 failures, both confidences | 524 thousand |
| `notes_transactions` | pair, markers, lost updates, recovery, progress | 3 entries, 2 evidence versions, 2 crashes, torn files | 512 thousand |
| `notes_status_moved` (violated) | pair synchronized after a completion | 1 entry, no crash | |
| `release_store` | refinement, delivery, nothing lost, causes of refusals | 2 requests, 3 starts each | 201 thousand |
| `release_freeze` (violated) | a cause for every refusal | 1 request, 2 starts | |
| `harbor_publication` | promotion, refusals, completion | 4 invocations | 54 thousand |
| `process_guardian` | guard, exclusion, cleanup after death | 3 runs | 599 thousand |
| `guardian_unlock` (violated) | exclusion with the explicit unlock | 2 runs | |
| `fleet_coordinator` | refinement of `WorkbookCustody`, identifiers, slots, capacity, quarantines | 2 workbooks, owners, claims and model calls; lease, wait and window 1; one extension, quarantine and change of policy each, no publications | 534 thousand |
| `fleet_clients` | what runs is what is counted | fleets of at most two jobs out of six, one stray request (not between the two workers), two reconciliations, no quarantines | 744 thousand |
| `fleet_ends` | jobs and claims end | a worker and the collection of its workbook, one stray | 115 thousand |

Why the bounds are enough to be interesting: two owners and six revisions allow acquire,
expiry, takeover (or release and re-acquisition) and a late write with the retired token,
the second owner being the first one restarted included, and they reach a promoted tracker (in
five writes), the late release of a stopped owner's lease on it, the same on a stopped tracker,
and the resumption out of that; three lease operations are as many as these need; the pipeline of
six steps has one step of every sort the canonical eleven have: a pinned generation, both phases of
the normalization around the profile, the binding of the stage, and a gate that binds nothing and
can fail terminally; three journal entries allow a late recovery after two
later transactions; two requests with three starts allow a delayed delivery and a death in the
resumption, and a delivery that is overtaken; four invocations are a death in a start, in its resumption and in the recovery of that,
and a last one that shows what becomes of it; three
runs allow a dead one, its resumption and a third contender. In the ledger every limit of one is
reached, exceeded under an extension and held by unknown effects; a lease of one unit runs out
between the two transactions of a call. Three things are not in that run and are left to the
theorems: publications (so the conjunct of `CapacityKept` about them), more than one host
beside the local one (so the other hosts of `UnknownBlocks`), and quarantines among the clients.
The physical limit of a host is a guard of `Begin` that no property restates. The fleets of two are the pairs that share something: a
workbook, the model slot (two workers that differ in nothing, checked up to swapping them), the
publication slot; the worker that may reconcile its heartbeats is alone, because what concerns it
is its own row. Deadlock checking is off where
the bounds or the program end (every request reported, every run returned, every identifier
used) and on for the tracker, whose clock always moves.

`mutants` in `PROJECT.json` pairs every property with a plausible bug of the code (written
next to the definition it replaces and marked "Mutant") under which its run fails. A property
that is a conjunction of named parts (`HistoryReplays`, `PassedStands`, `JournalSound`,
`OutputSound`, `IdentifiersSpent`, `LedgerTruthful`, `EverythingEnds`) has one mutant that breaks one of
them.

### Fairness

- `NotesTransactions`: weak fairness of the steps of a transaction in progress, strong
  fairness of recovering a pending entry: the recovery waits in `flock`, which hands the lock
  on, and the operator is told to recover.
- `HarborPublication`: weak fairness of the child's next step and of the resumption of a
  retained intent, which a root makes until there is a result. The last invocation is not
  interrupted: deaths end.
- `ProcessGuardian`: weak fairness of the guardian and of the launcher's reading of its gate,
  which the system schedules and which block on descriptors only, and of the end of a killed
  group (`Reaped`), since SIGKILL is not refused. Controllers and commands may hang for ever.
- `FleetClients`: time passes, somebody asks the ledger for something (which sweeps), a waiting
  controller is answered or times out, a guardian kills the child of a dead controller, the end
  of a child is noticed; the limits of memory, time and disk and the limit on waiting are strongly
  fair, since they are looked at between any two heartbeats. The child and the provider may
  hang, and no request need ever be served.
- The other modules have safety and action properties only.

### What the violated runs show

1. `notes_status_moved`: completing a lane of a queued tracker changes the status the notes
   print without printing it.
2. `release_freeze`: the snapshot directory without its pointer, which a death between two
   lines leaves, is refused by every later start.
3. `guardian_unlock`: `LOCK_UN` acts on the open file the guardian shares.

## 4. Proofs

TLAPS proves, for every value of the constants that satisfies the assumptions named in the
modules:

`TrackerLeases_proofs`. `TypeCorrect`, `FencedCorrect`, `TakeoverCorrect`, `TerminalCorrect`,
`LifecycleCorrect`, `ReplayCorrect`, `HistoryCorrect`, `PromiseCorrect`. Type correctness is not inductive alone: a commit
refreshes a slot that was seen occupied at admission. `OpAdmitted` carries what admission
established up to the commit; it is preserved because the document changes only by a commit
and because a takeover, or the late release of a lease, keeps the old owner from restarting. Fencing adds `FenceInv`: tokens
known, live or retired were minted, and a live token is in no retired set. Validity of the
lifecycle goes by the shape of the history: a commit appends one event whose `before` is the
live slot up to a later heartbeat, so what the first n events leave in a slot is unchanged
for the old prefix and is the new slot at the end; heartbeats stay between the recorded one
and the expiry because admission compared the clock with both. The replay theorem is the
statement that the last validation of the code refuses nothing its guards admitted. The
clock may be set back by any `StepBack`. `PromiseCorrect` is the refinement of
`TrackerLifecycle`, step by step. It adds that a lease names a revision that is past
(`GrantedInv`), so that one granted later is another one, and that an operation carries the kind of lease its
name calls for. `TerminalFrozen`, which says of the detailed state what the refinement says of
the abstract one, and that no lease of a terminal tracker is renewed, is proved (`TerminalCorrect`) though no run lists it.

`ProcessGuardian_proofs`. `TypeCorrect`, `GuardCorrect` and, when callers only close the
lock, `ExclusionCorrect`, for any number of runs. The invariant `IInv` says for each run what the liveness
pipe can hold at each point of the controller (`PipeInv`), that an open gate and a working
group imply an armed guardian (`GuardInv`), and that whoever still has a group holds the
lock through an open file (`LockInv`). Exclusion follows, since the lock is of one run. The
run `guardian_unlock` shows that the assumption is needed. `CleanupNeverStuck` and
`CleanupCorrect` are the part of `DeathCleanedUp` that can be proved (see below).

`FleetCoordinator_proofs`. For any workbooks, owners, hosts, claims, limits, leases, waits
and windows: `TypeCorrect`; `OneExecutionCorrect`, `Fences`, `Retired` and their conjunction
`IdentifiersCorrect`; `OutstandingCorrect`, `PromiseCorrect`, `StaleOwners`, `QuarantinedStops`, `UnknownStops`,
`SlotsCorrect`. The invariants build on each other:

- `TypeInv` adds to the types that a row which is active or in hold names its claim and owner
  (`RowsNamed`), which `owned` and the sweep rely on;
- `EffectsInv` adds to `OneExecution` that what is not active has no time left
  (`SettledSpent`), so that no tick or heartbeat touches a settled effect;
- `Outstanding` says that a row agrees with the grant of its claim (`Agrees`) and that what is
  outstanding belongs to that claim; a finish and a reconciliation that would let go of the
  row are refused while `Unsettled` holds;
- `Isolated` says that the workbook of a quarantined effect is in hold or stays out of use, from
  which the action property about unknown effects follows by cases on the calls;
- `CustodyInv` joins the types, `EffectsInv` and `Outstanding` to `Unclaimed`: a workbook
  that is free names no claim. From it each call is one step of `WorkbookCustody`, or none; a row that is
  freed has nothing outstanding, which is what the abstract step demands. `StaleOwners` follows
  from the same facts and the spent claims: a claim that lost its workbook never owns it again, so nothing it
  sends later is served (`StaleStaysOut`; no run lists it);
- `SlotsInv` names the claims of slots and rows in both directions; each call that gives up a
  row releases its slot in the same transaction and records its owner as stopped, and no other
  call does either.

- `CapacityInv` turns the limits of `CapacityKept` into facts that can be carried over a step:
  at most one occupied publication, and per workbook one occupied call (`OneEach`); finitely
  many occupied calls, within the limit of the policy (`WithinLimit`); per host finitely many
  authors, more than the ordinary number only under an extension (`WithinHosts`). A call that
  begins or claims adds one element to a set it has compared with its limit, every other call
  lets the sets shrink, and the first author policy starts with slots named by rows, of which
  there are no more than the limit.

Lemmas per table (`OperationsStep`, `BeginMoves`, ...) say once how a call changes it, and every
invariant is proved from them. Capacity is counted, so `InventoryAssumption` says that the
workbooks are finitely many; nothing else needs it.

`FleetClients_proofs`. `LedgerCorrect`: `ClientsSpec => Spec`, every step of the programs is a
step that the ledger allows or none, so that what is proved of the ledger holds of them too.
`ClientsTypeCorrect`, `CustodyCorrect`, `TruthCorrect`, for any jobs, strays, reconciliations
and fleets. Three theorems join the ledger's invariants to those of the programs: `FleetBounded`
(what really runs, children and provider calls included, keeps the limits: `RealLimits`),
`WorkDoneOnce` (no call or publication is worked on twice: `WorkOnce`) and `ClientsPromise` (the
programs implement `WorkbookCustody`, by the ledger's own refinement). `ClientsAssumption` says that claims and operations belong to one job each, as the
identifiers in the code do (a worker's calls are model calls, anyone else's one operation a
publication). The invariant has three parts besides the ledger's:

- `Stages`: where a controller and its child may be at the same time, for instance that no
  child lives once its controller asks for a last end or finish, and that a publication's
  child that exited has its result retained;
- `AllSent`: what the sending of a request implies for as long as it may be served, its
  sender waiting, dead or crashed: the effect of an "end" is retained and no longer runs, and
  a collector's "finish" comes after its child exited. This is why late requests are harmless;
- `Truth`: the properties themselves, and that a claim was granted for its job's workbook.

A child is born by one answer only (`Births`): to the claim of a worker, to the begin of a
publication. Each call of the ledger keeps the rows and operations as they are for the
programs (`LedgerKept`), or settles an operation (`Settles`) or gives up a row (`GivesUp`)
which no living child needs.

`LanePipeline_proofs`. `TypeCorrect`, `PassedCorrect`, `QualifiedCorrect`, `RepairCorrect`,
`ArchiveCorrect`, for any number of lanes, steps, generations and failures.
`StepsAssumption` is the shape of the canonical list (`STEPS` of `harbor_completed_lanes.py`): no step twice, the
normalization's two phases around the profile and nothing else between, one lane per step but
for those phases, the pinned pair none of the special steps. Neither stale passes nor the
order of passes is inductive alone: a completion looks at the steps before it only, so that
the invariant must say that nothing after a step under repair has been done again
(`RepairStands`), that everything before the gate of the recorded failure is done but for a phase 2
that waits (`FailureStands`), that an archive is of the latest observation (`ArchiveStands`),
and that the normalization passed only with both phases (`BothPhases`).

`NotesTransactions_proofs`. `TypeCorrect`, `JournalCorrect`, `RecoveryCorrect`,
`UpdateCorrect`, `PromiseCorrect`, `RecoveryProgress`, for any number of entries, evidence versions, revisions and crashes. The
invariant says what an entry records and that only the last can be open (`Formed`,
`Ordered`), which of the four documents and texts may be on disk at each step of the
transaction that holds the lock (`Working`), and that what is open and undisturbed has its
tracker and its notes among the recorded ones (`Safe`). `Ordered` is what `NoLostUpdate`
rests on: a recovery finds the tracker at one of the two documents of its entry, and every
earlier entry ends before the last begins. The refinement of
`TrackerLifecycle` (`KeepsLifecycle`) says of every entry what its second document is to its first
(`Turns`), so that it can be replaced late, and where a failure can be recorded (`FailingStands`). `TextAssumption`: no text of the notes is the absence of one;
`IdleAssumption`: no work in progress is its absence.

`ReleaseStore_proofs`. `PromiseCorrect` is the refinement of `ReleasePointer`: initial states
map to initial states, and each step of a request to its qualification, its becoming current,
its report or a stutter. It needs that what was compared under the lock still holds when the
pointer is replaced (`Holding`, `Progress`). `TypeCorrect` and `OutputCorrect` need more: the requests
in the pointer are in the order in which they became current, and what a request found at the
output before it started was there before any of its successors (`Request`, `Delivered`,
`MovedAside`, `Kept`). `ResumeCorrect` adds what a request that runs alone finds at each of its
steps after a death at any other (`Alone`, `Undisturbed`). All of it for any number of
requests and starts; `NamesAssumption` keeps the names of requests, of the original output and of its
absence apart.

`HarborPublication_proofs`. `TypeCorrect`, `PromotionCorrect`, `RefusalCorrect`, for any number of invocations. The invariant says that receipts come in
the order of the steps (`Journal`), where the promotion's transaction is at each step
(`Promotion`), and, while nothing intervened, that tracker, pointer and output are what the
receipts say, give or take the step that was interrupted (`Undisturbed`). The last part
implies at every step the check that `execute` makes there, which is `RefusedForCause`.
`NeverStuck` and `PublicationProgress` are about the way to the result.

Towards liveness. That something ends is checked on small instances; why it ends is proved for
all, in two parts that need no ENABLED: while it has not ended the guard of some fair step holds, and a
natural number falls with each of those steps and rises with no other.

| Property | Something can be done | Each step comes nearer |
|---|---|---|
| `DeathCleanedUp` | `CleanupNeverStuck` | `CleanupCorrect` |
| `PendingResolved` | `RecoveryCorrect` (the entry is recoverable) | `RecoveryProgress` |
| `Publishes` | `NeverStuck` | `PublicationProgress` |

The numbers count what guardian and launcher may still do; the crashes that may still come and the
stage of the recovery; the invocations that are left and the steps of `execute` from where it is. No
such pair was found for `EverythingEnds`, whose steps are those of several programs, a
ledger and time: heartbeats renew what time takes away, up to limits of which each program has its own.

Proving found what checking could not: a CASE of the model had overlapping arms, of which TLC
takes the first (a search then found a second one); the model now says which one the code takes. No
property had to be weakened; the assumptions on the canonical order had to be made explicit.

Only model-checked: liveness (`PendingResolved`, `Publishes`, `DeathCleanedUp`, `EverythingEnds`),
and the runs that show a violation. Out of reach of
the prover: liveness under fairness, ENABLED, and induction over data (the history replay is therefore
stated with quantifiers over positions, not as a recursion).

## 5. Not modelled

- Analysis of workbooks, normalization, packaging, grading (the largest part of the code, by
  lines): sequential and pure, without state shared between processes; their verdicts are inputs of the gates.
- `scripts/fleet` scripts that repair, continue or take over one named workbook, and the pool:
  they call the ledger, whose answers to any call at any time are in `FleetCoordinator`.
- `scripts/batch/recovery_worker.py` and the slots: what they hold is `alive` in `TrackerLeases`.
- The batch loop of `hardened_runner.py` around `convert_and_publish`, the generations, and
  retention.
- Contents: JSON schemas, paths, hashes (a revision, a version or a model value stands for the
  bytes), messages, notifications, logs.

## 6. Plan

Done: the control plane of one workbook (tracker, pipeline, notes, release store, guardian),
its publication, the fleet's ledger and its clients, with proofs of every safety property of
all of them. Left, in order:

1. `ReadyBatch`: `run_ready_batch` and the ledger reconciliation, on top of the guardian.
2. Source and segmentation generations as instances of the release pointer; the partial legacy
   snapshots.
3. Retention and cleanup against the promoted references.
