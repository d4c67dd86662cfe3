# ASD-KONTUR: a TLA+ verification development

ASD-KONTUR keeps the evidence of construction projects: owners upload documents into a
*workspace*, workers read them, knowledge is derived from them, and in the end the workspace is
exported, archived, reset and destroyed. This directory holds TLA+ models of the parts whose
correctness depends on more than one actor or more than one step, the TLC configurations that
check them, and theorems that TLAPS proves of them for every value of their constants.

| Component | Modules | Checked by runs | Proved |
|---|---|---|---|
| Durable jobs and workers | `DurableJobs`, `JobLifecycle` | `jobs` | invariant, 8 safety properties and types, refinement |
| Document intake | `IntakeRegistration`, `DocumentRegistry` | `intake` | invariant, 5 safety properties and types, refinement |
| Workspace lifecycle | `WorkspaceLifecycle`, `WorkspaceCustody` | `lifecycle` | invariant, 4 safety properties and types, refinement |
| Workspace reset workflow | `WorkspaceReset` (implements `WorkspaceCustody`) | `reset_workflow` | invariant, 3 safety properties and types, refinement |
| Package production | `PackageProduction`, `DocumentPackage` | `production` | invariant, 2 safety properties and types, refinement |
| Professional assistant | `AssistantTurns` | `assistant` | invariant, 2 safety properties |
| Project understanding | `ProjectUnderstanding` | `understanding` | invariant, 2 safety properties |
| Recovery of normative pages | `NtdRecovery` | `ntd_recovery` | invariant, 2 safety properties and types |
| Tender process | `TenderProcess` | `tender`, `tender_bypass` | invariant, 3 safety properties and types |
| Practice guidance | `GuidanceMemory` | `guidance`, `guidance_quarantine` | invariant, 5 safety properties and types |

A component has a detailed specification; where it promises something that can be said without its machinery, an
abstract one that it implements; an `MC...` module where TLC needs values that a configuration cannot give; and, where
it has theorems, a `..._proofs` module (`DerivedData_proofs` serves three components). `PROJECT.json` lists the runs,
the source lines every definition stands for, a mutant of the code for every property, the hazards
and the findings. To check one configuration: `tlc -config DurableJobs.cfg MCDurableJobs.tla`;
to check the proofs of one module: `tlapm DurableJobs_proofs.tla`.

Contents: 1 the system; 2 what was done and what is left; 3–12 the components; 13 the runs;
14 the proofs; 15 what the code does otherwise than its documents say; 16 what is not modelled.

Paths below are relative to `src/src/asd_kontur/` unless they begin with `docs/` or `migrations/`
(both under `src/`). `postgres.py` without a directory is `application_spine/postgres.py`,
`0003`, `0006`, `0009`, `0013`, `0018`, `0023` and `0030` are the files of `migrations/versions/` that begin with that number.

## 1. The system

### 1.1 Components, their state and their operations

**Durable jobs and workers** (`application_spine/postgres.py`, `worker.py`, the functions of 0018).
State: the table `durable_jobs` (state, attempt count, lease owner, lease generation, lease expiry,
eligibility, cancellation state), prerequisites in `durable_job_dependencies`, immutable
`job_terminal_receipts` and `job_control_decisions`, and in each worker process the job it has claimed with
the generation it was given. Operations: reconcile, claim, mark running, check for cancellation,
heartbeat, retry, finish; owner commands cancel, pause, resume, manual retry; the reset fence
`cancel_jobs_for_reset`. Hard: several workers and an owner act on one row between any two
statements of an execution; a worker may stop for longer than its lease and come back; it may die with a
lease; a control decision is keyed by a digest. Right means: one verdict per job, one effective
execution at a time, success only for complete output, prerequisites first, nothing stranded.

**Document intake** (`application_spine/services.py`, `object_store.py`, `register_batch` in
`postgres.py`). State: the staging directory, the content-addressed object plane on disk, and the
rows of manifests, documents, objects, source versions and document versions. Operations: stage,
expand an archive, register a batch in one transaction that also moves files, compensate. Hard: a
transaction and a file system that cannot commit together; parallel requests with the same documents
and the same bytes; unique keys that fail a batch midway; an answer lost after the commit; a process lost between two
moves. Right means: whole batches, one version per content, bytes for every version, no bytes
without owner, nothing behind the write fence. Section 4 says how far the code meets the second half.

**Workspace lifecycle** (`lifecycle/*.py`, the functions and triggers of 0003). State: the workspace
row (state, version, revision, `purge_started`, `legal_hold_active`), evidence tables, legal holds,
deletion plans, authorizations and their invalidations, receipts, checkpoints, residual
verifications and attestations; and the material that storage adapters find. Operations:
`transition_lifecycle`, material writes under the fence trigger, recording of evidence, placing and
releasing of holds, plan, authorize, execute, checkpoint, verify, attest. Hard: 36 edges that include detours
over recovery and quarantine, reopening, evidence that outlives what it was evidence of,
authorizations that are granted in memory and stored later, holds that arrive at any moment.
Right means: nothing is deleted before it was exported, a hold keeps the material, a purge is never
undone by reopening, what is declared reset or destroyed is so.

**Workspace reset workflow** (`application_spine/reset.py`). State: challenges and what it
can read back from the lifecycle. Operations: `prepare` (freeze to reset planning, archive, plan,
challenge), `execute` (consume the challenge, authorize, fence the jobs, purge, verify, destroy). It
is the one driver that composes lifecycle, jobs and objects, in many transactions with no record of
its own place. Hard: several requests, a failure between any two transactions, workers and uploads that finish what
they had begun. Right means: no document is lost that is not in the archive, what is declared reset stays empty, an
undisturbed reset is completed.

**Package production** (`support/production_postgres.py`, `support/production.py`, the generation stage of
`worker.py`). State: versions of a package with its book and memberships, generation runs, candidates, review
and finalization rows, rendered files. Operations: form, start a generation, render, publish, review, finalize. Hard: every change
copies the whole package into the next version while others do the same; the run is executed by a job whose lease may
lapse; files are created before they are written. Right means: no version undoes what another one brought, a
candidate has its file, what is finalized was approved by somebody else.

**Professional assistant** (`assistant/`). State: conversations, turns with a lease, numbered messages, events that
are streamed. Operations: ask, cancel, claim, heartbeat, append a delta, complete, fail. Hard: two
questions at once, answers of a worker whose lease is gone, ordinals computed from what a plain `SELECT` has seen. Right
means: one answer for each successful turn, the outcome told to the reader stands, every question is settled.

**Project understanding** (`document_understanding/postgres.py`, `pipeline.py`, the owner's requests in `postgres.py`).
State: candidates found in documents, reviews, and for each corpus a definition, work packages, a requirement matrix and
the projection shown to the owner. Operations: extract, review, request, assemble. Hard: one assembly reads
corpus, candidates and reviews with separate statements while others commit; several workers assemble one corpus. Right means:
a model is of its corpus, its projection is what its rows say, a request is heard.

**Recovery of normative pages** (`ntd/processing_jobs.py`, `ntd/remediation.py`, `ntd/polza.py`,
`tools/run_ntd_polza_batch.py` and `run_ntd_polza_canary.py`). State: page versions, jobs with leases, receipts of a provider that is paid.
Hard: drivers and their children are lost independently of each other, leases are not extended, answers
get lost after they were paid. Right means: nothing is paid twice, success has its result, nothing is stranded.

**Tender process** (`tender/postgres.py`, 0006). State: the row of the process with state and revision, idempotency keys, outbox,
assessments, issues and versions of outputs. Operations: start, transition, block, finalize; append records. Hard: commands
are repeated and race; authors append records without a lock while a finalization counts them — only the key share locks
of foreign keys stand between. Right means: the outbox tells the history, success is given on what is committed, no
standstill.

**Practice guidance** (`practice_guidance/`, 0009 to 0015). State: in files, candidate versions that a model extracted from a guide with
what later passes found out about them, and coverage manifests made of these; in the database, candidate versions, verifications with
the selected one, conflicts, canonical units, page receipts, reconciliations, coverage manifests, the lexical projection, and the
constructions and the active release of practice intelligence. Operations: extract, verify, reopen, correct, recover, reconcile, persist,
construct, activate. Hard: a persist is hundreds of transactions that may stop anywhere and are repeated, perhaps for an older manifest;
nothing that was published is withdrawn while the evidence goes on. Right means: one authoritative version of a candidate, a recorded manifest is
wholly there, a finished persist tells its own manifest and no other, a release lacks nothing of its manifest.

**Document processing states** (`append_document_state`). An append-only log of each document version, written by the
stages whose jobs `DurableJobs` models; no guard reads it back.

**Owner sessions** (`application_spine/auth.py`). Throttling, opaque sessions, a CSRF binding and expiry: single rows.

**Persistence foundation** (`persistence/`, 0001). Idempotency records, inbox and outbox in units of work. The
services of the running application use their own SQL with the same keys and locks.

**Normative documentation memory** (`ntd/`, apart from the recovery), **platform knowledge** (`knowledge/`). Pipelines that are mostly parsing and immutable records, run by one operator; promotion and rule lifecycles
are gates over immutable versions.

**AI/VLM harness** (`harness/`). Batches with bounded repair, run in memory by one caller.

**Domain kernel, support, audit and corpus, pilot** (`kernel/`, `support/postgres.py`, `audit/`, `corpus/`, `pilot/`). Process
machines over append-only records, with the transaction pattern of the tender process.

**The rest** (`web_app/`, `contracts/`, `domain/`, `product_readiness/`, `construction_harness/`,
`integrity/`, frontend, tools, deployment): transport, validation, pure
functions, parsing and tools without protocol state.

### 1.2 How they interact

- Intake commits documents together with their jobs: `register_batch` inserts the job rows that
  `claim_next_durable_job` later finds. `DurableJobs` starts with these rows (`Enqueued`).
- Workers write pages and derived objects while they hold a lease; the job queue itself does not look
  at them, except that success is reported after the last page.
- The lifecycle closes the door on everybody else: the trigger `enforce_material_write_fence` refuses
  rows of material tables outside `PROVISIONING` and `ACTIVE`, and `reset.py` settles the remaining jobs.
  `IntakeRegistration` models the fence from the side of the writer (`fenced`, `HoldsWorkspaceRow`),
  `WorkspaceLifecycle` from the side of the workspace (`writing`, `stray`).
- `WorkspaceReset` composes what these three share: the transitions of the lifecycle with version and row lock, the fence of
  the jobs, uploads that were admitted before the freeze, workers that go on behind the fence, the object store and the
  relations that the purge deletes under their foreign keys.
- Generations and the stages of understanding are durable jobs: `PackageProduction` and `ProjectUnderstanding`
  take over what the queue promises of them (attempts, leases that lapse, a repeated execution) and model what the
  executions write. Assistant turns and recovery jobs have queues of their own with other promises.
- Practice guidance shares only the platform's sources with the rest: it is filled by commands, and workspaces read its active release.
- Storage adapters connect the lifecycle with tables and files: they say what there is, delete it
  and look for residue.
- There are no messages between processes: all of them meet in PostgreSQL (READ COMMITTED) and in the
  file system.

## 2. What was done, and what is left

The order was that of what the loss of correctness would cost:

1. `DurableJobs`, `JobLifecycle`, `DurableJobs_proofs`: every piece of background work goes through this queue.
2. `IntakeRegistration`, `DocumentRegistry`, `IntakeRegistration_proofs`: every document comes in this way.
3. `WorkspaceLifecycle`, `WorkspaceCustody`, `WorkspaceLifecycle_proofs`: what may be destroyed, and when.
4. `WorkspaceReset`, `WorkspaceReset_proofs`: the workflow that drives the lifecycle against jobs, uploads and files.
5. `PackageProduction`, `DocumentPackage`: what the owner hands in.
6. `AssistantTurns`, `NtdRecovery`: the two queues that do not use durable jobs.
7. `ProjectUnderstanding`: derived data under concurrent assembly; `DerivedData_proofs`: the theorems of 6 and 7.
8. `TenderProcess`: the transaction pattern (key, locked row, compared revision, outbox) that the process machines share.
9. `GuidanceMemory`, `GuidanceMemory_proofs`: a long persist without a transaction around it, over evidence that goes on changing.

Left: the audit and support processes, which repeat the pattern of
8 over other records; promotion and rule lifecycles of the platform knowledge; an abstract exactly-once
specification for the unit of work of `persistence/`.

## 3. Durable jobs

### Correspondence

`DurableJobs` has one variable per column of `durable_jobs` that decides anything, one for each ledger,
one for the pages of a job's document, and for each worker the program counter of `run_once`/`_execute`
with what it holds in memory.

| Model | Code |
|---|---|
| `Reconcile`, `ReconcileDone`, `OutOfReach` | `reconcile_unclaimable_durable_jobs` (0018); the worker calls it until it returns nothing |
| `Claim`, `ClaimNothing`, `Stale`, `Claimable` | `claim_next_durable_job` (0018): takes lapsed leases back, then hands out one job with the next generation. `SKIP LOCKED` makes its order a preference, so any claimable job may come |
| `MarkRunning`, `CheckBeforeEffect` | `mark_job_running`, `job_cancellation_requested` |
| `OpenSource`, `Checkpoint`, `RecordPage`, `ExtractionFails`, `Heartbeat` | `_execute` and its page loop in `worker.py` |
| `RetryJob`, `FinishJob` | `retry_job`, `finish_job` |
| `RequestCancellation`, `PauseJob`, `ResumeJob`, `ManuallyRetryJob` | the owner commands of the repository |
| `CancelJobsForReset` | `cancel_jobs_for_reset` |
| `LeaseLapses`, `BackoffElapses` | `clock_timestamp()` passing `lease_expires_at`, `eligible_at` |
| `Crash`, `Restart`, `WorkerDown` | loss of a worker process and its supervisor; an exception outside of `_execute` ends `run_forever` |

Clocks are not modelled: a lease may lapse at any moment after it was given, also under a worker that
is alive. Receipts are kept by job, code and generation, decisions by what their digest covers. The kinds
of jobs differ only in what `_execute` does with the document, so every kind has the page loop of extraction,
with `Pages` checkpoints; a job with none settles from the first checkpoint in the same way.

### Properties

- `LeaseShape`, `ReceiptSettles`, `WaitingHasAttempts` (theorems): no path leaves a lease behind, settles twice,
  or puts a job without attempts back into the queue. These are the facts on which constraints of the tables and
  the guards of claim and reconcile rely.
- `PrerequisitesMet` (theorem): prerequisites hold for every job that is held or has succeeded.
- `ExecutionsAreFenced`: two workers that believe they hold one job carry different generations.
- `SuccessIsComplete`: success means all pages, however attempts were cut short.
- `SettledForever` (theorem), `LiveLeaseRespected`: what no step may do: change a verdict, or take a live lease
  from its holder — except for the reset fence.
- `FollowsLifecycle`: the queue implements `JobLifecycle`, where a job is just a state and a count
  of attempts. The mapping is the identity on `state` and `attempts`; all the machinery of leases, generations,
  receipts and workers is hidden.
- `JobsSettle`: no admitted job is stranded, unless it or something it waits for is *withheld*: paused by
  the owner, or queued with a requested cancellation (the case that the statement `CancellationSettles` of the module is about,
  section 14).

### Fairness

`FairSpec` is weakly fair for each worker (`run_forever` loops without an exit and the supervisor
restarts the process), for the restart and for the passage of time. Commands of
owners and crashes are not fair. Nothing is strongly fair: `Claim` can be disabled for one worker only by
another one that claims the job.

## 4. Document intake

### Correspondence

An action of `IntakeRegistration` is a statement of the transaction or a file operation, wherever another
request can get in between.

| Model | Code |
|---|---|
| `Stage`, `StageDamagedArchive` | `register_uploads` and `expand_archive` (`object_store.py`) |
| `OpenBatch`, `ReplayBatch`, `LockManifest` | the advisory lock and the look-up of the manifest in `register_batch` |
| `ReadWorkspaceState`, `WorkspaceNotWritable`, `InsertManifest` | the check of the lifecycle state, the row of the manifest with its foreign key |
| `SeeObject`, `KeepObject`, `ObjectVanished`, `MissObject`, `MoveObject` | `WorkspaceObjectStore.commit`: exists, verify, `os.replace` |
| `RecordObject` | the rest of `commit` after the move (mode, directory sync), and only then `committed_created.append` |
| `FindDuplicate`, `FindNothing`, `InsertVersion`, `UniqueViolation`, `WriteFenceRejects` | the look-up of the latest versions and the insertions for one document |
| `CommitBatch`, `Fail`, `RaiseFailure` | the end of the transaction and the `except` branch |
| `SkipObject`, `FindObject`, `UndoObject`, `UndoCollides` | `WorkspaceObjectStore.delete`: exists, then unlink, which raises if another compensation was faster and ends the loop over `committed_created` (`AbandonUndo`) |
| `Blocks`, `DeadlockVictim` | a wait for an uncommitted row with the same unique key, and PostgreSQL's deadlock detector |
| `StatementFails` | a statement or a file operation that fails, the chmod or sync after the move included |
| `DeletionFails`, `CommitAnswerLost`, `ProcessLost`, `MoveFence` | what else comes from outside |

READ COMMITTED is modelled by `Seen` (what is committed now, and one's own rows) and by the two ways a unique
key acts: waiting for an uncommitted row, failing on a committed one. The foreign key of the manifest keeps
the workspace row `FOR KEY SHARE`, so that `transition_lifecycle` (which takes it `FOR UPDATE`) waits
(`HoldsWorkspaceRow`).

### Properties

- `OneVersionPerContent`, `BatchesAreAtomic` (theorems): the registry after any interleaving, also after a lost answer
  to COMMIT.
- `OrphansHaveCauses`: an object that no version refers to and no request is going to publish or delete has one of three causes. The
  process was lost; a file operation failed, between the move and its recording or in the compensation; or two compensations of an object that
  both requests created raced between `exists()` and `unlink()`, and the loser abandoned its other objects. No other step, in whatever order requests
  with the same contents overlap, leaves one behind. So the code does leave orphans, even without a fault, and the property says when.
- `PublishedBytesStay`: once a version refers to an object, the object is there, and no request is left that created it or is about to
  replace it, nothing takes it away any more: a request that finds content in place never deletes it, whatever becomes of its batch. Before that moment
  it can be lost (`NoPartialDocument`, section 15).
- `FenceHolds`: no version is committed into a workspace that is not writable.
- `RegistersSerially`: the registry refines `DocumentRegistry`, in which whole batches are registered one after
  the other: registration is serialisable.
- `RequestsSettle`: all requests end. Fairness: each thread of the pool runs, and PostgreSQL breaks
  deadlocks; faults and the fence are not fair.

## 5. Workspace lifecycle

### Correspondence

| Model | Code |
|---|---|
| `Transition`, `Edges`, `Evidence`, `HoldAllows`, `RecoveryAllows`, `Reopens` | `workspace.transition_lifecycle` (0003), which locks the workspace row `FOR UPDATE` |
| `BeginWrite`, `LandWrite` | a statement on a material table: the trigger `enforce_material_write_fence` reads the state without a lock, the foreign key takes its lock when the statement ends |
| `RecordFreezeManifest` ... `RecordVerifiedArchive` | the evidence that `lifecycle/postgres.py` records |
| `PlaceLegalHold`, `ReleaseLegalHold` | `place_legal_hold`, `release_legal_hold` with the invalidation of authorizations |
| `MakePlan`, `Authorize`, `PersistAuthorization` | `DestructionCoordinator.plan` and `authorize` and the transactions that store their results |
| `StartExecution`, `PurgeItem`, `PurgeItemFails`, `RecordReceipts`, `RecordCheckpoint` | `DestructionCoordinator.execute` and `checkpoint`; each adapter deletes in a transaction of its own |
| `LoseExecution` | loss of the process: receipts not yet stored are gone |
| `Attest` | `verify`, `attest` and `persist_verification_evidence` |

Operators are disciplined: evidence is recorded in the state it is evidence for and with the version and
revision of that state; an execution is started in the state of its kind; a plan is made where the
workspace waits for one, or has to recover from one. That is what callers in the repository do
(`reset.py`, the lifecycle tests). Nothing else is assumed: any transition the function allows may
be asked for at any time, holds come and go whenever they like, executions fail and are lost.
The coordinator believes what its caller says of a hold: `reset.py` passes `FALSE`, other callers pass the flag, hence
`HoldArguments`.

Version conflicts (optimistic `expected_version`) and replays of operation keys change nothing and are
left out. `stray` and `suspended` are history variables: what landed behind the fence since the workspace was last
opened, and plans that a hold has met; no guard of an action reads them.

### Properties

- `HoldFlag` (theorem): the flag that guards transitions agrees with overlapping holds.
- `HoldKeepsMaterial`: a hold that finds the workspace outside of a purge keeps it there, with its material. This must
  come from `transition_lifecycle`: authorizations can be stored after the hold that should have revoked them, and
  the coordinator may be told that there is no hold.
- `PurgedAfterExport`: from `EXPORTED` on the current revision has a verified export. The detour over
  `RECOVERY_REQUIRED` and `QUARANTINED` and a reopening are the ways that could avoid it.
- `ResetLeavesRetained`: what is left in `RESET_VERIFIED` is retained or landed late, after any number of
  failed and lost executions.
- `CustodyKept`: the lifecycle implements `WorkspaceCustody`, where a workspace is open, sealed,
  condemned or destroyed. `Phase` maps the states; recovery is *sealed* before the purge and
  *condemned* after it began, which is what `purge_started` is for.

## 6. Workspace reset

`WorkspaceReset` takes the requests of `reset.py` apart into transactions and file operations. A request may be lost after any of
them, nobody writes down how far it came, and several may run at once.

| Model | Code |
|---|---|
| `ReadActive`, `Transition`, `Succeeds`, `Admitted`, `RowIsLocked` | the look at the state, and `_transition` with the version it expects; `transition_lifecycle` (0003) compares it under the row lock |
| `Archive`, `IssueChallenge`, `PlanReset`, `BindPlan` | the rest of `prepare`: what the archive holds, the challenge, the plan over `Inventory` |
| `Confirm`, `Consume`, `Authorize`, `BeginPurge`, `CurrentPlan`, `Expired` | `execute` up to the purge: the challenge is consumed once, plan and authorization are checked again |
| `FenceJobs` | `cancel_jobs_for_reset` |
| `PurgeObject`, `PurgeRelation`, `Tables`, `Children`, `WorkOf`, `PurgeEnds` | the deletions of both adapters in the order of the plan; a relation with rows in one of its children is refused by `ON DELETE RESTRICT` |
| `Attest`, `Residue`, `PlanDestroy`, `AuthorizeDestroy`, `ListFiles`, `RemoveDirectories`, `WriteReceipt` | the scan for residue, destruction and receipt |
| `UploadAdmitted` ... `UploadRejected` | a registration that passed the check of the state before the freeze |
| `ClaimJob`, `ChooseWork`, `PutDerived`, `RecordPage`, `AppendState`, `EndExecution`, `RetryJob` | a worker that goes on after its job was fenced, and the owner's manual retry |
| `PlatformChanges`, `Lapse`, `Crash` | platform memory that changes meanwhile, expiry, a lost request |

Tables are counted up to `MaxRows`, since a purge only asks which are empty. The evidence that `prepare` records before a transition is part of that
transition: only the request that made the last one gets to it.

- `SourcesAreArchived`: bytes of a committed document are deleted only if the archive has them. An upload that was admitted
  before the freeze and moves its bytes behind the archive is the way this could fail; the key share lock of its manifest on the
  workspace row keeps the freeze waiting.
- `ResetIsFinal`: from `RESET_VERIFIED` on tables and sources stay empty, though workers and the owner still write: what
  they could add refers to rows that are gone.
- `CustodyKept`: the workflow implements `WorkspaceCustody`, and lets nothing land behind the freeze.
- `ConfirmedResetCompletes`: a confirmed reset gets its receipt unless somebody interfered (`disturbed`: a lost request, an expiry,
  a change of platform memory, a worker's late file, the owner's retry). Fairness: the threads that serve requests and
  uploads run on; nobody has to begin a request, and nothing else is fair.

## 7. Package production

| Model | Code |
|---|---|
| `FormPackage`, `NewPackage`, `FirstDocument`, `Document` | `form_package`: a package of all documents, once for each version of the requirement matrix |
| `StartGeneration`, `Runs` | `start_generation`: a run is identified by its input, so the same input finds the same run |
| `Claim`, `FinishJob`, `Reconcile`, `Crash` | what the queue of section 3 does to the run's job |
| `AdvanceGeneration`, `Before`, `Then`, `ExistingCandidate`, `RenderLater`, `RenderFails` | the stages of `_generate_id_document`; the status of the run only moves forward |
| `PutDerived`, `WriteBytes`, `File` | `put_derived` creates a file under its final name and writes it afterwards |
| `PublishCandidate`, `Outcome`, `Packaged`, `Candidate`, `Evolved` | one transaction: the candidate and the next version of the package |
| `ReviewCandidate`, `FinalizeCandidate`, `Reviewer`, `Independent` | reviews by several people, the finalization on the latest approval |

A version number stands for package, book and memberships, which are always appended together. The register document of the package, which
every version carries along, is left out.

- `CandidateHasBytes`: a published candidate has its whole file, although a lost worker leaves part of one and the next
  attempt finds a file of that name.
- `FinalizedIsApproved`: what is finalized was ready for print and approved as this candidate by somebody other than the one who
  finalized it, whatever reviews came before or after.
- `FollowsPackage`: the versions implement `DocumentPackage`, where documents change one at a time. A generation that copied
  a version which is not the latest any more would undo another document's draft or finalization.

Only safety is checked: runs wait for reviewers, who need not come.

## 8. Professional assistant

| Model | Code |
|---|---|
| `BeginAsk`, `InsertTurn`, `CommitAsk` | `enqueue_turn`: both ordinals are read by plain `SELECT`s and defended by unique keys |
| `Cancel` | `cancel`: a queued turn is cancelled at once, a held one is marked |
| `Claim`, `Expired`, `Closed` | `claim_next_assistant_turn` (0030): expired leases are closed first, and never taken over |
| `Start`, `AppendDelta`, `Heartbeat`, `StreamEnds`, `AnswerIsEmpty`, `GenerationFails`, `FailWith`, `Leave` | the worker; `append_delta` asks for no lease |
| `BeginComplete`, `CommitComplete`, `Fail`, `Locked` | `complete` holds the row of the turn from its first statement on; its message may lose the ordinal to a question, which rolls it back |
| `Lapse`, `Crash` | time and lost workers |

- `AnswerIsOutcome`: one question for each turn, and one answer after it for exactly those that succeeded.
- `ToldOutcomeStands`: the stream ends at the first outcome that it sends, so this has to be the turn's then and later.
- `TurnsSettle`: fairness is that of `run_forever` (a worker claims and works on) and of time for leases that nobody holds any more. The
  lease of a living worker need not lapse.

## 9. Project understanding

| Model | Code |
|---|---|
| `Register`, `Registered`, `Active` | registration of a version with its chain of jobs; a version that replaces another one takes its place in the corpus |
| `Review`, `StartProjectUnderstanding`, `Key` | decisions of the owner, and a request whose key decides whether it is a new job |
| `ClaimDocument`, `ClaimFormation`, `Settle`, `Refuse`, `Collide` | what the queue does; an exception of the database settles the job as failed |
| `Extract` | `persist_structured` |
| `ReadCorpus`, `Materialize`, `Project`, `AwaitProjection`, `Commit`, `Canon` | the transaction of `assemble_workspace`, statement by statement at READ COMMITTED, with the rows whose unique keys other transactions wait for |

Any chain with an unfinished stage may be executed next: priorities, pauses, delays and several workers make every order possible.
The chain of the run has one assembling stage, which stands for the three that call `assemble_workspace`; the module has the chain
as a constant.

- `ModelIsOfItsCorpus`: what was decided when the corpus was read has effect in the model, and nothing outside of its sources is in
  it, though candidates and decisions are read by later statements.
- `ProjectionIsCanonical`: the projection is what the rows of its model say, whoever rebuilt it last.
- `RequestsAreHeard`: decisions made before a request get into some model, unless the job of a request ended in a collision with
  another transaction. The key of the job must change with the decisions, or an old job stands in for the new request. Fairness: workers claim
  and execute.

## 10. Recovery of normative pages

| Model | Code |
|---|---|
| `ReconcileExpired`, `ReconcileDuplicates`, `CancelUnqualified`, `Expired`, `Settled`, `Duplicate` | what a run of the batch tool settles first |
| `ReadPages`, `Pending`, `InsertJobs` | `enqueue_pending_raster_pages` reads on one connection and inserts on another |
| `ClaimNext`, `ClaimNothing`, `ChildTimesOut`, `Terminalize`, `Fenced`, `Exit` | the driver: one child process for each job, its lease of ten minutes is not extended |
| `FindCandidate`, `Extract`, `RecordCandidate`, `ReadPrior`, `WriteVersion`, `Written`, `LatestPageVersion`, `ReportCandidate` | the child and its transactions; `Extract` is the paid call |
| `Reinventory` | a new inventory gives the pages a new version |
| `DriverLost`, `LeaseLapses` | losses; children go on without their driver |

- `PaidOncePerInventory`: neither a lost answer, a lost driver nor a second run pays for a page again.
- `SuccessHasCandidate`: success and complete pages have the candidate that was paid for in store, although page versions are
  computed from a plain `SELECT` and one of two children loses.
- `JobsSettle`: every queued job is settled by its driver or by a later run. Fairness: processes that run go on, leases lapse, and operators start the
  tool again and again — the strong fairness of `ReadPages` and `InsertJobs`, which other drivers can disable.

## 11. Tender process

| Model | Code |
|---|---|
| `Call`, `Claim`, `Claimed` | a command with its idempotency key: an insert waits for a running transaction with the same key, a completed one returns the process |
| `Lock`, `Stale`, `Check`, `Acceptable`, `Prepared`, `Finalizable`, `Deniable` | `SELECT ... FOR UPDATE`, the comparison with state and revision, preconditions and grants |
| `WriteOutput`, `Reached`, `Written`, `Finalized`, `Contenders` | the loop of `finalize` over `decision.deliverable_ids`: a finalized version after the latest one of each output named |
| `Commit`, `Outcome`, `End`, `Refuse` | what becomes visible at the commit |
| `Insert`, `Share`, `Publish`, `Appends` | authors: the row is in table and unique index, then the foreign key takes its key share lock |
| `LoseToAuthor`, `LoseToSession`, `Break` | deadlock detection, a lost connection |

Only what guards read is kept of the records: the assessment, issues (open, harmless, confirmed) and the versions of each kind of output. An issue that the
code calls indeterminate is an open one that nobody confirms.

`Lists` is what callers may name as the outputs to finalize. The code takes the list as it is: it compares the ids neither with each other nor with
the kinds nor with the process, and the only condition on them is that a successful outcome names five (0006:315). The model therefore lets a
command name any outputs, one several times or one of another process (`Foreign`), and claims nothing about which outputs a success finalizes: naming one
output five times succeeds with four kinds that have no finalized version, and naming an output of another process finalizes it there. What such
a version does to the other process, its waits and its unique keys is not modelled; nor are several outputs of one kind in a process, which the code admits.

- `EventsTellTheProcess`: one event for each revision, each an allowed transition from the one before, the last one is what
  the process is.
- `SuccessIsSound`: at the moment of success no committed issue is open and every kind of output has a version that is not blocked.
  Nothing but the locks of foreign keys keeps an issue from being appended between the count and the commit.
- `AppliedIsNotRefused`: a command that took effect is not refused as a conflict when it is sent again.
- `NoStandstill`: while a transaction is open, one that is open can go on.

## 12. Practice guidance

| Model | Code |
|---|---|
| `Extract`, `Verify`, `Reopen`, `Correct`, `RecoverRegion`, `RecoverNatively`, `Succeed` | the evaluations in `commands.py` and `pipeline.py` that add versions and dispositions to the files of evidence |
| `Status`, `Agreed`, `Terminal`, `Reconcile` | `reconcile_bounded_recovery_command`: refused unless every version has one terminal status |
| `Present`, `Latest`, `LatestSupported`, `Pairs`, `Quarantined`, `Publishable`, `Verified`, `PageState`, `PageStates` | what it writes into the manifest: derived from the evidence that the manifest froze |
| `Begin`, `Loops`, `Items`, `Proceed`, `Take`, `End` | `persist_verified_guidance_command` and its loops; a process may end anywhere, a refused call raises and ends it |
| `SaveCandidate`, `SaveVerification`, `Select`, `RecordConflict`, `Publish`, `SaveReceipt`, `SaveReconciliation`, `SaveCoverage`, `RebuildLexical` | one transaction each of `PracticeGuideRepository` |
| `Superseded`, `Taken` | the unique keys of 0013 and 0009 that refuse an older receipt or reconciliation, or a version another manifest has |
| `Construct`, `Retrievable`, `Activate` | `construct_manifest` into a file, `persist_manifest` of that file with the activation |

A manifest is a record of the evidence it was made of; everything else it says is computed from it. A candidate has an original and at most one successor, since
neither correction nor recovery starts from a successor. Contradicted and insufficient versions are one disposition, `refuted`: neither is published, and
both allow a correction. A version that is supported but fails the deterministic validation is insufficient too.

- `OneVersionIsAuthoritative`: an original and its successor are never both canonical guidance. A unit is never withdrawn, so this must hold over all
  manifests that are ever persisted: `Agreed` refuses a native successor of a parent with a status of its own, and what was supported is neither corrected nor asked again.
- `CoverageIsCommitPoint`: once a manifest is recorded, all it names is in the database, wherever earlier attempts stopped.
- `CompletedPersistIsCoherent`: a persist that ends normally leaves the newest receipts, the newest reconciliation, the selected verifications and the projection
  telling its own manifest, also after another one stopped half-way.
- `ReleaseCoversManifest`: the active release has all units its manifest publishes, although a construction takes whatever the edition has at that moment.
- `RestartIsSafe`: a persist is refused on its way only where another manifest was persisted, at least in part, in between. It is the enabledness of a repetition,
  said as a state predicate.
- `QuarantinedIsNotRetrieved` is what the documents say of conflicts (section 15).

## 13. The runs

| Run | Shows | Instance |
|---|---|---|
| `jobs` | `ExecutionsAreFenced`, `SuccessIsComplete`, `LiveLeaseRespected`, the refinement of `JobLifecycle`, and `JobsSettle` under `FairSpec` | 2 workers, a chain of 2 jobs and one identity for a manual retry, 2 attempts, 2 pages, 1 owner command, 1 crash |
| `intake` | `OrphansHaveCauses`, `PublishedBytesStay`, the write fence, the refinement of `DocumentRegistry`, and `RequestsSettle` under `FairSpec` | 4 requests (two crossed, one repeated, one damaged archive), 2 documents, 2 contents, 2 faults |
| `lifecycle` | `HoldKeepsMaterial`, `PurgedAfterExport`, `ResetLeavesRetained`, the refinement of `WorkspaceCustody` | 2 plans, 2 items of which one is retained, 1 hold, 18 versions |
| `reset_workflow` | section 6 under `FairSpec` | 2 prepares, 1 execute, 1 source, 1 derived file, 1 fault |
| `production` | section 7 | 2 documents, 2 workers, 2 owners, 2 attempts, 3 package versions, 2 formations, 2 starts, 1 crash |
| `assistant` | section 8 under `FairSpec` | 2 questions, 2 workers, 1 delta, 1 crash |
| `understanding` | section 9 under `FairSpec` | 2 documents, the second replacing the first, 2 workers, 1 review, 2 requests, 1 crash |
| `ntd_recovery` | section 10 under `FairSpec` | 1 page, 2 drivers, 2 page versions with a job, 1 second inventory, 1 loss |
| `tender` | section 11 | 2 sessions, 1 author, 2 keys, 2 kinds of output, 3 lists of outputs, 2 issues, 5 appended records, 1 fault |
| `tender_bypass` | violation: a finalized process without successful outcome | the same |
| `guidance` | section 12 | 2 candidates on one of 2 pages, one illegible, their successors in conflict; 4 versions, 2 manifests |
| `guidance_quarantine` | violation: a quarantined version in the projection | the same |

Type invariants and supporting invariants that are theorems (section 14) are not repeated in a run. `TypeOK` of `WorkspaceReset`, `AssistantTurns` and
`ProjectUnderstanding` is stated in the modules; it can be checked by adding it to the configuration.

### Bounds, and why they are enough

*Jobs.* Two workers are what fencing is about: one that lost its lease and one that got it. A chain of two gives a
prerequisite that succeeds, fails, is cancelled or is still open; every job has at most the
prerequisites of its chain, and they enter only by quantifiers. Two attempts give a first, a last and an exhausted one; two pages a
checkpoint between effects. One owner command meets every state of a job and of the worker on it; a command
that follows another one is left to the theorems, which have no bound on commands. One crash next to any number of lapsed
leases: a lapse does to the row what a crash does, and lapses are not bounded.

*Intake.* Opposite orders of two documents make the deadlock, equal contents make shared bytes and duplicates, the third
request repeats a manifest. Both crossed requests can create the shared object and so race to delete it, with a second object behind it. Two faults: one for a
request, another for its compensation or its repetition.

*Lifecycle.* `MaxVersion` counts transitions. A way from `PROVISIONING` to `PURGING` takes 13 of them and ends at version 14.
Eighteen hold a purge that failed and is resumed up to its verification, while the hold comes and goes, a first purge
with its destruction, and a reopening up to `EXPORTING` of the next revision. Two plans: one that failed or went stale and its successor. Two items show the difference
between the retained material and the rest. Longer ways — the second archive after a reopening, two overlapping holds — are left to
the theorems `NoPurgeBeforeExport`, `ResetIsComplete`, `CustodyIsKept`, `HoldsProtect` and `FlagFollowsHolds`, which know no bound.

*Reset.* Two prepares race for the version; after one of them only one challenge is bound, so one execute is enough for what it
races with: the upload, the worker, the late prepare. Two rows a table show the difference between one row
deleted and a table emptied.

*Production.* Two workers on one run are an overtaken execution, on two runs the race for the next version. Three versions: formed, and two
changes of which the later one must carry the earlier. One document has an authority gap and an official template, the other
neither, so that every outcome of validation occurs.

*Assistant.* Two questions race for both ordinals and with an answer; a second worker closes what the first still answers.

*Understanding.* A replacement takes a source out of the corpus while another transaction assembles it; one decision between two requests
separates a key that changes from one that does not.

*Recovery.* Pages meet only in the order of the queue; everything that can be paid twice happens to one page with two drivers. The second
inventory opens it again while the first job's child is still running.

*Tender.* Two sessions carry one command twice or two commands. `MaxAppends` bounds the appended records of a whole behaviour:
one assessment, an issue with its confirmation and one version of each output, in any order. `MaxLag`
says how many revisions a call on its way may be behind when a new command is issued; 0 still lets it be one behind when it
arrives. The code has five kinds of outputs, which differ in nothing that is modelled: two of them show the order of writing. `MCLists` names both, in one order since
the kinds are alike, one twice, and one with an output of another process.

*Guidance.* Two manifests are the one that is persisted and the one that came in between. Between them an original is refuted and corrected, reopened, recovered
from a region or natively; both successors clash. The second page stays without candidates. `Answers` says what the models may answer
on each version: both outcomes where a step depends on it, one where it does not. Commands run one at a time, as a curator runs them. Two manifests do
not reach a third one with the page states of the first; the theorems have no bound on manifests.

`CHECK_DEADLOCK FALSE` is said where the system may stop: batches of requests and the evidence on a guide have an end, a lifecycle ends in
`DESTROYED` or at `MaxVersion`, workflows and conversations end. Job runs do look for deadlocks: workers always poll. Symmetry is used in `lifecycle` over
identities and in `tender` over sessions, whose properties are all of safety; no definition singles one of them out.

Every property of a passing run has a mutant in `PROJECT.json`: a plausible mistake in a mapped definition for which
TLC finds that property violated under the same configuration. The mutated forms stand right before the definitions they
replace.

## 14. The proofs

Assumptions: those that the modules name (`JobsAssumption`, `BoundsAssumption`, `BatchAssumption`,
`FaultsAssumption`, `ItemsAssumption`, `VersionAssumption`, `MembersAssumption`, `PagesAssumption`, `RequestsAssumption`, `FilesAssumption`,
`NoneAssumption`), which TLC evaluates in the runs. No set has to be
finite for the proofs, and no bound has a value: any number of workers, jobs, requests, plans, holds, versions.

**Jobs** (`DurableJobs_proofs`). `IInv` adds to the invariants of the runs what the stage of a worker says about its job
(`ExecutionShape`): the claim names a job and its token is one of the job's generations; who passes the fence after
`mark_job_running` has a running job; every page before the one in hand is recorded. Without it neither `SuccessIsComplete`
nor the correctness of `FinishJob` is inductive: the success code was chosen steps before the row is written.
The proof is split by what a step can disturb: `RowsInv` (rows and receipts) is kept by the three kinds of
write (settling, moving, keeping), the shape of other workers by frame lemmas (generations only grow,
pages only grow, a row of a fenced worker does not change under it), the shape of the actor stage by stage.
From `IInv` follow the safety theorems, the action properties `TerminalIsFinal` and `LiveLeasesAreRespected`, and
`ImplementsLifecycle`.

**Intake** (`IntakeRegistration_proofs`). The core is that a transaction reads statement by statement and still takes effect as if it had run
alone. `ReadsAreKept`: what it has not seen is not in the versions it read, and these are still the first ones of the document.
`RowsAreOwned`: unique keys leave each document one writer, and nothing is pending behind the fence. `ViewsAreDistinct`,
`ProgressIsVisible`, `ManifestsAreLocked`: what a transaction sees has no content twice, contains all uploads behind the loop,
and belongs to a new manifest that nobody else works on. At the commit these make the step of `DocumentRegistry`
(`Serialisable`); `ContentsAreUnique`, `WholeBatches` and `NothingBehindTheFence` follow as well.
Of the object plane the invariant says only what a request remembers to have created (`CreatedIsOwn`): bytes of its own uploads, until it commits or has
undone them. `NothingIsOrphaned` and `PublishedBytesAreSafe` are about steps. An object becomes an orphan when the last request that answers for it
stops doing so: `ResponsibilityStep` goes through the ways of that, recording, commit (`CommitPublishes`), deletion, and the three that
`GivesUp` names. `SafeStep` shows that no step of any request reaches an object that is safe.

**Lifecycle** (`WorkspaceLifecycle_proofs`). `PurgedAfterExport` is not inductive, since recovery leads from anywhere to
`PURGING`. The strengthening ties the detour to a mark: `RECOVERY_REQUIRED` is left towards a purge only with a checkpoint, a checkpoint
needs an execution, an execution needs a purge that has begun (`TracesNeedPurge`), a purge that has begun is marked in the row and has its
export (`PurgeIsMarked`), and a marked workspace is never reopened. `ResetComesFirst` and `VerdictsLast` say that what an
attestation has verified stays true though writes still land and executions still run; `PlansComeFirst` keeps the kind of a plan fixed once
something was done about it. `EdgeFacts` is the only place where the table of edges is expanded. `HoldsProtect` needs
no invariant: the guard of the transition alone keeps a purge from beginning, and without a purge no execution starts.
`CustodyIsKept` maps steps by phases (`PhaseEdges`): the row's mark decides between sealed and condemned.

**Reset** (`WorkspaceReset_proofs`). No record says how far a request came, so the invariant has to find it in the requests. `ChainIsPlaced` ties the stage of
a request that is under way to the lifecycle state and version it expects; `VersionsTell`, `OneLeader` and `ConsentIsOnce` say why two cannot be: two prepares may read the same
version, but one transition makes it stale, and a challenge is consumed once. `OneAtATime` states this by itself. Thereby the stage
tells what was done: `KeptUntilPurge` (nothing registered is deleted before the purge), `UploadsArePlaced` (a registration that is still open
holds the freeze back), `ArchiveIsWhole` (from the archive on, it has all there is) give `NothingIsLost`; `PlansCover` (the plan lists the objects of
all registered documents) and `JobsAreRows` (what workers and owners write refers to rows) give `EmptyStays`, from which `ResetStands`
follows. `Custodial` maps each transition by `PhaseStep` to a step of the custody, and deletions to its deletions.

**Recovery** (`DerivedData_proofs`). `PaidOncePerInventory` compares a counter with a counter; the proof counts. `PaidByChildren` bounds the payments of a page
by the number of its jobs whose child is past the request (`Spent`), since a child asks once and is never started again. `JobsAreOfInventories` bounds the versions
for which there are jobs: a page without a job has only versions that inventories made, and what children append later is kept out by their job, even where a driver
inserts what it read before. The jobs of a page differ in their version (`SpentAreVersions`), so there are no more than inventories. `SuccessIsStored` needs that the result of a child is behind
a stored candidate at every step to it (`ResultsHaveCandidates`), and that who waits has a claimed job (`DriversWaitForJobs`).

`DerivedData_proofs` also has the theorems about the next two components, as the instances `Chat` of `AssistantTurns` and `Model` of
`ProjectUnderstanding`, whose variables it declares under names of their own: a reader finds there `Chat!AnswerIsOutcome` where the run of
`AssistantTurns` checks `AnswerIsOutcome`. Neither proof uses an assumption on a constant.

**Assistant** (`Chat` in `DerivedData_proofs`). That an answer is stored exactly once is decided by a worker that holds the row of the turn, while others may have closed
the turn since it was claimed. `BusyHaveOpenTurns` says what a worker may still rely on: no outcome of its turn was told, and the turn is in the state
that the worker's step expects unless a claim has closed it as `reconciliation_required`. `ClaimedOnce`: no two workers have the same turn, since an expired lease is closed and not taken over. `MessagesGoWithState` counts
questions and answers by places in the list of messages, so that an append adds one place; `EndsGoWithState` does the same with the outcomes
in the events, of which there is one exactly if the turn is in that state. Both hold between the steps of a transaction because the message, the event and
the state are written at its commit.

**Understanding** (`Model` in `DerivedData_proofs`). A corpus names the number of reviews it has taken in, and a candidate may be reviewed again while its transaction is under way or
long after its model was stored. `ReviewsKeepFits` is the lemma that carries the proof: a review behind the reading of a corpus can only take a decision of the
corpus back, never make one, so what fitted still fits. It rests on the latest review of a candidate being the one at the highest place of the log
(`LatestIsThere`, `LatestAppended`). `OpenFit` and `StoredFit` say that what a transaction has read and what is stored fits; two transactions of one corpus
join what fits. For the projection, `ProjectsAlone`: of the transactions on one corpus one at a time has rebuilt the entries, because the others wait for its rows, and what it saw of the tables
has not changed until its commit (`CommitKeeps`), where `OthersFindModel` gives everybody else a model to build upon.

**Tender** (`TenderProcess_proofs`). `SuccessIsSound` is decided when a session counts the open issues and violated, if at all, when an author commits
one later. In between lies what the strengthening says: the row of the process has one holder and then no sharer
(`RowIsLocked`), so no record that a guard counts can become visible; what the holder has compared and checked therefore still holds
when it commits (`ChecksStand`); and a running command has its key for itself (`KeysAreHeld`), which carries `AppliedIsNotRefused` over
repetitions. `EventsTellTheProcess` is inductive with these.

**Package production** (`PackageProduction_proofs`). `CandidateHasBytes` needs that whoever publishes next has a whole file
(`PublishersHaveBytes`), which no later creation of that file takes away. The documents of all versions are `Sound`: without a run, or with a run of their own
that has a candidate, approved if it is finalized. `VersionStep` shows once that a version appended to the others keeps this if its documents are those
of the latest version or sound by themselves; publication, finalization and formation are its three uses. `ImplementsPackage` maps
the last version to the package: the guard `r.v = Version` makes a copy of an old version one of the latest.

**Practice guidance** (`GuidanceMemory_proofs`). None of the five properties is inductive. `PersistInOrder` says what each stage of a persist has behind it: the items that
are not in `todo` any more, and those of all earlier stages, are in the database, and the newest of their kind where that matters. At the
stage of the coverage this is all that `CoverageIsCommitPoint` asks; at the end it is `CompletedPersistIsCoherent`. `ReconciledHaveReceipts` ties reconciliations to
manifests with a receipt on every page, from which `RestartIsSafe` follows. `OneVersionIsAuthoritative` is decided in the evidence: `EvidenceIsSettled` says that a version has a successor
only when it was refuted, could not be read or is superseded natively, `ManifestsAgree` that no manifest has an original as supported while another one has its successor, and `UnitsArePublished` that every unit comes
from a manifest. `ReleaseIsBacked` keeps in the file of a construction what was in the database when it was written. `CommandShape` relates work, stage and list.

| Theorem | Property | |
|---|---|---|
| `DurableJobs_proofs` `TypeCorrect`, `LeasesAreShaped`, `ReceiptsSettle`, `PrerequisitesAreMet`, `AttemptsAreBounded`, `FencingIsExclusive`, `SuccessMeansComplete` | `TypeOK`, `LeaseShape`, `ReceiptSettles`, `PrerequisitesMet`, `WaitingHasAttempts`, `ExecutionsAreFenced`, `SuccessIsComplete` | invariants |
| `TerminalIsFinal`, `LiveLeasesAreRespected` | `SettledForever`, `LiveLeaseRespected` | action properties |
| `ImplementsLifecycle` | `FollowsLifecycle` | refinement |
| `IntakeRegistration_proofs` `TypeCorrect`, `ContentsAreUnique`, `WholeBatches` | `TypeOK`, `OneVersionPerContent`, `BatchesAreAtomic` | invariants |
| `NothingIsOrphaned`, `PublishedBytesAreSafe`, `NothingBehindTheFence` | `OrphansHaveCauses`, `PublishedBytesStay`, `FenceHolds` | action properties |
| `Serialisable` | `RegistersSerially` | refinement |
| `WorkspaceLifecycle_proofs` `TypeCorrect`, `FlagFollowsHolds`, `NoPurgeBeforeExport`, `ResetIsComplete` | `TypeOK`, `HoldFlag`, `PurgedAfterExport`, `ResetLeavesRetained` | invariants |
| `HoldsProtect` | `HoldKeepsMaterial` | action property |
| `CustodyIsKept` | `CustodyKept` | refinement |
| `WorkspaceReset_proofs` `TypeCorrect`, `NothingIsLost`, `ResetStands`, `OneAtATime` | `TypeOK`, `SourcesAreArchived`, `ResetIsFinal`, `OneRequestActs` (stated with the proof) | invariants |
| `Custodial` | `CustodyKept` | refinement |
| `DerivedData_proofs` `TypeCorrect`, `PaidOnce`, `SuccessIsStored` | `TypeOK`, `PaidOncePerInventory`, `SuccessHasCandidate` | invariants |
| `AnswersAreOutcomes`, `ToldOutcomesStand` | `Chat!AnswerIsOutcome`, `Chat!ToldOutcomeStands` | invariants |
| `ModelsFitTheirCorpus`, `ProjectionsAreCanonical` | `Model!ModelIsOfItsCorpus`, `Model!ProjectionIsCanonical` | invariants |
| `TenderProcess_proofs` `TypeCorrect`, `OutboxIsHistory`, `SuccessRestsOnRecords`, `RetriesAreSafe` | `TypeOK`, `EventsTellTheProcess`, `SuccessIsSound`, `AppliedIsNotRefused` | invariants |
| `PackageProduction_proofs` `TypeCorrect`, `CandidatesCanBeRead`, `FinalizationIsIndependent` | `TypeOK`, `CandidateHasBytes`, `FinalizedIsApproved` | invariants |
| `ImplementsPackage` | `FollowsPackage` | refinement |
| `GuidanceMemory_proofs` `TypeCorrect`, `OneVersion`, `CommitPoint`, `Coherent`, `ReleaseIsComplete`, `Restartable` | `TypeOK`, `OneVersionIsAuthoritative`, `CoverageIsCommitPoint`, `CompletedPersistIsCoherent`, `ReleaseCoversManifest`, `RestartIsSafe` | invariants |

Only model-checked: all liveness properties (`JobsSettle` twice, `RequestsSettle`, `ConfirmedResetCompletes`, `TurnsSettle`,
`RequestsAreHeard`) and `NoStandstill`, which are out of the prover's reach (fairness, `ENABLED`). Every other property
that a passing run checks is proved. What recursive definitions compute for every input cannot be
proved with the installed provers; no module has one.

## 15. Where the code does otherwise than its documents say

Shown by a run:

- `tender_bypass`: `ALLOWED_TRANSITIONS` (`tender/postgres.py:94`) leads from `waiting_for_authority` to `finalized`, and
  `transition()` asks nothing of that edge. A process can be finalized without outputs, review or outcome, against
  "Successful Tender completion requires professional finalization." (`tender/postgres.py:308`).
- `guidance_quarantine`: `record_candidate_guidance_conflict` names candidates and leaves the unit empty (`practice_guidance/postgres.py:1562`), the queries of
  retrieval exclude units with a conflict of their own (`practice_guidance/postgres.py:1669`, `practice_guidance/intelligence_postgres.py:191`), and no unit is withdrawn. A unit that a
  later manifest finds in conflict stays retrievable, against "a quarantined conflict cannot enter authoritative retrieval"
  (`docs/implementation/KG_ID_PRACTICE_GUIDE_INGESTION_v0.1.md:244`).

Stated in the modules, at their end, without a run in the project (TLC violates each under the configuration of its module; `CancellationSettles`
under its `FairSpec`, `ArchiveIsCurrent` with `MaxVersion = 24`):

- `CancellationSettles` (`DurableJobs`): a cancellation requested during an attempt that ends in a retry leaves the job queued for good
  (`retry_job` keeps `cancellation_state = 'requested'`, the claim takes only `none`, the reconciler looks at held jobs).
- `NoPartialDocument` (`IntakeRegistration`): the handler of a failed batch deletes every object the batch has created
  (`application_spine/postgres.py:452`), also one that another request has found in place since (`application_spine/object_store.py:119`) and registered
  a version with. No fault is needed (TLC finds 25 states with `MaxFaults = 0`): two requests with the same document race, one commits and the other fails
  on its unique key. "transaction failure leaves no visible partial document"
  (`docs/architecture/INDUSTRIAL_DOCUMENT_INTAKE_ARCHITECTURE_v1.md:19`) does not hold then. With one fault a request can take the bytes of its own versions:
  the answer to COMMIT is lost and the handler undoes a batch that is registered (`CommitAnswerLost`). `PublishedBytesStay` says what holds instead.
- `FrozenMeansStill` (`WorkspaceLifecycle`): the fence trigger keeps no lock, a write lands after the freeze manifest.
- `ReleaseNeedsFreshPlan`: a hold invalidates authorizations, not plans; after its release the old plan can be authorized again.
- `ArchiveIsCurrent`: the guard of `ARCHIVED` does not compare the revision (it takes a reopening: 24 versions).
- `LeaseIsRecovered` (`PackageProduction`): a generation whose worker is lost on its last attempt keeps the status it had, its job is failed.
- `ModelIsWhole` (`ProjectUnderstanding`): the first assembly of a corpus decides what its definition and matrix say; a document that is read
  later, in the same corpus, adds packages only.

Met while modelling:

- `record_document_page` does not look at the lease, so an execution keeps recording pages of a job that the
  reset fence has settled (`postgres.py:2044`). `ResetIsFinal` shows that nothing of it is left after the reset.
- The digest of a pause or resume decision repeats, so the record of a second pause of a job is dropped
  (`postgres.py:1507`).
- A receipt "without semantic effect" can be written for a job whose earlier attempt recorded pages
  (`postgres.py:1402`).
- Members of an archive that breaks off stay in the staging directory (`object_store.py:187`).
- Compensation leaves orphans without a lost process: a chmod or sync that fails after `os.replace` (`object_store.py:127`) leaves a moved object that
  `committed_created` does not know (`postgres.py:349`), and a `FileNotFoundError` between two compensations of one object ends the loop of the slower
  one (`object_store.py:225`, `postgres.py:451`).
- Two requests that admit the same document at once are promised one version; one of them fails instead
  (`postgres.py:490`, `docs/implementation/PRODUCT_APPLICATION_SPINE_v0.1.md:69`).
- A hold placed during a purge does not stop the deletions that remain (`lifecycle/destruction.py:284`).
- `assert_plan_current` (`lifecycle/destruction.py:240`) has no caller on the way to a purge, which may begin with a plan whose
  inventory is out of date (0003:748); the verification afterwards is what `ResetLeavesRetained` rests on.
- A failure before the purge ends in `RECOVERY_REQUIRED`, from where no edge leads back to the interrupted operation
  (0003:682).
- A reader of an assistant's event stream gets no event when an expired turn is closed, and waits for fifteen idle minutes
  (`web_app/app.py:1229`).
- A child of the recovery that dies between the candidate and the complete page version leaves the page open for good: its job keeps
  the page out of later queues (`tools/run_ntd_polza_canary.py:173`).
- Tender: a repeated command returns the present state of the process, not the one it had led to; records can be appended after
  finalization or blocking; a finalization copies the latest version of an output, which need not be the one its reviewer saw, and
  which is finalized with its blockers cleared if it was a blocked draft (`tender/postgres.py:931`, against "A deliverable with material
  blockers cannot be finalized." of `tender/models.py`). Which outputs it finalizes is up to the caller: their ids are not checked to be distinct, one of
  each kind, or of this process (`tender/postgres.py:930`).
- Practice guidance: a run whose pages return to the states of an earlier manifest cannot record that: reconciliations are unique by their content for
  the run (0013:171) and `save_reconciliation` compares with the newest only, so a third manifest with the page states of the first is refused after
  its units were published (`practice_guidance/postgres.py:1115`).
- Practice guidance: a persist of a manifest whose version another manifest has is refused only at its coverage (0009:470), when units and receipts of it are already there.

## 16. What is not modelled, and why

- *In modelled components.* Jobs: progress reports and heartbeat rows of the runtime, the content of pages. Intake: the
  parsing of archives and of names (paths are identities after case folding), upload limits, files whose deletion from the staging directory fails. Lifecycle: replays of operation keys,
  capability checks, outbox events, imports of archives, the filesystem adapter's paths. Production: the layout of templates,
  field resolutions, the backup manifest. Assistant: retrieval, prompt and model server. Understanding: what is found in documents beyond
  one field and one work each. Recovery: region crops and retries within one call, which the tools switch off. Tender: clauses,
  requirements and protocols that no guard reads, the audit of rejected commands. Guidance: normative rows with their
  resolution, activation of editions, the gateway, backup, qualification of models and acceptance. They change nothing that a property
  tells apart, or are pure functions.
- *Guidance in detail.* Commands run one at a time; candidates, units and coverage are written without a lock, and nothing is claimed of two persists at once. A verification is
  named by its version and disposition (the code: by the digest of the answer). Pages without candidates are blocked pages (the code also knows empty pages). `save_validation_failures`
  and `record_guidance_conflict` have no caller in `src/src`.
- *Time.* Expiry is an event that may happen at any moment; durations and clock skew are not modelled.
- *PostgreSQL.* Isolation, locks and keys are modelled as far as the actions meet them; loss of committed data is not.
- *Composition.* `WorkspaceReset` composes lifecycle, jobs, intake and objects at their interfaces. The detailed modules of these are not
  put into one state space: they are checked against the interface, and the reset takes from each what its actions can change.
- *Process machines* of support, audit, corpus and kernel: the pattern of `TenderProcess` over other states and records.
- *Other components.* Those of section 1.1 without a module are listed in `PROJECT.json` with the reason: without protocol state
  (transport, validation, pure functions, parsing, one-off tools, presentation), or under one operator or caller.
