# A verification of Saber's trusted core

This directory holds TLA+ models of the Rust core of Saber, a local harness for
coding agents: modules that TLC model-checks on small instances, and proofs that
TLAPS checks for every instance. The code is the reference: each definition is a
reading of named lines of `src/` (`PROJECT.json`, `map`).

## 1. The system

A front end (CLI, IDE, desktop) asks the core, `saber-core serve`, to create
goals, freeze plans and run them. The core is the only one that writes the
encrypted store of a workspace. It performs effects on a worktree, edits and
commands only after a person approved a card that shows them. Everything it
decides is an event in an append-only, hash-chained log.

### 1.1 Components

| component | its state | its operations | what makes it correct |
|---|---|---|---|
| event store (`crates/event-store/src/lib.rs`) | SQLite tables: events, idempotency, runs, projections, effect_outbox, policy_decisions, blob key, schema version | create/transition a run, record an intent, a result, a core event, a handshake failure, a decision, an enforcement; replay; verify; rebuild; recover; rotate the key | one chain; tables equal to what the log says; a key spent once; an answer that stays true |
| encrypted blobs (`encrypted_blob.rs`) | files named by their content hash, a row each | write, read | a row never names a missing or foreign blob |
| key custody (`key_custody.rs`, `saber-core/src/lib.rs`) | a record of one key, or of the old and the next | provision, load, stage, commit a rotation | the key of the file is always in the record |
| run engine (`saber-core/src/run_engine.rs`) | memory of goals, plans, runs, cards | create, freeze, start, pause, resume, steer, cancel, fork, resolve an approval | memory is a projection of the log; an effect happens once, after its approval, while the run is running; started runs end |
| control endpoint (`serve.rs`, `serve_windows.rs`, `core-protocol`) | an address, a bootstrap token, one thread per connection, two mutexes | bind, handshake, dispatch, subscribe | one core serves an address; a follower misses no event; no peer holds the locks for ever |
| change sets, multi-agent (`change_set.rs`, `multi_agent.rs`) | baselines, worktrees, quarantined ones | prepare, apply, roll back, commit; delegate, integrate, quarantine | rolled back means the baseline again; no conflicting integration |
| one-shot run (`saber-core/src/lib.rs`) | none beside the store | decide, approve, intent, execute, result | no effect before its audit |
| policy (`crates/policy`) | bundles by tier, a sequence, a grant ledger | decide, update, enforce, approve, revoke | deny wins; restrictions are monotonic; a one-shot grant is used once |
| effect broker (`crates/effect-broker`) | realms, leases, an intent journal, plugins | execute one effect in a fixed order; admit and quarantine plugins | every effect has an intent before it and a result after it, or is reported |
| tool broker (`crates/tool-broker`) | locked worktrees, a checkpoint | run (describe to compensate), roll back | a failed tool leaves the checkpoint's content |
| orchestrator (`crates/orchestrator`) | a task DAG, states, delegations | ready, delegate, report, exhaust, cancel | no task runs before its dependencies, or with more than its parent's grants |
| remote realm (`crates/remote-realm`) | tasks, leases | submit, lease, heartbeat, reap, admit a result, cancel | a result is admitted once, from the live lease |
| secret broker, egress (`crates/secret-broker`, `crates/egress`) | leases; rules | issue, consume, revoke, sweep; authorise, pin | a lease is consumed once; a connection is the authorised one |
| model providers (`crates/model-providers`) | token budgets, a registry | route, invoke, retry, account | the budget is exceeded by one answer at most, which is not handed out |
| registries (`plugin-registry`, `code-capsule`, `evolution`, `memory-authority`, `release-integrity`, `enterprise`, `health-supervisor`) | versions, tombstones, promotions, grants | publish, promote, revoke, roll back, escalate | monotonic versions; a revoked item is never active again |
| context and exchange (`context-engine`, `cax`, `resumption`, `sync-e2ee`) | indexes, imports, epochs | admit, revoke, query, import | indexes agree with what is admitted |
| sandbox (`crates/sandbox`) | realms of a backend | validate a plan, select, prepare, execute, destroy | no fallback to the host |
| evaluators (`production-gate`, `beta-slo`) | none, a buffer | evaluate | pure functions |
| clients (`packages/*`, `apps/*`) and `scripts/` | views | render, verify | they hold no authority |

### 1.2 How they interact

The endpoint's threads lock the engine, then the store, for the whole of a call.
The engine calls the store once per event: one SQLite transaction each, so a call
is a sequence of transactions with effects on the worktree between them. Other
processes (the one-shot CLI run, a second endpoint) open the same database file
and meet in SQLite's locks only. The one-shot run goes through policy, sandbox
and the same store; the effect broker joins policy, approvals, secrets, egress
and sandbox behind a journal that the store implements.

### 1.3 What is hard

* DEFERRED transactions that read first and ask for the write lock later.
* Retries: callers repeat a call with the same key when they miss an answer.
* A death, or an error, between any two transactions of one engine call, and
  between the steps of a key rotation or a migration.
* Several processes that create, migrate or rotate one store together.
* Memory that must equal a replay of the log, whatever happened.
* Approvals that arrive late, twice, for a step that is gone, or never.
* One-shot runs of separate processes that take the same number, and effects
  whose record, or whose record's record, cannot be written.
* An isolated effect asked again after its answer, its approval or the process
  was lost: the log remembers intents and decisions, the memory that held the
  spent grants does not.
* Tools whose work is judged by reading a directory that others write in, and
  undone by the same reading.

`PROJECT.json` lists each hazard at its line with the properties that cover it.

## 2. Modules

| module | models | state and actions |
|---|---|---|
| `StoreCommands` | the commands and the transition table | constants and operators shared by the two below |
| `Ledger` | what the store promises | an append-only sequence of accepted facts and a set of answers; `Record`, `Answer` |
| `EventStore` | the store, with concurrent connections | tables (`events`, `idem`, `runs`, `outbox`, `decisions`), a `version` of the database, `txn` per connection, the `writer`; `Begin`, `Upgrade`, `Commit`, `Reply`, `Refuse`, `Abort`, `Busy`, `Return`, `Done`, `Open`, `Crash` |
| `StoreCustody` | key, record, schema and blob key, with concurrent processes | the `record`, the file's key, its schema, and per process a place and a handle; one action per step of provision, open, migrate, create the blob key, rotate |
| `RunEngine` | the engine over the store's log | `log` and `stored` survive, `index` does not, `job` is the next step of the call under way, `performed` the effects; one action per store transaction or effect |
| `AuditedEffects` | what "audit before effect" promises | what was authorised, announced, performed and settled, which only grows; an action each, authorised and announced in either order |
| `OneShotRun` | `saber-core run`, several processes on one store beside the endpoint | the `ledger`, per process a place, its options, its number, realm and report; one action per store call, per step of the policy enforcement point and per call of the sandbox backend, with an error of each, and `Die` |
| `EffectBroker` | `EffectBroker::execute`: egress, sandbox registry, journal, policy enforcement, approvals, secret leases | the `ledger`, the place `at` of the one call, its `answer`; in the memory of a life the `policy`, the grants `consumed`, the `secrets`, the `realms`; one action per call into another part, with an error of each, and `Die` |
| `ToolBroker` | `ToolBroker::run` around that broker | the overlay (`files`, `link`, `index`, `root`), the `lock`, the `checkpoint`, the `phase` of the call and its `report`; lock, capture, every step of `EffectBroker` (which it extends), verify, record, restore, compare; and `Edit`, `Vanish`, `Reappear` of somebody else |
| `ControlEndpoint` | `bind_hardened`, and the connections of `serve` | the `address` and the place of each core; per connection what its thread does next and was told, who holds the two mutexes, the events stored; a read, a lock or a write of an answer per action, `StopReading` and `Disconnect` of the peer |
| `StoreRecovery` | `recover` beside connections that commit | the `log`, the `rows` of the runs table, the place of each recovery; `ReadLog`, `Compare`, `Rebuild`, `Replace`, `Recheck` against `Commit` and `Drift` |
| `StoreRecovery`, second section | `commit_artifact`, `EncryptedBlobStore::write`, `read_artifact` | the `files`, `blobs` and `artifacts` rows, a place per writer; `FindFile`, `Encrypt`, `Persist`, `CommitArtifact`, `Stop` |
| `ChangeSets` | `ChangeSetEngine` | the worktree, its copies and manifest, what is staged, committed and disclosed; a file at a time, with `Edit` and `Die` |
| `AgentWorktrees` | `MultiAgentEngine`: worktrees, delegations, integration | three sections: `RecordCreated`, `Make`, `Describe`, `MoveAway`, `RecordMoved`; `DelegateTask` over the log of bindings; `CopyFirst`, `AddFile`, `NextSource`, `RecordIntegrated` |
| `Resumption` | `capsule_from_facts`, `verify_capsule`, `continue_from` | the workspace's `files`, the `capsules`, the `report` and what was `continued` |
| `Delegation`, `GoalOrchestrator` | grants and their attenuation; the goal's tasks | state, cancelled tasks, delegations, budgets; `Delegate`, `SubmitReport`, `ExhaustBudget`, `Cancel` |
| `RemoteRealm` | `RealmCoordinator` | tasks, leases, time; `Submit`, `Lease`, `Heartbeat`, `Reap`, `AdmitResult`, `Cancel` |
| `PluginRegistry` | the registry of manifests, and the plugin host with its circuit breaker | `Publish`, `MarkAdmitted`, `Revoke`, `Authorize`; `Admit`, `NoteResult`, `Quarantine` |
| `CodeCapsules` | the evolution workshop and the registry of code capsules | candidates' states; admitted, evaluated, promoted, executed and rolled back capsules |
| `MemoryAuthority`, `KnowledgeFabric` | memories; chunks and their indexes; in a second section imported transcripts, which are admitted to the fabric | proposals, promotions, revocations, queries |
| `Safeguards`, `EnterpriseControl` | reflexes and safe mode; versions, rings and bundles; tenants, roles, break-glass | one action per public function |
| `SealedSync`, `EgressGate`, `PolicySnapshots` | sealed objects and their ledger; connections; `decide` and `update` of the policy engine | one action per public function; the server, the resolver and the operator are the environment |
| `ModelInvoker` | router, invoker, budget, registry; `drive_stream` | a task's budget and calls; a stream event by event |
| `SandboxRealms`, `ScrubbedChild` | plans, backends and realms; `run_scrubbed_child` | `Validate`..`Destroy` of a plan; the caller, the watcher, the child and its heirs |
| `Workspaces`, `Authorities` | the two compositions TLC runs | a behaviour is one of the composed state machines, chosen in `Init` |
| `EventStoreProofs`, `StoreCustodyProofs`, `RunEngineProofs`, `OneShotRunProofs`, `EffectBrokerProofs`, `ToolBrokerProofs`, `WorkspacesProofs`, `AuthoritiesProofs` | theorems (section 4) | |
| `MC*` | instances | small sets of commands, keys, plans |

`EventStore` is shown to implement `Ledger` (`ImplementsLedger`, an `INSTANCE`
with a refinement mapping). `RunEngine`, `OneShotRun` and `EffectBroker` use the
store as what `EventStore` and its theorems say it is: one command is one atomic,
durable step that is refused, replayed or appended. The last two do so literally:
their `Store` is an `INSTANCE` of `Ledger`, and a call is accepted when
`Store!Legal` allows it or an equal request stands. Both implement
`AuditedEffects` (`ImplementsAuditedEffects`): allowing decisions are the
authorised pairs, intents the announced ones, results the settled identities.
`OneShotRun` authorises first and names the command, `EffectBroker` announces
first, and its decision names the request and leaves the plan to the intent.
`RunEngine` cannot implement it: it performs an effect before it records the
intent. `ToolBroker` extends `EffectBroker`: it has its whole state and steps it.

`Workspaces` and `Authorities` put the smaller components under one run each. Those
components share no state in the code: each has a directory, a table, an event
type or a structure of its own behind `&mut self`. A product of their state spaces
would therefore show nothing that one of them does not, and the composed module
lets a behaviour be that of one `machine`; the variables of the others keep their
initial value. Components that do share state are composed properly: the workshop
and the capsule registry (`CodeCapsules`), the exchange and the fabric
(`KnowledgeFabric`), connections and the store's mutexes (`ControlEndpoint`).
A component whose methods take `&mut self` and call nothing that waits is a step per
method; its hazard is the order of calls, not their interleaving. Where the code
does wait, is killed, or shares files with others (`ChangeSets`,
`AgentWorktrees`, `StoreRecovery`, `ScrubbedChild`,
`ControlEndpoint`), a step is one such access.

Correspondence. In `EventStore` a command is one call of a public function; its
reads (`Begin`), the upgrade to the write lock (`Upgrade`), commit and answer are
separate steps because SQLite lets other connections in between them. In
`RunEngine` the functions of `run_engine.rs` are cut where they call the store or
touch the worktree. In `OneShotRun` the place of a process is the next call
`execute_run`, `PolicyEnforcer::execute` or `exec_in_registry` makes; the policy
it decides by is the one `execute_run` builds, a platform tier without rules and
an operator's tier that permits or does not, so `Decide` has three outcomes;
`Exec` may fail with the child not started, or started and killed. In
`EffectBroker` the place is the next call of `execute`, which borrows the broker:
nothing of its memory changes under a call, so time, registrations and revocations
happen between calls, and a policy stays for a life (nothing behind the broker
reaches `update`, nor `revoke` of a grant). The digest of a request stands for all
its fields but the time, as in the code, so two effects of one digest may differ
in plan, time or leases. In `ToolBroker` each reading of the overlay is one step
and others may write between any two; `inventory` and `git status` are operators
over files, index and the entry `visit_files` refuses; a child may write any set
of files, also under a `.git` directory, which no inventory enters, and a
restoration that fails may leave the file it was writing torn. Abstractions:
payloads, digests and texts are dropped or are members of small sets; identifiers made of a time stamp are fresh; the acceptance
checks of a goal pass or fail by choice, a command among them is run as the code
runs it, without a card or a record of its own; `command.test` is of the class of `command.run`;
`create_goal` belongs to `FreezePlan`.

## 3. Runs

| run | question | bounds, and why they are enough |
|---|---|---|
| `event_store` | do the tables, the log and the answers agree under every interleaving of two connections? | two connections (a conflict needs two), one run, one effect, one decision, keys that are reused by an equal and by another request, a bounded number of events; 358,840 states |
| `store_custody` | is the key always recoverable, the schema honest, the blob key permanent? | one founder that may rotate, one process that opens, four keys, every step may fail or crash; 193,037 states |
| `run_engine` | do runs keep their promises? | two runs of one plan (the second may fork the first), both plans mix an effect that needs a card with one that does not, one has two steps of one id and a command for its acceptance, the other two checks of one id; three calls beside the decisions, one fault (error, death or expiry) anywhere; 485,776 states |
| `one_shot` | do reports and records say what happened, and is audit before effect kept, when processes race? | two processes (sharing a run needs two) that ask the same or differ in one of clock, command, task, approval, permission; two outcomes of a child; three rows of the runs table (one each and one of the endpoint); every step may err, every process may die; 1,069,014 states |
| `effect_broker` | does what `execute` returns, and what the log holds, say what ran, and was it governed by its own call? | two calls in two lives (a retry and a restart need two), two requests and seven effects of them (same request with other leases, another plan, another time; on the network, allowed or not; without a child), a once-grant and a session grant that expire, policies that ask, allow or deny; every call into another part may err, the process may die anywhere; 1,418,728 states |
| `tool_broker` | is what is called verified or compensated really so, and is the lock that of the call? | two runs of five tools over two files and one under `.git`, any set of which an execution writes, in a repository; every step of `EffectBroker` with its errors; a restoration that tears a file; one edit, removal or death anywhere; 2,315,935 states |
| `workspaces` | is what is told of worktrees, artifacts, the runs table and the endpoint so? | three paths of two contents, one skipped by the inventory and one ignored by git, tracked or not, two edits by others; two worktrees asked for twice, two or three to integrate, with a file that is passed over and one that is not walked; two runs, one's name within the other's; two capsules; four artifacts of two contents, two writers; two recoveries of a log of four; two cores; two connections and three events in pages of two (a page that is cut, and one that is not); a death or failure between any two steps; 1,087,610 states |
| `authorities` | do the components that decide keep what they decided? | for each the least sets that hold every case its code tells apart, named in `MCAuthorities`: three tasks in the four shapes that tie them, a lease that expires twice, three versions, a cycle of three roles with rules a bundle refuses, results noted after a quarantine, any list of excluded models, a chunk that expires, a host in another spelling, mounts over one host directory, a read that fails; 349,961 states |
| `custody_retry` | *violated:* "leaving a recoverable key pair" | two rotations on one handle |
| `run_restart` | *violated:* a rebuilt engine sees the same truth | one death |
| `tool_undeclared` | *violated:* "any undeclared change" is noticed | the instance of `tool_broker` |
| `child_deadline` | *violated:* "the child is killed after" its deadline | one unit of input, pipes and cap of one unit; threads and clock fair, the child not |

A run with `violation` checks one sentence of the repository that the code does
not keep; the finding quotes it.

Every property of a passing run has a mutant: a plausible slip in one mapped
definition that makes TLC find the property violated.

`one_shot` identifies states by `MCView`: the set of facts instead of their order
(no property and no guard but the constraints, which are about sets, reads it;
the abstract step is a function of the sets), and without the history of
performed effects, which a process's own `executed` determines in what the
properties ask of it. Processes and outcomes are symmetric: all its properties
are of safety. `tool_broker` does the same, and leaves out the count of realms,
which no guard and no property but the types reads.

`CHECK_DEADLOCK FALSE` is set where the bounds on calls, events or keys end the
behaviours; nothing in the code waits for anything else.

### Fairness

Two runs state it. In `child_deadline` the caller's and the watcher's thread and
the clock are fair, and the child is not. In `run_engine`, `WF_vars(Step)`: the thread that serves a call goes
on with it; it holds both locks and waits for nothing. `SF` of deciding a card:
whoever is shown a card decides, however often it is interrupted by other calls.
Calls, faults, deaths and restarts have no fairness. `StartedRunsEnd` excludes
behaviours in which a fault happened (the code promises nothing after one: the
run stays running until it is cancelled), a card was spent on a decision that is
neither approve nor deny, or a resumption was asked again.

Goals two of whose checks have one id are excluded too: the outcomes have one key,
and the store refuses the second when it differs.

### What the runs found

* A rotation that fails after the rekey and is retried on the same handle can
  lose the only record of the key (`rotate_database_key`).
* After a restart, a run's workspace is the empty string until some other call
  names it: resuming, approving or cancelling it is refused, after the approval
  has been spent (`apply_event`).
* A directory that cannot be read has an empty inventory (`worktree.rs:121`): a
  command that leaves a symbolic link and an undeclared file in an empty overlay
  is verified, and its failure is called compensated.
* A child that closed its outputs, or wrote past the cap of both, and goes on
  running is not killed at its deadline: the caller waits for it under the mutex
  the watcher needs (`run_scrubbed_child`).

The modules also state sentences of the repository that the code does not keep.
TLC found each of them violated when it was tried (as the property of an instance
like those above); they have no run of their own, and the properties that do are
what remains true:

| stated | says | what breaks it |
|---|---|---|
| `StoreCustody!OpenedIsCurrent` | an open store is at the current schema (test of the upgrade) | two founders: `migrate` reads the version outside its transactions and sets it back |
| `RunEngine!EveryCommandApproved` | edits and commands run after an exact one-shot approval (`run_engine.rs:6-9`) | `verify_acceptance` runs the command of a `command_succeeds` check with no card, intent or result (`:1351`); such commands run once per check and only when the steps are settled (`EffectsAtMostOnce`, `SucceededSettled`) |
| `RunEngine!EveryStepSettled` | the verdict comes after the steps complete | `freeze_plan` takes two steps of one id (`:315`), and the first to complete removes both (`:232`, `:818`) |
| `RunEngine!AlwaysProjection` | memory is a disposable projection (`run_engine.rs`) | a resumption repeated under a used key sets memory to running, the store has it blocked |
| `OneShotRun!RunsStayDistinct` | repeated runs stay distinct (`open_run_store`) | two processes read the number before either creates its run |
| `StoreRecovery!CommitsStand` | the projection is rebuilt from the log | a run committed between the reading and the replacement is taken back |
| `StoreRecovery!NeverDangling` | never a dangling SQL fact (`commit_artifact`) | two writers: the row has the hash of the ciphertext that lost |
| `ChangeSets!DisclosedIsCommitted` | the commit is made after what it holds was disclosed | the inventory skips `node_modules` (`change_set.rs:24`) and `git add -A` (`:373`) does not, unless it is ignored; what is ignored is disclosed and not committed |
| `AgentWorktrees!EveryFileIsTold` | the others apply on top with overlap detection | of the second worktree on, what begins with `.git` (a `.gitignore`, a `.github`) is passed over untold (`multi_agent.rs:344`) |
| `AgentWorktrees!AnsweredIsWhole`, `ParentsExist` | the original request created the worktree; a child has a parent | a death after the event; a parent that is no run has the baseline's scope |
| `Resumption!NeverSilent` | drift is never continued silently | the workspace changes between the report and the continuation |
| `RemoteRealm!StaleRefused` | a stale success after reaping is refused (ADR-022) | the task was submitted or leased again in between: results name no lease |
| `PluginRegistry!QuarantineIsTerminal` | quarantined plugins never execute again | a third failure noted late turns the quarantined circuit into an open one (`plugin_host.rs:175-177`), which a success noted later closes (`:170-172`); admitting the plugin again closes it too |
| `CodeCapsules!ActiveIsPromoted`, `VersionsNarrow` | active means promoted and not revoked; versions never widen | revoking the capsule removes the promotion, but a candidate that is rejected or proposed again after it leaves it in force; a rollback, then a promotion, compares with the version in between |
| `Safeguards!RadiusIsOfCells` | the radius counts cells | one cell that signals again is counted again |
| `Safeguards!RingRunsVerified` | `promote` "must verify first: the caller owns the chain" (`release-integrity/src/lib.rs:262`) | `promote` takes any manifest, and neither chain, updater nor ring looks at another |
| `EnterpriseControl!CyclesRefused` | cyclic hierarchies are refused | a cycle within the depth is expanded |
| `SealedSync!FloorsHold` | epochs below the floor are refused from then on | a later revocation with a lower floor lowers it |
| `KnowledgeFabric!NothingUnrelated`, `ExportIsMaximum`, `RevokedLeavesQueries` | no hits, no pins; the bundle's class is the maximum; a revoked source leaves every query (ADR-014) | pins follow the other channel; the class of content within a structure; the library does not reach into fabrics |
| `ModelInvoker!SpentIsCharged` | partial consumption is still charged | a response that cannot be parsed leaves its tokens uncharged, and a caller may refund what was spent |
| `ModelInvoker!RegionIsKept` | regional data must stay within the tenant's region (`provider.rs:26`) | the router admits a global model for a regional request (`router.rs:144-152`) |
| `EgressGate!ResolvedFirst` | without pins "resolution must then be validated first" (`egress/src/lib.rs:193`) | `verify_connection` takes an authorization without pins for one of any address outside the blocked ranges (`:398`) |
| `SandboxRealms!NothingRunsFromWhatIsWritten` | no mount is writable and executable | validation compares targets, not host directories: `minimal_s3_plan` mounts one as tools and as scratch (`platform.rs:561-594`) |
| `SandboxRealms!CommandsResolveExecutable` | argv[0] resolves inside an executable mount | the mount that validates is not the one the path is mapped to when mounts nest |
| `ScrubbedChild!CallEnds` | the call ends after its child | the watcher saw the deadline, the caller joins it with the mutex held |
| `ControlEndpoint!LiveIsNeverReaped` | only provably stale sockets are reaped | a core binds between another one's look and its removal |
| `ControlEndpoint!OneHandshake` | never a second handshake | the token is looked at, then spent, in two steps |
| `ControlEndpoint!PeersAreAnswered` | no peer starves the others | answers are written with both mutexes held; it holds when every peer reads |

Observed while modelling, and stated as they are in the properties' exceptions or
comments, without a run of their own:

* The lock of an overlay whose directory is gone when the call ends is never given
  back (`release` needs `canonicalize`), also when the directory returns.
* A blob left by a crash under another label makes every later commit of that
  content fail until it is removed. In a repository, the metadata file the engine
  writes into a worktree counts as a change, so quarantine is always blocked there.
* A failing restoration tears the file it was writing (`worktree.rs:106`), which
  `FailedLeavesCheckpoint` allows one of; a `.git` directory is in no inventory, so
  what a tool writes there is neither noticed nor undone.
* A read of a child's output that fails ends it as its end does, without
  `truncated` (`process.rs:392`): `OutcomeIsTruthful` names it.
* The error `VocabularyEscape` of `organization_bundle` is never answered:
  `PolicyBundle::new` has one error, `InvalidPolicy`, which becomes `InvalidMapping`.
  `PolicyEngine::new` does not look at sequences, so a snapshot may have the
  sequence 0. `evidence_pack` takes no caller.
* `demote` of the update rings answers with an error on every path, whatever the
  history. A child whose stdin breaks is left running. After the first accepted
  handshake no other connection can open, though the desktop is said to keep
  several (`serve.rs:60`).
* Compensation restores files, not the Git index, and still reports `compensated`:
  `FailedLeavesCheckpoint` is about files.
* A patch is compared with the content it was made for only after it was executed.
* An effect whose enforcement record is refused (a retry at another time under the
  same decision) ran, and is answered with `AuditAfter`; a tool whose verification
  cannot be announced answers `Journal`, although its effect ran.
* Spent once-grants are in memory: after a restart such a grant is good again.
  `RanAsGoverned` promises one effect per grant and life.

## 4. Proofs

The theorems hold for every number of connections, commands, keys, runs, tasks
and processes, and for every bound. Every safety property and every action
property a passing run checks is the statement of one of them (those of `StoreCustody` with hypotheses on the
callers, named there); what only TLC
checks is named at the end of this section.

**`EventStoreProofs`.** The inductive invariant `IInv` says of the tables what
the properties say, and, the part that is needed to make it inductive, that *the
connection that has the write lock decided on a snapshot that is still the
database* (`SnapshotCurrent`): `Upgrade` takes the lock only when the snapshot is
the current version, and no other connection can change the tables while the lock
is held. So the checks made in `Begin` are still true in `Commit`. From it follow
`ChainNeverForks`, `KeysSpentOnce`, `ProjectionIsReplay`, `OutboxIsLog`,
`EnforcedOnceAfterDecision`, `AnswersAreDurable` and `TypeInvariant`.

`StoreImplementsLedger`, in the same module: an initial state of the store
maps to one of the ledger; `Commit` maps to `Record`, an answer to `Answer`, any
other step changes neither log nor answers. `Legal` of the ledger follows from
the checks of `Begin` by `SnapshotCurrent`.

**`StoreCustodyProofs`.** `CustodyTypes` and `BlobKeyIsPermanent` need nothing of
the callers. `OneFounderKeepsSchema` assumes one process that may create the
store, `KeyIsRecoverable` moreover one that rotates and that a handle is dropped
after a rotation that failed: `custody_retry`, and `OpenedIsCurrent` with two
founders, show that without these hypotheses the statements are false of the code. The argument for
`KeyIsRecoverable`: outside a rotation the record names exactly the file's key or
the two of an interrupted one; in a rotation the record names the old and the
next key, and the file is encrypted with one of them by the place of the rotator.

**`OneShotRunProofs`.** For any processes, options and outcomes. A process relies,
at each place of its program, on facts of its own making standing in the store
(`Relies`: past `create` its run, past `decide` an allowing decision, past
`intent` the intent, and so on); facts are never removed and no step of another
process touches its variables, so only its own steps have to be considered
(`RelyUntouched`, `RelyStep`). From this invariant, `Sound`, follow
`OneShotTypes`, `ReportsAreTrue` and `OneShotImplementsAuditedEffects`: a
`Persist` that allows maps to `Authorize`, an accepted `Intent` to `Announce`,
`Exec` to `Perform`, an accepted `Result` to `Settle`, all else to a stutter.
`NumbersAreFresh` needs that no run's number is above the count of runs and that
a process about to create one is at most one ahead of it (`Counted`).
`EnforcementIsTrue` needs that every result and failure is of a run some process
has joined, and that in a run of one process there is no result before that
process records it and none after its failure (`Accounted`); a second process in
the run makes it shared for good, which is the exception the property names.

**`EffectBrokerProofs`.** For any effects, grants, policies and credentials, any
number of calls and lives. One call runs at a time, so the invariant `Relies` says
what each place of `execute` has behind it: before the effect it has not run in
this call; past `journal` the intent stands, past `decide` an allowing decision;
in `succeeded` the effect ran; on the way out the answer is already true of what
ran (`Truth`), or there is none and the effect ran and is recorded. Facts are
never removed, so a step has only to establish what is new. `BrokerTypes` needs
that every fact asked for is one of the four kinds a call makes;
`AnswersAreTrue` is `Relies` at `idle`; for `BrokerImplementsAuditedEffects` a
recorded `Intent` maps to `Announce` (no intent of that digest stood, by
`Store!Legal`), a recorded allowing `Decide` to `Authorize` of every plan, the
performing of the effect to `Perform` (both stand), a recorded `Result` to
`Settle`, a replay of any to a stutter. `EffectsAreGoverned` has an invariant of its
own, `Governed`: whatever ran in this life under a once-grant has its grant among
the consumed ones (`Charged`), so a grant that `Decide` finds unspent has run
nothing in this life, and stays so until `Exec` (`Permitted`); leases issued so
far are bound to this request and in time (`Leased`).

**`RunEngineProofs`.** For any runs, plans, calls, faults and restarts. The memory
is compared with `Past`, what a restart would rebuild from the log as it stands.
`Past` is not stored, but each event appended does to it what `apply_event` does to
the memory (`RebuildAppend`): `Rebuild` is a function recursive over the log, and
what it computes is found by the least position at which two readings could
differ, an argument on natural numbers and not an induction principle. `Memory`
says that between any two writes of a call the record of a run is that of `Past`,
up to its workspace, or its resumption was answered again (`Diverged`), and that
the store's table shows the same state; from it follow `MemoryIsProjection` and,
with the cards, `EngineTypes`. `Carded` is needed for `CardsAreForNextStep`: a
pending card is of a run at rest and for the first step that remains, and the call
under way holds the card it will resolve. `EffectsHappenOnce` needs `Once`: the
steps performed are out of the plan (`Clean`), except for a run whose effect or
its record failed, which is neither blocked nor asked again while the process
lives, and whose rebuilt record after a restart has an empty workspace, which
refuses every transition. That is the fault `run_restart` shows, and here it is what keeps an allowed
read from being done twice. `EffectsAreApproved` rests on `Sanctioned` (of the
events so far the last decision on the step approves it); it is about the steps of
plans, since the commands of an acceptance have no card. `SuccessIsSettled` rests on
`Accounted`: a step that was the first of its id (`Firsts`) and is no longer in the
plan is settled, in order; nothing is assumed of the ids. That the command of a
check runs once is `Judged`: a run that was judged has nothing left of its plan,
and is not running again.
`EffectsOnlyOfRunningRuns` follows from the memory and is stated by no run.

**`ToolBrokerProofs`.** `ToolBroker` extends `EffectBroker`, so its proofs reuse the
broker's invariant (`Sound`) for the steps inside `execute`, and need of the rest
that the broker's state is still while a tool works on files. `Asked` ties the
phase of the tool to the call of the broker; `Undisturbed` says that without
another's write the overlay is the checkpoint until the effect ran and after a
compensation; `Truthful` that a verified report has an intent and two results in
the log and the declared content in the overlay; `Locked` that the lock is held by
the call that took it, as long as its directory is there.

**`WorkspacesProofs`.** A section per state machine, each with an inductive
invariant that its own steps keep and the steps of the others do not touch. Change
sets: until somebody edits, what was copied, restored, staged or shown so far is
the baseline's or the tree's (`Copied`, `Restored`, `Committing`). Worktrees: what
has no event has nothing on the disk either (`Making`). Delegations: the times in
the names order the log, so the parent a name points to stands before it (`Timed`),
and attenuation is transitive. Integration: the review has, of every file the walk
is through with, the content of that source or an overlap (`ReviewIsOfSources`).
Capsules: ready exactly where it would be captured again. Artifacts: a box about
to be recorded stands under its digest, or another writer's does (`Sealed`,
`Published`). Recovery: the row of a run is that of its last event. Endpoint: what
a thread will tell begins at the cursor and ends where the log stood when it was
read (`Paged`).

**`AuthoritiesProofs`.** The same scheme for the deciding crates. Most properties
are inductive with little more: what was accepted bounds what was accepted before
(`Bounded`, `Versioned`), bundles of one sequence are one bundle (`PolicySound`),
an open circuit has its failures and a closed one fewer, an epoch
admitted is at most the last seen, a submission that is over is one that was made,
a source ever handed out had one record (`Given`). Four need an argument of their
own. *The orchestrator:* the cancelled tasks are closed under dependents; the
search `cancel` makes is a fixed point because a walk of as many rounds as there
are tasks must repeat a set (`FS_Subset` on its cardinality). *The roles of a
claim:* what was expanded and what is on the stack cover the claim and the parents
of the expanded (`Covered`), so an empty stack leaves a closed set, and the
inherited roles are the least one (`InheritedClosed`, by the same counting, and
`InheritedWithin`); cycles and diamonds need no case. *The sandbox:* a realm's
plan was valid when it was made, targets that hold one path are nested
(`NestedTargets`), so no mount a command is mapped to is writable, and its path on
the host is below that mount's (`MappedPath`). *The child:* what passed through the
pipe and what is held add up (`Drained`), and who may read or write which flag
follows from the places of the caller and the watcher (`Guarded`).

Assumptions on constants are the named `ASSUME`s of the modules; TLC evaluates
them in the passing runs. They say that bounds, clocks, estimates, lengths and
sequence numbers are numbers, that finite sets are finite, that the models asked
for exist, and that a value for "none" (a core, a client, a scope) is not a member
of the set it stands beside. Those of the engine
say what `create_goal` and `freeze_plan` check, that an acceptance and a plan are
not empty, and nothing of the ids in them. What a theorem has besides as a
hypothesis it names (`OneFounder` and its like of `StoreCustodyProofs`).

Proving changed the models in three places: a `CASE` whose arms overlap, which
TLC reads in order and a proof cannot, is an `IF` now or has arms that
exclude each other (`Outcome` of `PolicySnapshots`, `VerifyVerdict` of `ToolBroker`); the second specifications of
modules with several sections stuttered on the variables of all of them and now
do on their own; recursion in what is proved about is a recursive function
(`Open` of `EnterpriseControl`, `Rebuild` of `RunEngine`).

Model-checked only: liveness (`StartedRunsEnd` of `RunEngine`), which is out of
the prover's reach, as are the temporal sentences the code does not keep
(`DeadlineKills`, `CallEnds`, `PeersAreAnswered`).

## 5. Not modelled, and why

* Parsing, canonical JSON, hashing and cryptography: a hash is the identity of
  what it covers, a key is a value.
* Operating system sandboxes, path guards, address parsing: I/O and data
  conversions that unit tests reach.
* The TypeScript and JavaScript clients: they hold no authority; what the core
  relies on is modelled as arbitrary calls.
* `production-gate`, `beta-slo`, `scripts/`: evaluators without a protocol.
* Of modelled components: the parsing of addresses and hosts (`EgressGate`), path
  guards and the filtering of the environment (`SandboxRealms`), what an importer
  reads out of a transcript (`KnowledgeFabric`), the wire formats of model providers
  (`ModelInvoker`), the decoding of requests and the Windows transport
  (`ControlEndpoint`). They convert data; a unit test reaches what can be wrong.
  The probes of models: the list of excluded models `invoke` is given is the
  caller's, and any list here. An error of `wait` and a poisoned mutex
  (`ScrubbedChild`).

## 6. Plan

1. *Done.* The store, its refinement and proofs; custody and its proofs; the run
   engine; the one-shot run over `Ledger`, the abstract order of an effect, proofs.
2. *Done.* `EffectBroker` and its proofs; `ToolBroker`; `PolicySnapshots`.
3. *Done.* Worktrees, artifacts, recovery and the endpoint (`Workspaces`); the
   orchestrator, the realm, the registries, context, sync, egress, models and the
   sandbox (`Authorities`).
4. *Done.* Proofs of the store, custody, the run engine, the one-shot run, the two
   brokers, and of every machine of `Workspaces` and `Authorities`.
5. Left: properties over the whole past of a grant (its revocation) in
   `PolicySnapshots`; abstract specifications of the endpoint (a log read through
   a cursor) and of the remote realm (each submission ends once), to which the
   detailed modules map step by step, as the store does to `Ledger`.
