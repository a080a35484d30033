# Albilich: a TLA+ model of the proof state and of the workflow around it

Albilich works on a mathematical problem with language-model sessions in
different roles (researcher, reviewer, verifier, integrator, writer, advisor).
Sessions never change the state of a proof themselves: each returns a *patch*,
and the host applies it to the problem's SQLite store if it passes a long list
of guards. Two things make the system trustworthy: the kernel that decides what
a patch may do (which reviews certify which entities, when a certificate is
still current, what a refutation takes down, when a claim counts as
integrated), and the workflow that plans, dispatches, supervises and merges
sessions so that nothing is lost, repeated or starved when processes die and
operators interfere. This directory models both. Paths below are relative to
`src/agents/generation/phase2/` unless they start with `docs/` or `README.md`.

## 1. Inventory

| Component | State it keeps | Operations | What makes it correct | Module |
|---|---|---|---|---|
| Proof graph (`patches.py`) | claims, routes, inferences, debts | patch operations | guards per role, no dependency cycle | `ProofState` |
| Certificates (`certificates.py`) | `host_certificate_bindings` of artifacts | bind, check currency, rebase, revoke, reopen | a certificate never outlives what was reviewed | `ProofState` |
| Integration (`patches.py`, `integration.py`) | `integrated` lifecycles of claims and routes | guard, resolve obligations, reconcile | an integrated claim has a healthy integrated route | `ProofState` |
| Assurance (`assurance.py`) | `claim_assurance` | designate, summarise | heterogeneous review is never satisfied by one family | `ProofState` |
| Invariant gate (`invariants.py`) | none | `validate_conn` over the whole store | every commit satisfies it | `ProofState` |
| Authority (`authority.py`) | host-issued authority of a session | operation scopes, independence class | a role does only what it may | `ProofState` |
| Patch concurrency (`patches.py`) | `current_revision`, `policy_event_head`, patch journal, artifact files | `apply_patch`, stale retry | serial history; a rebased patch conflicts with nothing it skipped | `PatchCommit` |
| Dispatch (`workflow.py`, `dispatch_execution.py`) | `scheduler_dispatches`, attempts, results, execution lock | record group, claim, run, commit, recover | every dispatch gets one result, in order, across a crash | `Dispatch` |
| Run control (`store.py`, `workflow.py`) | `run_status`, `run_control_policy` events | pause, resume, stop, hard stop | a request is honoured at a boundary and not lost | `RunControl` |
| Steering (`steering.py`) | event journal of directives and answers, their delivery and alignment | submit, deliver, consume, align | nothing is settled that no session was shown; an answer is spent once | `Steering` |
| Parallel admission (`parallel_admission.py`, `parallel_relaxation.py`) | none (a search) | choose the companions of a wave, grant tokens | a certified wave is optimal, a bound is a bound, a budget holds | `Admission` |
| Fairness (`decision_policy.py`, `scheduler.py`, `patches.py`) | `scheduler_decision_deferrals`, `scheduler_candidate_deferrals` | count, reset, promote | nothing that stays in a comparison waits for ever | `Deferral`, `Fairness` |
| Model sessions (`codex_runner.py`, `claude_runner.py`) | children, stop events, memory governor | launch, sample, stop, repair, cancel, collect | a stop reaches every child, a report of cancellation is true | `Sessions` |
| Scheduler heuristics, budgets, context building, audit chain, monitor, reports, writing, storage, experiments | see `PROJECT.json` | | functions of a snapshot, or input and output | not modelled (section 6) |

How they interact: the scheduler reads a snapshot and proposes a dispatch, in
the order its fairness counters allow; admission adds companions; the workflow
records the wave, builds contexts from one revision, runs the sessions, makes
each result durable and hands the returned patches to
`apply_patch_with_stale_retry` in merge order. `apply_patch` takes the SQLite
write lock, compares the base revision and the policy head, applies the
operations one by one, seals the result (reconcile, rebase, bind, reopen,
validate), advances the revision and journals the patch; artifact files follow
the database commit. Telemetry then links the dispatch to its outcome. The
monitor and the console write run control and steering from other processes.

Hard behaviours: long legal sequences of patches by different roles that
combine into an illegal state; certificates whose digests go stale or match
again; parallel sessions on one base revision; a crash between a dispatch, its
session, its result, its patch and its telemetry; pause and stop requests racing
a round; counters that are updated from plans made on an older table; stop
events that race the launch of a child. `PROJECT.json` lists each hazard at its
line.

## 2. Modules

### `ProofState`: the kernel

State, and the code it stands for:

| Variable | Code |
|---|---|
| `db.val`, `db.life` | `validation_status`, `lifecycle_status` of claims; `validation_status` of inferences; `status` of routes |
| `db.text` | version of an inference's explanation and of a route's strategy: what `entity_subject_digest` hashes |
| `db.sufficient` | routes whose `relation_to_parent` is `sufficient` |
| `db.debt`, `db.blocking` | status of an obligation, and whether its severity is `blocking` |
| `db.heterogeneous` | claims designated for heterogeneous review |
| `db.reports` | routes an integration report exists for |
| `db.certs` | the certificate bindings: entity, kind, outcome, target stamp, reviewer family, subject digest, status, dependency digest |
| `work` | what the open transaction sees |
| `patch` | role and independence class of the actor, citations and operation count of the patch being applied |
| `revision` | `problem_state.current_revision` |
| `bound`, `reviewed` | history, read by properties only: what the last commit certified, and in which configurations inferences were certified |

`Begin`, `Commit` and `Reject` are the transaction in `apply_patch`; every other
action is one operation of the open patch, with all the state it changes, and
goes through `Write`. A failed guard, a failed validation, an exception and a
crash before the commit are all `Reject`: nothing of the patch stays. `Seal` is
what the host does between the last operation and validation, in the code's
order; `Valid` is the part of `validate_conn` about the proof graph.

Digests are modelled by what they cover, not by hashes: a subject is a text
version (and a route's relation), a dependency digest is a function from the
covered entities to their subjects and statuses. Equality of digests is
equality of those values, so an old certificate *can* match again when a status
comes back. Route strategies and statuses can return to earlier values;
explanations of inferences only grow, as `_update_inference` appends.

Identifiers determine an entity's immutable fields (`Concl`, `Premises`,
`RouteOf`, `Owner`, ...), as the code never changes them after creation.

Left out on purpose: a transition's `suggested_next_target`; duplicate
detection of claims and obligations; the root-alignment flag and the context
scope of a session; shape checks of single columns. An inference or claim is
added as `untested` (the other open statuses behave the same). `AppendEvidence`
adds a positive report, the one with which most can be certified. A blocking
report of a strict verifier, which challenges its target, is `Demote`. Adding a
debt whose owner the same patch creates is the same patch in another order.
Evidence on file for a refutation or a formal verification is the fresh case or
changes nothing. `reconcile_integrated_claims`, an operator command that runs
reconciliation alone, is not an action.

### `MCProofState`, `MCReviews`

`MCProofState` gives small proof graphs for TLC: a chain (premise and root), one
step with an obligation on the root, two alternative routes, and a route with a
detour. `MCReviews` keeps the behaviours over the chain to two scenes, a constraint
on states: `Changing` (texts, statuses, every dependency, one family of verifiers
and integrators) and `Reviewing` (every family, a formal backend and the host
review and designate `p`, whose text stays). Neither multiplies the states of the
other.

### `ProofStateProofs`

Theorems about `ProofState` with their proofs (section 5).

### `PatchLog`: what the store promises about patches

Two variables: `log`, the applied patches in order of revision, and `policy`,
the number of policy events. `Land(c)` appends a patch, once per client, if it
is `Mergeable` with every patch that landed after the revision its session has
read, if a session has seen the current policy, and if the context requests it
answers have not been delivered. `Mergeable` compares operations in pairs and
knows nothing of base revisions, retries or locks.

### `PatchCommit`: how it is done

| Variable | Code |
|---|---|
| `log` | rows of `patches`; its length is `problem_state.current_revision` |
| `policy`, `soft` | `policy_event_head`: policy events so far, and whether a soft pause or stop was requested |
| `recorded` | rows of `artifacts` (whose bytes the digest describes) |
| `files` | the files under `artifacts/` |
| `client[c].pc` | where client `c` is: `idle` (not dispatched), `returned` (a durable result), in `apply_patch_with_stale_retry`, or done |
| `client[c].context`, `.policy`, `.asks` | revision, policy head and context requests the session was built from |
| `client[c].base`, `.seen`, `.retries` | locals of `apply_patch_with_stale_retry` and `_stale_rebase_assessment` |
| `client[c].backup` | what `_ArtifactFileJournal` captured |

A client submits one patch. `Sessions` are merged by the workflow, one at a
time (`TakesUp`), with a session authority, the policy check and the stale
retry; the others are operators in processes of their own, which get one try.
`BuildContext` is the snapshot a context comes from. `Merge`,
`RecognizeAccepted` and `RefuseRecovery` are the three ways
`_apply_scheduled_results` goes with a result; `Authorized` is the policy head
it is given (`_durable_result_recovery_policy_head`). `RefusePolicy`,
`RefuseStale`, `Open`, `Operate`, `Commit`, `ForgetFiles` are `apply_patch` in
its order, `ReadRevision`, `Rebase`, `DeclineRebase` the assessment between two
tries. `Open` takes SQLite's write lock, and `LockFree` is that nobody has it:
`Rollback` and `Commit` give it up *before* the file journal is undone
(`UndoFiles`) or forgotten, as the code does. `Interrupt` is a signal that
unwinds `apply_patch`, between two of its statements; `Crash` is a process that
dies. An operator is gone then; a session's result is durable, and is merged again
from its original base.

An operation is what the conflict assessment makes of it: the rows
`_op_touched_ids` attributes to it, whether it appends, is a status transition
or another write, or cannot be attributed (`other`), and whether it is
rebase-safe for its role. What the operations *do* is `ProofState`; here a patch
in a transaction may always fail (`Rollback`). `reconcile_integrated_claims` is
an operator's patch that cannot be attributed.

Left out on purpose: rejection and diagnostic events (they change neither
revision nor policy head); metrics patches; malformed patches and authority
contracts; cancelled context requests; the pair of policy events with which an
aborted workflow stops and restarts, which is excused like a soft request; how
long a lock is waited for (`LockTimeout` may happen whenever it is taken);
failing removal of the journal's backup directory after the commit
(`patches.py:1889`; see section 3).

### `MCPatchCommit`

Small patches over three rows for TLC; sessions and operator may attach the same
artifact.

### `PatchCommitProofs`

Theorems about `PatchCommit` with their proofs (section 5).

### `RunControl`: requests of the operator

| Variable | Code |
|---|---|
| `status` | `problem_state.run_status` |
| `policyLog` | the `run_control_policy` events, with the status each one left |
| `operator` | what `request_pause` or `resume_run` has decided on a status it read, before it writes |
| `requests` | bound |

`DecidePause`, `DecideResume`, `Write` and `Stop` are the operator's commands;
`SetStatus` is `set_run_status`, which reads the old status inside its own
transaction. `Drained` is `_durable_result_recovery_policy_head`'s judgement of
the events since a session was planned, `HardStopAfter` what it must never
forgive.

### `DispatchLedger`: what the dispatch tables promise

Waves are opened one after another, each when all dispatches before it are
closed; a dispatch returns a patch or nothing, its patch lands at most once,
and it is closed according to what became of the patch.

### `Dispatch`: how it is done

| Variable | Code |
|---|---|
| `waves`, `contract` | dispatch groups in `scheduler_dispatches`, and the execution configuration recorded with each |
| `attempts`, `receipt`, `planHead` | claims, durable results, and the policy head of the plan of a result |
| `landed` | patches of a dispatch found among the accepted ones |
| `run` | the run a dispatch is linked to, by its flag `patch_accepted`. Not the run's status: `_apply_scheduled_results` keeps `timeout`, `failed` or `cancelled` there even when the patch of the session landed (`workflow.py:3735-3751`, `codex_runner.py:3031`) |
| `lock` | `workflow_execution.lock` |
| `wf[o]` | the locals of `run_workflow` in process `o`: position, steps left, planned wave, pending and completed members, the result being merged, whether the revision it read is still current |
| `late` | history: waves committed since the pending pause was requested |
| `launches`, `faults`, `changes` | bounds |

`Launch`, `Sync`, `Check` and `Park` are the top of the loop; `Recover` is
`_oldest_unlinked_dispatch_group` with `_partition_recovery_results` and
`_recovery_contract_compatibility`; `Plan`, `Commit`, `Handoff`, `Prepare`,
`Claim` record and claim a wave, each with the check that sends it back;
`Return`, `Replay`, `Merge`, `Link`, `EndWave` are the
collection of results with `_apply_scheduled_results`, its priority barrier (`Before`, `Blocked`) and
telemetry; `Finalize`, `WriteFinal`, `Unwind`, `WriteAborted` the two exits.
`Raise` is an exception or signal anywhere, `Crash` a process that dies and
releases its lock. The scheduler is a nondeterministic choice of a wave among
`Waves`; what a patch does is `ProofState`, how it lands `PatchCommit`.

### `Admission`: the companions of a wave

| Variable | Code |
|---|---|
| `wave`, `rows` | the problem and the filtered, ordered candidates |
| `layer`, `beam`, `best`, `cut` | the layered beam of `parallel_admission.py` |
| `queue`, `reps`, `nodes` | the best-first completion |
| `phase`, `granted` | progress, and the tokens of the final allocation |

The search of policy version 25: conflicts, quotient and dominance of partial
waves, the optimistic bounds of `parallel_relaxation.py`, the greedy lower
bound, completion, and the max-min distribution of tokens. Reference
definitions (all feasible waves, all fair distributions) are enumerated for the
properties only.

### `Deferral` and `Fairness`: who goes first

`Deferral` is one comparison: `count` is a table of
`scheduler_decision_deferrals`, `waited` how often in a row a candidate was
passed over by its own comparison. `Decide` decides the comparison, `Pass` is a
larger one that selected something else. `Fairness` is the whole plan:

| Variable | Code |
|---|---|
| `deferrals`, `lastDecision` | `scheduler_decision_deferrals` and its meta row |
| `queued` | `scheduler_candidate_deferrals` |
| `revision` | head of the store |
| `held[r]` | the table a direct run was planned from |
| `waited`, `blocked` | history |

A plan is a tree: the planner's row beside the strategy operations, the strata
of the open problem below it, a gate that hides both, and above them the leader
comparison of `_select_parallel_wave_leader`. `Wave` records a dispatch,
`Hold` and `Record` a run without one, whose decision may arrive late.
`Part` projects the shared table to each of the three comparisons.

### `Sessions`: the children of a wave

| Variable | Code |
|---|---|
| `control`, `events` | `run_status` as the watcher polls it; the stop events |
| `current`, `joined`, `tripped` | the memory governor |
| `phase`, `status`, `child`, `signals` | the supervising loop of each session |
| `wave`, `collected` | the coordinator in `_execute_scheduled_actions` |

`Begin`, `Heed`, `Sample`, `Decide`, `Finish`, and `Repair...` are the
supervisor in `codex_runner.py`; `Exit`, `Raise`, `RaiseInRepair` come from
outside; `Collect`, `Abort`, `WaveEnds`, `Watch` are the workflow's side. The
Claude runner's behaviours are those of this one without `Repair`.

### `Steering`: the operator's messages

| Variable | Code |
|---|---|
| `inbox`, `alignment` | `delivery_status` and `approach_alignment_status`, folded from the journal |
| `gate`, `rounds`, `revisions` | blockers of the writing gate, completed revision runs, and the revisions that really happened |
| `portfolio` | the latest approach portfolio and what its author was shown |
| `wave`, `wf` | the latest dispatch and the locals of the run loop |

`Recover`, `ReadInbox`, `Commit`, `Prepare`, `Deliver`, `BeginAlignment`,
`Return`, `Merge`, `Link`, `Consume`, `CompleteAlignment` are one step of the
loop in the code's order, with a crash possible between any two. Waves have one
member here: what several members do to each other is `Dispatch`.

### `MC...`

`MCDispatch` gives waves with a verifier, an advisor or a lone writer;
`MCAdmission` a catalogue of candidates; `MCDeferral` bounds the counters;
`MCFairness` and `MCSessions` split the behaviours into scenes (section 4);
`MCSteering` only instantiates.

### Proof modules

`AdmissionProofs`, `DispatchProofs`, `FairnessProofs`, `DeferralProofs`,
`SessionsProofs`, `SteeringProofs`: section 5. `AdmissionInvariant` holds what the
proofs about `Admission` speak of (sound partial waves, completions, the three parts
of the inductive invariant) and no behaviour.

## 3. What is checked

Passing runs; between them every action of every module fires.

* **chain** - `Chain.cfg` over `MCReviews`, about 358,000 states. Claims `p` and
  `root`, a premise-free step to `p` and a step from `p` to `root`;
  single-operation patches, four commits. In one scene verifier and integrator, and
  one edit per text: four commits are enough to verify both steps, integrate, and
  then disturb. In the other, families `A` and `B` of models, a human `H`, a formal
  backend and the host: two reviews, a designation and an integration of `p`, in
  any order, with refutations.
  * `TypeOK`.
  * `ReviewedAsItStands`: a verified inference was reviewed, in some commit,
    with the text it has now and its premises standing as they stand now.
  * `IntegrationLands`: where nothing is left to reconcile and no obligation is
    refuted, when the integration guard accepts a claim, sealing and validation
    accept it too and it stays integrated. Without the rebase of dependency
    digests they would not: the promotion itself makes certificates stale.
  * `RefutationRevokes`: a commit that refutes or supersedes a claim leaves
    nothing verified downstream, at any distance, unless it brings a new review.
  * `ReinstatedByReview`: nothing becomes verified again on an old certificate.
  * `HeterogeneousReview`: a designated integrated claim was reviewed by two
    model families on the claim and the route, by a human, or formally.
* **obligations** - `Obligations.cfg`, about 640,000 states. From the root
  claim alone, researchers, verifiers and integrators build the graph, raise an
  obligation on the root, change its status and severity, block and reopen
  routes; five commits, enough to build a route, integrate it and break it.
  * `Settled`: a commit leaves nothing for a second reconciliation, unless it
    reopened a refuted obligation. (It is a statement about commits: opening a
    patch after a commit that did reopen one changes nothing, and leaves what was
    left.)
* **patch_commit** - `PatchCommit.cfg`, about 3,400,000 states. Two sessions,
  one with a report (which attaches artifact `x`, verifies a claim and extends
  an inference), one with the same report or a verification alone; an operator
  who submits that report, extends the inference, challenges the claim, or submits
  a patch that cannot be attributed; one policy event and one soft request; signals
  and crashes anywhere.
  * `TypeOK`.
  * `SerialHistory`: the behaviour implements `PatchLog`. A patch may be rebased
    twice, over a patch that lands between the two queries of an assessment,
    crash and be merged anew: what lands is still compatible with all its
    session has not seen, lands once, and answers a context request once.
  * `AnsweredTruthfully`: `accepted` and `rejected` are true of the journal.
  * `OldRecordsSurvive`: a recorded artifact loses its file to nothing but the undo
    of a file journal, and then only if it was recorded after that patch had opened
    its transaction. What was on record before survives crashes, the orphaned files
    they leave, patches that find them, and their refusal. (That the exception is
    needed is the run `patch_commit_files`.)
* **dispatch** - `Dispatch.cfg`, about 155,000 states. One workflow process,
  twice a wave of a researcher and a verifier, one fault (kill or exception) and
  one foreign patch anywhere, two invocations.
  * `OnlyLatestUnresolved`: recovery looks at the latest group only, and may.
  * `TruthfulTelemetry`: a dispatch is linked with `patch_accepted` set exactly
    when its patch landed, and the patch landed once, although a crash between patch
    and telemetry has the result merged again.
  * `CriticalFirst`: when a patch lands, each verifier, integrator or writer of
    its wave that precedes it in merge order has returned.
  * `LedgerKept`: the tables implement `DispatchLedger`; a dispatch is closed by
    the flag, which follows the patch, not by the status, which follows the session.
  * `NoBarrierDeadlock`: a claimed dispatch is taken up or its invocation ends;
    the priority barrier never has two results wait for each other.
* **run_control** - `RunControl.cfg`, about 4,300,000 states. Two processes that
  compete for the lock, started with a supervised or a custom executor (which
  may not be invoked twice), two requests of the operator, one fault.
  * `UnsafeRunsOnce`, also when the recovering process has another
    configuration than the one that died.
  * `PauseStopsDispatch`: a pending pause lets through at most the one wave
    whose checkpoint had passed.
  * `HardStopFailsClosed`: no result planned before a hard stop lands after it,
    whatever restarts in between.
  * `HaltStands`: once a halt is honoured it stands. While the status says that the
    run is halted no process is past the checkpoint, so none plans, claims, starts
    or merges anything; and a paused run is led on by nobody but the operator,
    whatever is launched, dies, unwinds or exits meanwhile. The mutant forgets at
    the checkpoint that a pause outlives the process that honoured it.
* **admission** - `Admission.cfg`, about 5,300 states over some 1,000 problems.
  Groups of four candidates out of nine, and all ten at once, ranks and
  identifiers in the same or in opposite order, beside four primary actions.
  * `CertifiedOptimum`: a wave reported as exact is the best feasible one, of
    all ways to choose.
  * `CompletionSettles`: a completed best-first search has nothing open that
    could beat the incumbent, although equivalent nodes were merged.
  * `BoundAdmissible`: the optimistic bound of a partial wave is never below
    what one of its completions reaches.
  * `GreedyLowerBound`: the wave is never worse than the greedy one.
  * `WaveWithinBudget`, `MaxMinFair`: grants fit the pools; no grant can grow
    without taking from one that is not larger.
  * `NobodyForgotten`: a candidate that had to wait is counted as waiting,
    whatever phase dropped it.
* **deferral** - `Deferral.cfg`, about 11,000 states: four candidates.
  * `BoundedWait`, `OverdueFirst`, `NoStarvation`: see section 5; the first is
    tight (`Limit + N - 2`).
* **fairness** - `Fairness.cfg`, about 6,200 states up to symmetry and view.
  * `StrataFair`: each of the three nested comparisons implements `Deferral`
    although they share one table and late runs write to it.
  * `ServedInTurn`: work that only the ownership of the primary action keeps out
    leads a wave after at most `2 * Limit + |Work| - 2` waves in which it could.
    With a limit of one TLC finds it violated; the code's is three.
* **sessions** - `Sessions.cfg`, about 167,000 states: a wave of two, or a leader
  with the writer beside it.
  * `AccountedFor`: who reports that it was cancelled was; no child but that of a
    repair outlives its supervisor; a wave that returns left nothing behind.
  * `TripStopsAll`, `HardStopStopsWave`: a trip of the memory governor, and a
    hard stop, reach every child for good, also one that is launched later.
* **steering** - `Steering.cfg`, about 887,000 states: two messages, two rounds of
  the writing gate, one crash.
  * `OneRevisionPerAnswer`: a focused revision of a completed session was paid
    for by the answer to the blocker of its own round.
  * `Heard`, `NothingUnheardLands`: a message is settled by a session that was
    shown it, outside the replay of a dead process; no patch lands while a
    message waits that its session was not shown.
  * `EventuallyTaken`: no message waits for ever while the run goes on.

Violation runs:

* **steering_lost** - `SteeringLost.cfg`. `NoneLost` is `Heard` without the
  exemption for replays, as the comment at `workflow.py:1007` and
  `README.md:45` have it. A message submitted while the process is down is
  consumed, and may have its alignment completed, by the merge of a result whose
  session ran before the message existed. Replayed against the code.
* **patch_commit_files** - `PatchFiles.cfg`, the instance of `patch_commit`.
  `ArtifactsIntact` is what `patches.py:132` says of the file journal: it undoes a
  patch "when the enclosing SQLite patch rolls back". TLC's counterexample: a
  session's report is merged (`Merge`, `Open`), installs its file (`Operate`) and is
  committed (`Commit`, `patches.py:1881`); a signal arrives before
  `artifact_files.commit()` (`Interrupt`); the handler at `patches.py:1893` rolls
  back a transaction that is over and a file journal that is not (`UndoFiles`). The
  artifact is on record, its file is gone. Replayed against the code: `validate_conn`
  reports "integrity file is missing", and the next patch of anybody is refused for
  it. There is a second way without a signal, in behaviours of the same instance:
  a refused patch undoes its files after its rollback has given up the lock
  (`patches.py:1883-1892`), when another process may have recorded the same artifact.

Other places where code and documents disagree, met while modelling and not the
subject of a run:

* `docs/soundness_remediation_blueprint.md` has a refutation take effect; one
  that hits a step of an integrated route the claim does not need is refused,
  because the integration's certificate covers the step and goes stale.
* `docs/phase2_agent_audit.md` has an integrated claim free of blocking
  obligations; a patch that withdraws one of two derivations and integrates the
  other can reopen the obligation after reconciliation has run. Integration may
  also reclassify an obligation that was refuted as resolved
  (`patches.py:5063`).
* A report cited through `update_inference` becomes the certificate of an
  inference it was not written for (`certificates.py:303`, `:351`);
  `update_debt` closes an obligation for any role (`patches.py:4520`).
* If removing the file journal's backup directory fails after the database commit
  (`patches.py:1882`), the handler of `OSError` (`patches.py:1889`) reports a patch
  as refused that has landed. The journal has forgotten its entries by then, so no
  file is touched. Not in the model.
* A soft request that arrives between the reading of the policy head and the
  write lock makes a finished patch be refused (`workflow.py:3698`), although
  soft requests are meant to let it merge.
* `workflow.py:1643` says only an explicit `resume` clears a pending request;
  `_finalize_run_status` (`workflow.py:1708`) overwrites one that arrives after
  it has read the status, and the next start clears what it wrote. Likewise a pause
  written between the read and the write of `_sync_run_status_at_start`
  (`workflow.py:1649-1654`) is overwritten with `running`, and a stop written while
  `_run_control_stop_action` (`workflow.py:1672-1678`) honours a pause is overwritten
  with `paused`. The model has all three; `HaltStands` begins where a halt is honoured.
* `workflow.py:896` says dispatch compares audit heads and replans after a
  concurrent mutation; `_record_scheduler_dispatches` refuses only a moved
  revision.
* The help of a hard stop (`cli.py:367`) and the watcher (`workflow.py:2196`)
  promise termination; the loop over a repair child (`codex_runner.py:3139`)
  does not look at the stop event for up to 1800 seconds, and an interruption in
  it leaves the child alive (`codex_runner.py:2978` promises otherwise). Hence
  the exemption for repairs in `TripStopsAll`, `HardStopStopsWave` and
  `AccountedFor`.
* `scheduler.py:16680` speaks of exactly one revision per answer; rounds count
  completed runs (`scheduler.py:16689`), so a late patch of a session that timed
  out comes on top. `steering.py:887` leaves the message of a failed child
  unconsumed; `workflow.py:1357` consumes it whatever the outcome.

Deadlock is checked in `admission` and `deferral`. Elsewhere the models may stop:
after the bounded number of commits, waves, requests or launches, or when every
client or session has its answer.

## 4. Bounds and fairness

`ProofState`: `MaxRevision` bounds the commits of a behaviour, `MaxOps` the
operations of a patch, `MaxText` the versions of a text; `OpKinds`, `Roles`,
`Demotions` and `LifeChoices` select the operations, actors and open statuses a
run uses. Single-operation patches are enough because every operation leaves a
state that validation accepts or rejects as a whole. Symmetry is not used:
identifiers appear by name in the graphs.

`PatchCommit`: a client submits one patch, so the number of clients bounds the
log; `MaxRetries` is `max_retries` (3 in the code, 2 in the run: the second
rebase is the first that builds on another one); `MaxPolicy` bounds policy
events and at most one soft request is made (a second is no soft request in the
code either, as the run is no longer `running`); `Interrupted` selects who may
get a signal: everybody. Three clients are enough for a patch to be overtaken twice.

`RunControl`, `Dispatch`: `MaxRequests`, `MaxWaves`, `MaxWidth`, `MaxSteps`,
`MaxLaunches`, `MaxFaults`, `MaxChanges`. Two waves are the least for "only the
latest group is unresolved"; one fault and two launches the least for a
recovery; two requests the least for a pause and its resumption, or a pause and a
stop. Fairness is `WF` of each process's `Step`: a process that is
scheduled keeps executing, and a session ends, as its runner kills it at the
timeout. Nothing is owed by the operator, by `Launch`, or by faults. `dispatch` uses
it for `NoBarrierDeadlock`; `run_control` checks safety only and assumes none. That
a pause is honoured *eventually* is not among the properties: with bounded steps and
waves every invocation ends anyway, so the model could not tell.

`Admission`: the limits (`BeamWidth`, `ParkLimit`, `NodeLimit`) are small so that
they are exceeded; no fairness, as the search is sequential, and absence of
deadlock before `done` shows that it ends.

`Deferral`: `MaxCount` bounds how often the larger comparison counts up; the
decisions themselves are unbounded. `WF(DecideSome)`: `run_workflow` plans again
after every wave. `Fairness` states safety only. `MCFairness` has three scenes
(who leads; plans of every shape; late runs), `MaxCount` on the rows of both
tables, symmetry among strata, work and runs, and a view in which revisions are
told apart by their order only.

`Sessions`: `WF` of each supervisor, of the coordinator and of the watcher, each
a thread with a loop of its own; no deadline, child exit, interruption or request
is owed. Time and a session's own limits are nondeterministic at every turn;
heartbeat samples fall together with the next turn. Two scenes keep the second
event out of the states of the first.

`Steering`: `MaxRounds`, `MaxLaunches`; waves and launch-free steps are
unbounded, so that `EventuallyTaken` is not vacuous, and a crash happens only
while a relaunch is left. `WF(Step)` as in `Dispatch`. One portfolio in the run
(the theorems cover any number); foreign patches only where they matter, at
`Link`; a late result is told from a timely one for revisions only.

## 5. What is proved

`ProofStateProofs` proves, for every proof graph, set of roles and bound (from
the named assumptions of `ProofState` only):

* `TypeCorrect`: `Spec => []TypeOK`. Inductive invariant `TypeInv`: types, plus
  that an open patch is below the revision bound, that only verifying roles
  cite certificates, and that a closed transaction holds nothing.
* `ReinstatementNeedsReview`: `Spec => ReinstatedByReview`. Inductive invariant
  `PendingReview`: a claim or inference whose status the open patch raised to a
  certified one is cited by the patch. It holds because every operation is
  `Lawful`: it raises an uncertified status only with a citation, and the
  evidence on file that `InformallyVerify` may use must match the present
  status, which is then certified already (`OnFileCertified`). At the commit,
  what is cited and certified is what is bound.
* `ReviewsStand`: `Spec => []ReviewedAsItStands`. `ReviewedAsItStands` is not
  inductive: nothing in it says what a certificate contains. `ReviewInv` says
  that every certificate of an inference covers all the inference rests on and
  testifies to a configuration in which it was reviewed, and that each verified
  inference has a current one. Operations do not touch certificates; a commit
  rebases old ones without changing what they testify to (`RebasedTestifies`)
  and binds new ones to the configuration it reviews (`CommitTestifies`); the
  rest comes from validation.

* `DesignationHonoured`: `Spec => []HeterogeneousReview`. The invariant
  `AssuredInv` has no history in it: an integrated claim has an integrated route,
  and each integrated route's claim satisfies its assurance by current
  certificates. Validation establishes it at every commit, so the work lies in
  `AssuredInvImplies`: families that cover the route reviewed the claim and each
  of its steps.
* `OnePassSettles`: `Spec => Settled`. Reconciliation is written as a function of
  what each route and claim has lost (`ReconcileForm`); one pass leaves a graph
  that a second one does not change (`OnePassReconciles`: healthy routes under
  integrated claims, integrated claims over integrated routes), and what sealing
  still does after it, reopening obligations apart, keeps it so
  (`ReconciledStay`). `PendingRefutation` says that what the open patch refuted it
  cites, so that nothing but a certificate of this patch can be bound to it.
* `RefutationReaches`: `Spec => RefutationRevokes`. `Downstream` is the least set
  closed under the inferences on record, so no induction over the depth of the
  graph is needed: whatever is downstream of a claim that falls is withdrawn by
  the operation that fells it, and `WithdrawalInv` keeps it withdrawn, or cited,
  until the patch commits. An inference that is added while a claim falls cannot
  rest on it, because what is on record rests on what is on record; that is the
  second half of `WithdrawalInv`, and for the record at the start
  `SeedsAssumption`.
* `IntegrationAccepted`: `Spec => []IntegrationLands`. Promoting a claim and a
  route leaves each certificate current once it is rebased
  (`CertificateSurvives`), the report of the integration is current in what is
  sealed (`BindingCurrent`), reconciliation after it changes nothing
  (`IntegrationReconciled`) and the obligations keep their status
  (`IntegrationSealsValid`). `LandingInv` says that certificates cover what they
  speak of and that what is verified rests on what is verified.

Two of these were false as first stated, and the proofs found out. `Settled` spoke
of every step. `IntegrationLands` did not ask that nothing is left to
reconcile: a patch that demotes one of two verified steps to a claim, and reviews
claim and route again, reopens after reconciliation an obligation refuted before;
the claim stays integrated under a blocker until the next patch reconciles it,
and if that is the integration of something above it, it is refused.

The lemmas of its first half say of each step of sealing and of each operation
what it changes and that it keeps types; they are shared by the seven theorems.

`PatchCommitProofs` proves, for any clients, patches, rows, retries and policy
events, with crashes and signals everywhere:

* `SerialHistoryHolds`: `Spec => SerialHistory`, a step simulation under the
  identity mapping of `log` and `policy`. The heart is `RebaseSound`: the
  assessment accumulates the rows of *all* missed patches and compares them with
  those of the whole stale patch, and what it lets pass commutes pair by pair.
  `SerialHistory` is not inductive; `PatchInv` adds that everything between a
  session's context and its present base is mergeable with its patch
  (`Assessed`), that a revision read by an assessment lies between base and
  present (`WindowRead`), that who holds the lock is alone, at the current
  revision and policy (`Locked`), and where a client's patch may have landed
  (`Whereabouts`).
* `TruthfulAnswers`: `Spec => []AnsweredTruthfully`, from `Whereabouts`.
* `TypeCorrect`: `Spec => []TypeOK`, with `RetriesLeft`.

* `OldRecordsKept`: `Spec => OldRecordsSurvive`, with nothing assumed about who
  attaches artifacts or where signals strike. The file journal is undone outside the
  lock, so mutual exclusion does not help. The invariant `Captured` says what a
  held backup is worth: the artifact it would overwrite was not recorded when the
  patch that holds it opened its transaction, or was recorded by a patch that landed
  since. `Operate` establishes it, because an artifact on record is refused;
  a commit of anybody keeps it, because its revision comes after every open base.

`DeferralProofs` proves `BoundedWait` and `OverdueFirst` for every number of
candidates and every limit. The second is the first's invariant: what a due
candidate has waited and the number of rivals that are at least as overdue trade
off against each other; each time it is passed over, one of those rivals has been
served and starts again below it. `FairnessProofs` proves `Typing` and
`Refinement`: `Spec => StrataFair`, so that the bound holds for each of the three
comparisons however they nest. A step either decides a part of the table, passes
it over, or leaves it alone (`Moves`). `InTurn` is `Spec => []ServedInTurn` for
every limit of at least two. Its invariant `Turns` follows a piece of work through
two tables: while it is not compared, its wait is in the queue, and the queue is
never behind; once it is compared, its row in the table of decisions follows that
wait; when the row is due, each wave that passes it over costs it a rival. At the
end of the wait nobody is ahead of it, and of those level with it one lags.

`SessionsProofs` proves `Accounted`: `Spec => []AccountedFor`, for any number of
companions. `AccountedFor` is not inductive; `IInv` adds `Reasons` (why an event
is set: a request, a failure of the primary, an exception, or the governor, which
then has tripped) and `Places` (for each phase of a supervisor, whether its child
may live, be registered and have a measure).

`SteeringProofs` proves `TypeCorrect`, `PaidOnce`, `TakenWereHeard` and
`LandsHeard` for any messages, portfolios, rounds and crashes. `IInv` is `TypeOK`
with `Control` (which locals belong to which position), `Shown` (what the context
of a wave covered), `Judged` (a context shows every message submitted before it
that still waits) and `Paid` (revisions, rounds and answers count together).

`DispatchProofs` proves, for every set of processes, waves, configurations and
bounds, eight properties of `Dispatch` and `TypeCorrect`, which also says
(`NothingUncommitted`) that a dispatch has no attempt, result, patch or run before
its wave is committed. The invariant `IInv`
has four parts:

* `Typed`: types, and that counters stay in their bounds.
* `Exclusive`: who is not `off` holds the lock, so there is one executor.
* `Tables`: what the tables say by themselves: what was not committed has left no
  trace, a dispatch is linked after it returned, what landed was a patch; and the
  three properties `TruthfulTelemetry`, `OnlyLatestUnresolved`, `UnsafeRunsOnce`.
* `Holding(wf[o])`: what a process holds in memory agrees with the tables at each
  position (`Executes`, `Merges`): before the sessions start, the pending members
  are all that have not returned, and none of them was claimed before unless it
  may be repeated; while results are merged, completed members have a result, the
  one being merged is not linked and its patch landed exactly if it won, and what
  has not returned is awaited or holds nothing back.

`NothingLeftBehind`, `RunsAtMostOnce` and `TelemetryTellsTheTruth` are those
conjuncts of `Tables`, which are inductive only together with `Holding`. `BarrierKept` and
`HardStopHolds` are action properties, from `Merge` alone under `IInv`.
`PauseHolds` needs `LateInv`: after a wave was committed while a pause is
pending, the executor is past the checkpoint and must pass it before it plans
again. `HaltHolds` needs `HaltInv`: only the executor writes a halt, on its way out
(what the operator writes is a request), and `Calm` says where a process can be under
each halt: off, on its way out, or before a checkpoint that sends it away.
`StoreImplementsLedger` is a step simulation: every action of `Dispatch`
is `Open` (`Commit`), `Return`, `Land` (`Merge`), `Close` (`Link`) or a stutter
of `DispatchLedger`; `Holding` says that what `Link` writes is what `Merge` did.

`AdmissionProofs` proves eight properties of the search for every admission problem
and every beam width, parking limit and node limit. What is assumed of a problem is
`WavesAssumption`: fields have their types, identifiers are unique, candidates are
finitely many, and the primary's request is one its mode may spend
(`plan_step_budget`, `budget.py:84`; an admission beside a request that exceeds
the allocation is never planned). It says nothing of which candidates there are.

* `SearchSound`: `Spec => []SearchInv`. `SearchInv` is what the layers, the
  comparison and the completion keep true together: the rows are the searchable
  candidates in admission order; the incumbent and each partial wave that is kept,
  parked or queued is `Sound` (no two of its rows conflict, it has counted and
  charged exactly what it holds, and each row passed its guards); partial waves of
  one layer differ in their identifiers, which is what makes the leader of a layer
  well defined; bounds are quadruples, so that they compare with scores; from the
  comparison on the greedy wave is not better (`Compared`); and what was not
  stopped by the node limit is settled (`Settles`).
* `AdmittedMayRun`: `Spec => [](phase = "done" => Feasible(Admitted))`. The search
  charges pools one row at a time and may use the reserve for protected rows only;
  `Feasible` counts at the end. `SoundFeasible` relates the two.
* `CompletionProves`, `NoneForgotten`: from `SearchInv`, and from the cascade of
  outcome codes, which leaves no gap.
* `GreedyBound`: `Spec => []GreedyLowerBound`. The comparison itself gives the
  second half; the first, that the error at `parallel_admission.py:2324` is never
  raised, is `GreedyFits`. The greedy walk passes *all* candidates and grants full
  requests, the search only the searchable ones at the least charge. `Follows` says
  that the search, having admitted the same rows, is never poorer: its shared pool is
  no smaller, its total is no smaller, and the walk's reserve is no larger or its
  shared pool is empty (`PoolsFollow`). `FollowsStep` keeps it; `InStepGoesOn` ties
  the two together: both go in admission order, so the next row the walk admits is
  the next one of the greedy wave.
* `BudgetHeld`, `SharesAreFair`: `TopUpResult` states what a max-min top-up does
  (no grant above its request, nothing lost; there is a level that everyone who
  still wants more has reached, and nobody raised is more than a token above it; who
  wants more leaves nothing over); `DistributionWithin` and `DistributionFair` put
  the two passes together, reserve first, then shared pool.
* `BoundsHold`: `Spec => []BoundAdmissible`. `Completion(R, s, n)` says which rows may
  still join a partial wave, in terms of what the search keeps of it; `KeptInv` says
  that this is exact (`Exact`: sums, blocked rows and pools are those of its rows) and
  that each open node is `Honest`: rated no worse, in objective and identifiers, than
  anything it can become. The resource relaxation is an optimum over a larger set
  (`CompletionFits`, with `CertificationAlone`: one of verification and integration
  stays empty). For a grouped bound a completion has at most one row of each group; it
  *rises* (`Lifts`) injectively to rows worth no less: to the leaders of its groups,
  which are free and among the `2 * MaxCompanions` retained because the partial wave
  occupies at most `MaxCompanions` of them, then to the strongest per class, then to
  the strongest of all. `FewLift` is the one exchange argument behind the last two.
* `OptimumCertified`: `Spec => []CertifiedOptimum`. The certificate is a comparison
  with a bound; `CoverInv` says what that bound stands for: every wave that may run is
  matched by the incumbent, or a completion of something still open, or below the bound
  of what was given up. A layer keeps this: a row joins or not; what the quotient drops
  has a twin with the same future and no greater identifiers (`FutureKey` fixes
  `Completion` and `Total`); what dominance drops has a better one with no fewer
  means; what is not `Promising` is matched, being `Honest`; what the beam
  cuts off is parked or only counted, and below the bound either way. In the
  completion a stale node is one that a representative has hidden: `Represents` says
  that whatever the hidden node could become is matched, or open from the
  representative or one of its descendants, which is why merging equivalent nodes
  never loses the optimum. At the end a feasible set is a completion of the empty wave
  (`CandidatesReached`), so what the certificate compares with covers it.

The lemmas of its first part are about the operators: sums over finite sets
(`SumFunctionOnSet` is a fold whose order is a `CHOOSE`; `SumsExist` and what
follows make it an ordinary sum), lexicographic order (total, transitive, finite
sets have a least and a greatest member), sorting by rank, and functions defined by
a first value and a step (`Recursion`). Each needs an induction; it is done with the
hypothesis as a *set* (`Induct`, `InductOnSets`, from the well-foundedness of `<` on
`Nat`), because the library's induction theorems take an operator, which the
provers cannot instantiate. For the same reason `Walk`, `Rebuilt` and `Followers`
are functions and not recursive operators.

Only model-checked, and why: `TripStopsAll`, `HardStopStopsWave`,
`NoBarrierDeadlock`, `NoStarvation`, `EventuallyTaken` (liveness
under fairness, `ENABLED`). Every other property that a passing run checks is a
theorem. `ArtifactsIntact` and `NoneLost` are false of the code (section 3).

## 6. Not modelled

* The scheduler's heuristics (`scheduler.py`, `research_*.py`,
  `branch_summary.py`): long scoring rules over one snapshot, whose only effect is
  the dispatch they propose; `Dispatch` lets any wave be proposed. The parts that
  keep state from one plan to the next are `Fairness`.
* Budgets (`budget.py`): computed from recorded runs; the effect on a session, a
  limit that trips, is in `Sessions`.
* The store's schema, migrations and triggers: a SQLite transaction is atomic.
* The audit chain, checkpoints and replay: hashes over append-only journals.
* Context construction, retrieval, memory policy: prompts from one snapshot.
* Parallel exchange, the human-readable sidecar's contents, storage policy: they
  change no state the other components read.
* Experiments and policy epochs, results and reports, monitor and console,
  writing checks: bookkeeping, rendering and user interface; their writes reach
  the store through run control, steering or patches.
* Formal, CAS and reference checks: external tools; `ProofState` takes their
  verdict as the evidence a patch brings.
* Within modelled components: `reconcile_integrated_claims` as an operation of its
  own, rejection records, the 24 historical admission policies, legacy steering
  files, migrations of the fairness tables (see the notes in `PROJECT.json`).

Detail that single definitions leave out:

* `ProofState.Closure`: an obligation named in the `resolution_evidence_json` of
  another (`certificates.py:186-198`). `BindNewCertificates`: a certificate that
  reaches an integrated route through its artifact's `route_id` or `target_route_id`
  (`certificates.py:591-595`). `ResolveDebt`: a change of severity, evidence the
  patch does not cite, and evidence that replaces that of a refuted obligation
  (`patches.py:4440-4449`, `4518`, `4539-4590`).
* `PatchCommit.ForgetFiles` always succeeds (section 3).
* `RunControl.SetStatus` is atomic, as in the code (`store.py:4165-4170`): the old
  status is read in the transaction that writes the new one. The decision *to* call
  it is a step of its own wherever the code reads the status first.
* `Admission.Expand` compares and queues the children of a node in one step; the code
  takes them one by one (`parallel_admission.py:2093-2097`), so that the first is
  measured against the incumbent before the second has improved it. What slips into
  the queue that way is dropped when it is popped (`2083-2087`), at the price of a
  node of the limit. `Layer` always uses quotient and dominance; the code gives them
  up above size limits (`1126-1148`, `2180-2190`), where it prunes less.
* `Fairness.Wave` always carries an admission; without one the code leaves the counts
  of the queue alone (`patches.py:5318-5320`).
* `Steering.Fingerprint` is the round alone; the code adds `debt_fingerprint`
  (`scheduler.py:16683-16693`), which tells more blockers apart, and reads the last 25
  resolved blockers only (`steering.py:1113-1115`), so that an older answer falls out
  of sight. `Post` has no `steering_alignment_requested` event
  (`steering.py:619-623`, `730`), which asks for the alignment of a message later;
  nothing in the program calls it.
