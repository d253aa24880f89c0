# Vres-OS in TLA+

Vres-OS is a governance layer between a developer, Claude Code and a PostgreSQL
database. A *chairman* session works on a *task*; what it may do next is decided
by rows the MCP servers and the Claude Code hooks write, and by triggers that
refuse writes. Every MCP call and every hook is a short-lived process with
database transactions of its own, so the system is a set of concurrent,
crash-prone writers over one shared state, and its correctness is a question of
what each of them checks, when, and who may come in between.

Paths below are relative to the repository (`src/vres_os/...` and
`src/vres_os/migrations/...`).

## 1. The system

| component | state it keeps | operations | hard behaviour | what makes it correct |
|---|---|---|---|---|
| **Work graph** (`orchestration.py`, `aigo_mcp.py`, migrations 025, 033, 034) | plan, report and final events; one row per work unit (contract, status, attempt, host, report) | record plan, record graph, ready, start, bind, report, fail, finalize | units of several tasks run at once; retries; late, refused or lost hooks; re-planning | fan-in order, parallel limit, disjoint writers, evidence behind every passed unit, independent verification, no stall |
| **Worker evidence** (`subagent_hook.py`, `routing.py`, `control_preflight.py`) | `worker_runs`, the unit's host | bind hook, stop hook, write preflight | hooks are separate processes the host may delay or drop | a run is evidence of the work it is filed under; writers stay in scope |
| **Routing** (`routing*.py`, `deterministic_routing.py`, 027, 031) | routing requests, decisions, assurance | prepare, arbiter decision, stale rejection, complete | the state a decision is about changes while an arbiter thinks | protected work is never completed as routine |
| **Protected review** (`validation*.py`, 015, 017, 028, 030, 035, 036) | validation requests, digests, the task's `validation_status` | prepare, verdict hook, abandon, invalidate | evidence changes while a reviewer reads; a second request overtakes the first; late verdicts | a pass is about the evidence as it is, and stays so until completion |
| **Task lifecycle** (`repository.py`, `task_lifecycle.py`, `mcp_server.py`, 018) | task status, state document and its digest | checkpoint, complete, park, resume, cancel | concurrent sessions; lock order | no completion without its evidence, no way back out of a terminal status |
| **Decisions** (`task_decisions.py`, 016, 020-022) | append-only decisions of a task | record, supersede | a decision recorded during a review | immutability, provenance |
| **User inputs** (`session_prompts.py`, `user_intent_mcp.py`, `host_inputs.py`, 023, 024, 029, 032) | observed prompts and the task each speaks for, a read-only hold | stage, commit, authorize | a late hook, a rebinding between two transactions | what the user said stays with the task it was said about |
| **Sessions** (`session_lifecycle.py`, `session_end_worker.py`, `hooks.py`) | session rows, their host process | start, prompt, end, replace | a detached worker ends a conversation that was resumed | what a row carries follows its conversation |
| **Contamination** (`session_contamination.py`, 040) | marks on sessions, single-use attestations | mark, attest, acknowledge | a revocation while rows end and reopen | who read revoked memory is known until it refreshes |
| **Reply guard** (`reply_guard.py`) | turn, tool activity, gate and blocked mark of a session | begin, observe, confirm, inspect, mark | hooks of one turn end in the next | a material reply follows a checkpoint |
| **Procedures, replay, approvals** (`procedures.py`, `replay.py`, `executor.py`, `approvals.py`) | versions, candidates, replays, approvals | accept, evaluate, decide, execute, replay, promote | retries, double use of an approval, a user who decides while a replay runs | one preferred version; one word moves it once |
| **Knowledge and revocation** (`knowledge.py`, `sources.py`, `experience_lifecycle.py`, `source_revocation.py`, `relations.py`, 039) | item status, evidence, derivations, sources | propose, update, relate, retire, reinstate, challenge, supersede, revoke with cascade | chains that are extended, retired and reinstated | nothing in use rests on revoked sources only |
| **Experience** (`experience.py`, `experience_consolidation.py`, 037, 038) | episodes, transitions, lessons | capture, consolidate | lessons whose episodes are revoked or reinstated | a lesson in use has ground under it and rests on no failed work |
| **Embedding jobs** (`embeddings.py`, `workers.py`, `refresh.py`) | job queue with leases | claim, finish, retry, quarantine | worker dies holding a lease; source changes while it is embedded | no embedding of stale text is served; no job is lost |
| **Codex hand-off** (`codex_handoff.py`) | contract and events of a hand-off, worktree, the primary workspace | prepare, execute, promote, clean up | an external process and the developer write meanwhile; the call dies between git and the database | only in-scope changes are promoted; one contract, one outcome |
| **Credential broker** (`credential_broker.py`, `local_secrets.py`) | a registry file, values in the OS store | save, capture, confirm, bind, unlink, delete | the two stores fail separately, and so does the rollback | the two agree |
| **Model experiments** (`model_experiments.py`, `claude_experiment.py`) | attested experiments | prepare, run, attest | one host result in two runs | nothing decides on them (section 7) |
| **Retrieval, observability** (`experience_retrieval.py`, `experience_observability.py`) | append-only records | query | - | ranking; not a state machine |
| **Migrations, autocompact** (`db.py`, `autocompact.py`) | ledger of files; one value of a settings file | install | one owner at installation | - |
| **Architecture policy, capabilities, command line, ingestion, company adapters** | files, profiles | check, acquire, parse | - | pure I/O or parsing |

How they interact: the MCP servers and the hooks never call each other. They
meet in rows: `tasks` (status, `validation_status`), `task_state`,
`task_events` (plan, report, final), `orchestration_work_units`, `worker_runs`,
`routing_requests` and `validation_requests`. The triggers of 015, 021, 027, 028,
030, 033 and 036 are the only code every writer passes through. Two components
reach outside the database, the credential broker (file and OS store) and the
Codex hand-off (working tree), and order their writes to both sides by hand.

## 2. Modules

### `WorkGraph.tla`

One project with several tasks. A plan selects experts; the graph gives each a
*unit* with dependencies, a write scope and acceptance criteria; host workers
claim units, write, report and stop; the chairman fails units, re-plans,
finalizes, has the task reviewed, completes or cancels it.

* **State.** `task`, `review` are `tasks.status` and the review as the graph
  sees it; `planned`, `latest`, `final` the newest plan and final events, where
  `joined` says that the reports the final accepts are those of units; `advised` the
  experts with a report that names no unit;
  `contract`, `status`, `attempt`, `host`, `reported`, `results` the columns of
  `orchestration_work_units` and the report they point to; `runs` the rows of
  `worker_runs` with their unique key, `keyed` if they name a unit; `phase`, `claim`,
  `called` is the host's side: what a worker is doing, which unit it started, and what
  the end of its transcript shows of report calls: none, one for the unit, or one for
  the role alone.
* **Actions.** One per MCP call or hook (`RecordPlan`, `RecordWorkGraph`,
  `StartWorkUnit`, `BindWorkUnitHost`, `RecordExpertReport`, `FailWorkUnit`,
  `Finalize`, ...), with all the call's checks as
  guards and the trigger conditions of 030, 033 and 036 conjoined. A refused call
  changes nothing and is no action, except `ReportRefused`, whose attempt stays
  visible in the transcript the stop hook reads until `TailMoves`. `BindMissed` and
  `HostDies` are what the host may do: a hook refused, late or lost, a worker that
  ends silently.
* **Work without a graph.** A plan needs no graph: its experts report without units
  (`RecordAdvice`) until one is recorded, `Finalize` then accepts those reports and
  looks at no unit, and a graph may be recorded after that final.
* **The stop hook** is one of `StopObserved` (the last report call names the unit, which
  has its report), `StopRejected` (no report call, no transcript or a wrong model),
  `StopWithoutUnit` (the call names the role only: the run is filed for the plan and
  the unit is left alone) and, for a worker that claimed nothing, `AdvisorStops`. A
  worker whose report call for its unit was refused has none of them: the hook exits
  with an error every time, until the call leaves the end of the transcript.
* **Abstractions.** A scope is a set of leaves of the tree, so overlap is a
  common leaf; a report is the set of criteria it marks passed; a graph proposal
  is any member of `Proposal`, valid or not, and `ValidGraph` decides. `Acyclic`
  states what the depth-first search of `_assert_acyclic` decides. Routing is
  reduced to `RoutineTask`, review to `open`, `pending`, `passed`.
* **Granularity.** A call is one transaction and one action. That is exact for
  the unit rows, which every writer locks (`FOR UPDATE`, the project's advisory
  lock); the event triggers read without locks, and `GovernanceTxn` is about that.

### `ScheduledWork.tla`

What the graph promises, without plans, workers, reports and reviews: units are
planned together with dependencies among themselves, begin over done
dependencies and apart from the others in work, and are given up or delivered.
`WorkGraph` implements it: a pending or failed unit is *waiting*, a running one
*in work*, a passed one *done*, and every other call is a step the scheduler
does not see (`IsScheduler`).

### `GovernedTask.tla`

One task seen from its assurance: which review it needs, what was reviewed, and
when it may end. It abstracts the graph of `WorkGraph` to *the newest plan has
its reports, its observed runs and its final*, and has what `WorkGraph` leaves
out: routing and validation requests one by one, the reviewed document and
files, and every way into and out of a review.

* **State.** `task`, `vstatus`, `content` are `tasks.status` (the open ones as
  one), `validation_status` and the fields `state_digest` covers; `files` the
  working tree; `routes` and `reviews` the rows of `routing_requests` and
  `validation_requests` by id, with the digest each was frozen with;
  `discovered`, `plan`, `reported`, `observed`, `final` the events. `fresh` is
  the comparison of times migration 036 makes: the newest pass is newer than
  all material evidence. `checked` is a completion call between its two
  transactions.
* **Actions.** One per transaction, for the chairman's calls and the hooks of
  arbiters, workers and validators; the triggers (015 superseding older reviews,
  021 releasing the sessions of a completed task, 027 guarding the waiver, 028
  protecting a pass, 030 freezing evidence, 036 at completion) are conjuncts of
  the writes they fire on. A protected completion is two transactions, so two actions
  (`AssertCurrent`, `CompleteTask`), and so is a routine one (`WaiveReview`,
  `CompleteRoutine`); anything may come between.
* **Abstractions.** A digest is the value it digests. `prepare` hashes the files
  before its transaction, so a request's manifest is of any files. A checkpoint
  writes what the update of the same call has written. A team stands for the roles,
  lead and tiers of a route.

### `GovernanceTxn.tla`

The calls about one protected task as PostgreSQL runs them under READ COMMITTED.
`GovernedTask` takes a call as one step; here it is a *script* of statements, each
of which may lock a row (`task`, `state` or the pending `request`), checks what is
committed at that moment, and is followed by others' steps. What a call writes appears
with its commit, which releases its locks; a refused call and one whose process
died are rolled back; of the transactions that wait in a circle the
detector of PostgreSQL ends one. Transactions are numbered in the order they
begin, which is that of their `now()`: creation times are compared as numbers,
as trigger 036 does. The action of a call has one disjunct per statement and one for its
commit (`RecordEvidence`, `PrepareReview`, `RecordVerdict`, `AbandonReview`, `UpdateState`, `Decide`,
`InvalidateReview`, `CancelTask`, `CompleteTask`, `BindTask`).

### `ReviewedTask.tla`

What a caller of those calls may rely on: the same task without transactions, rows
and locks, whose calls write, ask for a review, judge, drop or reopen it, cancel and
complete one after the other. `GovernanceTxn` implements it (`IsReviewedTask`): a call is the
step of its commit, every other statement (and the commit of an event or a binding) is a
stutter, and the last review is the newest request. The guards of the serial task are what a call still relies on when it
commits. What the code reads before it holds the row is not among them: a review may be asked
for, and a passed task completed, whatever has become of its status meanwhile; a cancellation
that saw no request may leave one behind that was inserted meanwhile.

### `EmbeddingJobs.tla`

The one background queue of the system: chunks of sources wait for vectors,
workers queue what is missing, claim batches, encode them for minutes outside
any transaction and publish, while sources are ingested and revoked and the
configured model changes.

* **State.** `config` is the model in the configuration file; `active` the
  sources that are not revoked; `present`, `embedded` the rows of
  `knowledge_chunks` and the model of their vectors; `status`, `attempts` those
  of `embedding_jobs`, one per chunk and model; `phase`, `model`, `seen`,
  `lease` a worker's place in `run_pending`, the model it read, the chunks of
  its snapshot and the attempt it claimed for each. `read` holds the
  configurations folder onboardings have loaded: they queue jobs of
  that model however long they take.
* **Actions.** `StartRun`, `ReadMissing`, `QueueMissing`, `ReadBatch`, `Claim`,
  `CheckConfig`, `Publish`, `Fail`, `Crash` of each worker; `Configure`,
  `StartOnboarding`, `AddChunk`, `RevokeSource` of the owner.
* **Granularity.** A transaction is one action, except where a statement of it
  decides on a snapshot and updates newer rows: `queue_missing`
  (`ReadMissing`, `QueueMissing`) and the claim (`ReadBatch`, `Claim`), whose
  owners are read without locks. A publication reads the configuration file
  (`CheckConfig`) before its fence locks sources, chunks and jobs (`Publish`).
  The insertion of a job and a revocation do not overlap: the foreign key of the
  job takes the lock on the chunk that the revocation holds.
* **Abstractions.** No time: any running job may be stale. `LIMIT` and `SKIP LOCKED`
  are any subset. A failure report lands before the worker ends or not at all.
  Chunks are those of sources; no code inserts one owned by knowledge.

### `CodexHandoff.tla`

Work on a task handed to Codex. A contract freezes the task's fingerprint and
the commit; a call of `execute` claims it (the insertion of `STARTED`), provisions a worktree,
lets Codex write, checks integrity and scope, makes a patch, and promotes it
into the primary inside a transaction that holds the rows of the task. Each
transaction and each git command whose answer is used later is an action of the
call; `Others` are the developer (edits, commits, discards), the
chairman, the validator and whatever Codex left running. `Die` ends a call at
any point: the database rolls back, worktree and primary stay as they are. A path
is changed or not; contents, conflicts and postconditions are either outcome.

### `ContractedWork.tla`

What a hand-off promises without worktrees, git, locks and the place where a call may
die. Work is agreed about a subject (the task as the contract froze it), taken once by one
worker, *entered* while the subject is as agreed, open to it and nobody else is entering,
and ends with one outcome; work that is lost is never taken again. `CodexHandoff`
implements it (`IsContractedWork`): a job's stage is read off its events and off the
calls between the guard of the promotion and its commit, its worker is the call that
claimed it, and the subject is the task. The subject changes only while nobody is
entering, which is what the locks of the promotion are for; the copy of the work is
discarded only after the outcome is on record.

### `SessionContext.tla`

Conversations of the host, the rows of `vres.sessions` that stand for them, and
what the rows carry: the hold of the latest inspection-only prompt, the memory
that was read, the mark of a revocation and its acknowledgement. The start hook and the prompt hook
are a transaction at a time (`OpenSession`, `ObserveSession`, `StagePrompt`),
the end worker is detached (`EndConversation`, `EndWorker`), a
row whose process is dead or reused is stale. An attestation is minted by the
preflight (`Attest`) and spent by the tool call (`Acknowledge`) or lost (`Expire`).

### `ReplyGuard.tla`

One session's guard: the turn, the tool activity observed in it, the gate a
`confirm_reply_gate` opens over a checkpoint, and the Stop hook, which inspects
in one transaction and marks the block in another. The user may begin the next
turn, the host may set `stop_hook_active` again and the hook may die in between.

### `UserInputs.tla`

The ledger of observed inputs, in the order of the time the hook stamped, which
need not be that of the transactions; its commits to the task a session is
bound to; bindings, the focus of a project, `/clear` and its inherited task; and
the transactions of a cancellation (`AuthorizeCommitted`, or `ReadStaged` and
`AuthorizeStaged`, then `Cancel`).

### `Procedures.tla`

One procedure: its versions with their candidate row, the preferred one, and the
four ways the preference moves (a baseline the user accepts, a candidate the
user decides, a replay of a project, a replay of the company with an approval).
An approval is the record of a turn the user said (`UserSays`, `RecordApproval`)
and is read and spent later. A replay goes through its stages (`PrepareReplay`,
`ReplayPasses`, `AttestReads`, `AttestWrites`) and its promotion is a call of its own.
`history` is a ghost: every change of the preference and the turn it rests on.

### `KnowledgeLifecycle.tla`, `ExperienceLessons.tla`

Knowledge items, their statuses and provenance, and the cascade of a revocation
as `source_revocation.analyse` computes it: a reverse walk from the source and a
forward walk from the other active ones, both cut at `MaxDepth`, which the
call refuses to reach (`ReverseFits`, `ForwardFits`). `ExperienceLessons` extends it with
the episodes captured from finished work and the consolidation of candidates
against the lessons there are. A lesson is a knowledge item, so the calls on knowledge are
its own (`LessonLifecycle`): it is of a type that needs evidence before it is validated,
callers attach some, from any source, and relate it to episodes, sources and other lessons,
and what they add carries it on when the sources of its episodes are revoked.

### `Credentials.tla`

The registry file and the credential store, written one after the other, key by key. A
call computes the new registry and the changes of keys (`Begin`), writes the store
(`ChangeStore`), then the file (`WriteRegistry`); any write can fail
(`ChangeFails`, `RestrictFails`), the old values are put back (`RestoreStore`), and that can fail
too (`RestoreFails`). `settled` and `torn` are ghosts.

### Composition

`WorkGraph` and `GovernedTask` are two views of one task and share their
abstractions of each other, and `GovernanceTxn` is `GovernedTask` at the level
of statements. `ExperienceLessons` composes consolidation, lifecycle and
revocation. `MCServices` puts seven parts in one run: they share no state in
these models, so a behaviour is of one of them (`part`), the others stay where
they began, and the states are the sum of theirs and not the product. No claim
about two of the seven together is meant by it; `ServicesDoNotInterfere` says that a
behaviour of the composition is one of each part.

## 3. Runs

The `MC*` modules give the constants; `SessionContext` and `GovernanceTxn` need none for their violations.

| run | instance | asks |
|---|---|---|
| `work_graph` | one task: a plan with an implementer and its verifier, with or without a graph, a re-plan with a single writer; or two tasks of one project with writers of the same files; valid, cyclic and self-verifying proposals; three workers, limit 2 | dependencies, evidence, finals, verification, no stall, the parallel limit and the separation of writers across tasks; that the graph implements `ScheduledWork` |
| `graph_live` | a unit and two workers under `FairSpec` | a bound worker's stop is taken in the end |
| `task_reviews` | two documents, two states of the files, two discoveries one of which has a gap, two Sonnet teams and an Opus one; two reviews of one route or two routes with one review | a pass speaks for the present document and evidence, waivers are for routine routes in whatever order routes are decided, completion is earned, the end is final |
| `embedding_queue` | one chunk of one source, two models, three workers, two attempts | a revoked source never gets a vector back, no job is stranded, jobs and vectors agree |
| `codex_handoff` | one hand-off of one path with another path outside of its scope, two calls, one checkpoint and one commit of the developer, under `FairSpec` | only what is in scope is executed, the promotion window is exclusive, a claim is answered; that the hand-off implements `ContractedWork` |
| `services` | the seven parts of `MCServices`, see the bounds below | one to three questions for each part; that overlapping calls implement `ReviewedTask` |
| `experience_lessons` | two tasks, each on a source of its own, four candidates of which three say the same, evidence of the second source for a lesson of the first task, two lessons that may be related to each other | every lesson in use is earned |
| `graph_join_barrier`, `task_failed_review`, `codex_new_directory`, `session_hold`, `governance_overlap` | one property each | five statements of documents, comments and tests the code does not keep (section 6) |

**Questions of `services`.** Knowledge: `CascadeIsExact` compares the two
bounded walks with the least fixed points they stand for, and `OrphansAreRevoked`
says that no later call undoes it. Session: `ContextIsMarked`. Reply:
`AllowedReplyIsCheckpointed`. Inputs: `CancelledWasAsked`,
`InputsStayWithTheirTask`. Procedures: `OneWordOneChange`, `ReplayYieldsToUser`.
Credentials: `StoresAgree`. Governance: `IsReviewedTask`,
`OrderedCallsNeverDeadlock`. Type invariants are one conjunction over the parts.

**Questions of the graph.** `FinalStands` and the last part of `CompletedIsVerified` are
about finals made over the graph (`joined`); of a final without one the code looks at no
unit, and what a completion still guarantees then is an observed run for each expert, and
a passed unit or, if the plan never got its graph, a report of each. That the documents promise more is
`graph_join_barrier`. `BoundWorkerStops` asks that a worker whose stop is due again and
again (`StopIsDue`: bound, its task open and not under review, its report call accepted,
without unit or never made) stops in the end, whatever is failed and reviewed meanwhile.

**Bounds of the graph and the task.** `work_graph` has two halves. In `OneTask` only the
first task moves and a plan may report without its graph; with such reports there is no re-plan
and no retry, and one worker at most stops without a unit. `TwoTasks` has the graphs of both,
no finals, and retries of one writer. Both at once are too many states. Retries need two workers on one unit, a late bind two attempts, and
verification a third worker; a re-plan needs a second plan; cross-task effects
need a second task. A stale review needs two documents, an overtaken one a
second request, an out-of-order decision two routing requests, of which one may
be protected by its trigger, by its arbiter or by its team. The constraint of
`task_reviews` keeps to two reviews of one route or two routes with one review:
both at once are too many states, and the theorems cover every number of each.
The symmetry sets permute documents, files and Sonnet teams only,
which no definition tells apart, and in `EmbeddingJobs` workers and models, which
are told apart only by what they hold; no property of those runs is a liveness property.

A late publication takes a stale worker, one that queues from an old snapshot and
one that claims again; a change of model and back takes two models. A second
chunk adds nothing the first does not show: no action looks at two chunks
together except to treat each alike.

**Bounds of the other parts.** Two conversations, rows and processes are what a
resume, a `/clear` and a reused process need, and two items what a second
revocation needs after an acknowledgement. Rows, processes, items and
transactions are numbered and the first free number is taken, which is a
reduction by symmetry made in the guards. In `services` prompts are not inspections
(`Wishes = {FALSE}`): the hold has no part in `ContextIsMarked`, and
`session_hold` has both kinds. Two turns and one tool call
let a stop hook end in the turn after its own. Two inputs, sessions
and tasks let a word be said in one session and be offered for another task. Three words,
three versions of two methods (which are symmetric) and one replay let a preference move away
and back. A derivation of an item on an item, an episode and an artifact is a
chain of depth 3; evidence of a second source and of a company source gives the
other support. Two sources let evidence carry a lesson over the revocation of the first, and
an edge each way between two lessons lets them carry nothing but each other; four candidates are a
lesson, its duplicate, its opposite and one that meets the cap. Credentials: one resource, one capture, two fields and two values, so that a write of two keys can fail
half-way and a restoration too. Governance: three overlapping transactions, of any ten calls; a deadlock of two and the
race of a verdict and two others fit in. Five are needed for the
cancelled task of section 6, which is beyond this run.

**Deadlock** is checked where the system has no end: `task_reviews`, `embedding_queue` and
`codex_handoff`, whose developer and calls always have a next step. Elsewhere it is
disabled: workers claim one unit in their life, prompts, turns, rows,
transactions and words are bounded, so a finished instance stops.

**Fairness.** `HookFairness` of `WorkGraph`: the host runs the bind hook of a start call or gives
it up (its timeout), weakly fair; it delivers the stop hook of a worker again
when it was refused, strongly fair, since a review may reopen and close in between.
`FairSpec` of `CodexHandoff`: a living call takes its next step, weakly fair, as every
subprocess and statement has a time limit; dying is never fair, and nothing is assumed of the developer, of Codex or
of another call, so `ClaimIsAnswered` has the case that every call that could answer has
ended. Nothing is assumed of the chairman, and nothing of embedding workers: they
are launched by calls, and no call has to come, so `NeverStranded` says what
a next run can do and not that there is one.

## 4. Proofs

Eight modules, each for every value of the constants of its component and from its
named assumptions only:

| module | about | properties of runs it proves |
|---|---|---|
| `WorkGraphProofs` | `WorkGraph`, `ScheduledWork` | types, dependencies, limit and scopes, current units, evidence, finals, verification, no stall, bound writers, the refinement |
| `GovernedTaskProofs` | `GovernedTask` | types, currency of a pass, waivers, completion, the end |
| `GovernanceTxnProofs` | `GovernanceTxn`, `ReviewedTask` | types, the refinement, no deadlock of ordered calls |
| `EmbeddingJobsProofs` | `EmbeddingJobs` | types, revocation, stranded jobs, vectors and jobs |
| `CodexHandoffProofs` | `CodexHandoff`, `ContractedWork` | types, scope, the promotion window, the refinement |
| `ServicesProofs` | `Procedures`, `Credentials`, `ReplyGuard`, `MCServices` | words, replays; the two stores; checkpoints before replies; the types of the composition |
| `KnowledgeProofs` | `KnowledgeLifecycle`, `ExperienceLessons` | revoked memory, exactness of the cascade, lessons |
| `SessionsProofs` | `SessionContext`, `UserInputs` | marks of contamination, cancellations, the user's words |

`WorkGraphProofs` proves for any tasks, plans,
units, workers, proposals and parallel limit that `InductiveInvariant` holds initially and is kept by every step; the
safety properties and the action properties follow. Beyond the properties
themselves the invariant needs: `RunsAreOver` (only a stopped worker has a run,
so `ON CONFLICT DO NOTHING` never swallows the outcome `PassedIsEarned` rests
on), `HostsHaveClaims` (the host of a unit claimed that unit, which gives two
units two hosts and makes the verifier another worker), `GraphsAreValid` (stored
contracts are a graph `ValidGraph` accepted, which gives acyclicity to
`GraphNeverStalls` and the verifier's dependency to `CompletedIsVerified`), what a final of either
kind was made over (`FinalsHaveReports`: the reports of units or those without) and
`CompletedIsFinal`. `GraphNeverStalls` is proved by taking the set of units
that are not passed as the witness in `Acyclic`: one of them depends on none of
the others, and is ready. `ImplementsScheduler` proves the refinement: the
initial state maps to the scheduler's, and each step that touches a unit's row
maps to a step of the scheduler (`SchedulerMoves`) or to a stutter.

`GovernedTaskProofs` does the same for one task, for any documents, files,
discoveries, teams and numbers of requests. The invariant is the conjunction of
the properties: `PassedIsCurrent` needs `PendingIsNewest`, because a verdict on
an older review would pass the task while the newest says otherwise;
`WaiverIsRoutine` goes by the place of the decided request among the routed
ones: if it is newer it needs no review itself, and if it is older it does not
count. `CompletionIsEarned`, `TerminalStands` and `CompletedPassStands` follow
step by step, the second because a cancelled task is never passed
(`CancelledIsQuiet`), which is all that keeps `complete_task` from completing it.

`GovernanceTxnProofs` takes the same calls apart, for any number of overlapping
transactions. `OverlapInvariant` says that `task_state` and the task are locks in fact
(`RowsAreHeld`): whoever is past the statement that locks one of them holds it, and a review
that was prepared meanwhile supersedes the others. This gives `PassSurvivesOverlap`,
a pass is the verdict on the newest request and on the document as it is, although
every call begins with reads that nothing protects. `SerialInvariant` adds what each
call has found under its locks (`FoundOfState`, `FoundOfTask`): it is still so at the commit,
because whoever writes it holds the row (`BehindIsHeld`, `FinishFinds`), and for an
abandonment the request as well (`AbandonedIsLocked`). So each commit is a step of
`ReviewedTask` and each other statement a stutter, one lemma per call, and
`OverlappingCallsAreSerial` follows; that a completion finds its review current is
`PassSurvivesOverlap` again. `HoldersArePast` says that who holds a row has executed the statement that
locks it; with the rows in the order state, request, task, a circle of waiting
transactions would have one that waits for a row before all it holds, which
their scripts exclude: `OrderedCallsNeverDeadlock`. The calls that break
the order are named (`TaskFirst`): a transition, a decision and an invalidation. The types
need `DocumentsCounted`: no more documents than calls that are over, since each call writes
at most one.

`EmbeddingJobsProofs` proves the properties of the queue for any sources,
chunks, models, workers and numbers of attempts, from `EmbeddingAssumption`. The
invariant adds `RowsAreOfChunks` (a job has a chunk, and a snapshot names chunks
that exist), since a chunk that is ingested gets its first job whatever row a
chunk of its name had. `NeverStranded` and `VectorsHaveJobs` use it to conclude
that a job a claim or the fence retires has lost its source, and
`RevokedIsCleared` that such a chunk has no vector. `FailedIsFinal` follows
from a leased job being a running one. The proofs look at a claim through
`ClaimedJob`, what it does to a single job.

`CodexHandoffProofs` is about any number of calls over any hand-offs, each of which may
die anywhere. None of its properties is inductive. `WindowIsExclusive` needs that a
call from its guard to its commit holds the lock of the rows and compared the task under
it (`HolderIsAlone`), so that no step of the chairman or the validator is enabled.
`OneOutcome`, that one call executes a contract and one outcome is recorded, needs
that a call past its claim finds `STARTED` on record and no outcome
until it writes one (`ClaimIsOnRecord`). `ExecutedIsInScope` holds although the patch
need not be what was checked: the checked paths are in scope (`CheckedInScope`), what has
landed is among what `git status` reports (`LandedIsDirty`), and a call that goes on to
report success has compared the two (`VerifiedInScope`). `ImplementsContractedWork` rests on
all of them: one outcome makes the stage of a job a function of its events, the lock
makes the subject stand still while a call enters, and a success reports what is in scope.

`ServicesProofs`, procedures: a word is spent when the version it settled is preferred or
superseded. Settled versions stay settled and keep their approval (`SettledStay`), which
is why a retried call is refused although its approval is still on record
(`WordsAreSpent`). `ReplayYieldsToUser` needs that the baseline of a replay is settled, so
that once another version is preferred it never is again (`ReplaysAreOvertaken`), and that
what the user rejected stays rejected (`RejectedStays`). Credentials: while a call is
under way every key has its old value or the one the call is to leave, what is to be
put back is the old value, and the file and the values fit on both ends (`CallKeeps`).
Replies: a gate that counts, over a task that was not changed since, was confirmed over a
checkpoint of the chairman (`GateIsCovered`), and no gate is of a later turn or of more
activity than there was, or a new turn could come to meet it (`GateIsPast`).
The composition: the specification of `MCServices` implies those of its seven
parts (`ServicesDoNotInterfere`), because a step of one leaves the variables of the others
alone, and so `ServicesTypeOK` is the conjunction of seven theorems about them.

`KnowledgeProofs` is about any items, edges and any depth. The walks of `analyse` are
recursive functions of the depth, and the library's induction cannot be
instantiated; what is proved of every depth goes by first-order induction over a *set* of
numbers, `NaturalsByStep`, which is derived from the well-foundedness of finite
subsets. `Iterates` gives the walks their values, `ReachedSteps` and `BelowSteps` their steps, and
`ReverseFits` and `ForwardFits`, the refusal at the bound, are what makes the
last step add nothing, so that the walk is a fixed point (`ReachedIsLeast`). With it
`CascadeIsExact` holds: a revocation takes what rests on its source and does not stand
on another. `OrphansAreRevoked` follows for every later call from its guards on
support. For lessons the invariant says what consolidation leaves: a consolidated
candidate has an edge from its lesson to each episode it kept, none of failed work if the lesson is
positive (`EpisodesAreKept`), and every lesson that is not revoked has ground under it
(`LessonsStand`). Ground is the least set of lessons that reach an active source or a good
episode through memory that was never revoked (`OnGroundIsLeast`), so it only grows until a revocation
(`GroundGrows`). A revocation leaves ground under what it does not take
(`RevocationTakesLessons`): a lesson that rests on the source is left only if it stands on
another one, through nodes the cascade leaves too, and one that does not rest on it loses
nothing it was reached by. A chain may go through memory that is retired or superseded, which
the cascade looks at only when a source below it is revoked; that is why the property says ground and not
`StandsOn`.

`SessionsProofs`, contamination: `ContextIsMarked` says nothing of a row whose
acknowledgement is current, which the next revocation must mark again. What is
inductive is that the mark of an open row is never older than the revocation of
anything it has read (`LoadedIsMarked`), which needs that a row nobody owns has
read nothing (`FreshRowsAreClean`). Inputs: between the transactions of a cancellation
`CancelledWasAsked` says nothing, so the invariant adds that an authorization
rests on a word as well (`AuthorizedWasAsked`); every step keeps the words there are
(`WordsStay`), also the insertion of an input before others, which shifts the places of
the later ones: `InputsStayWithTheirTask` counts the words of a task, and the
proof maps their old places to the new ones.

**Assumptions.** They say what the constants are, and TLC evaluates each in a run.
Those the proofs asked for: the sets of nodes of the knowledge graph are disjoint (a key
carries the type of its row); a lesson belongs to the project and may be derived from any
episode (`consolidate` refuses another scope and writes an edge to each episode the
candidate cites); `NoCall` is no call, and `None` is neither a hand-off nor a call nor a contract.

Some theorems are about what no run lists, because the invariant they are
conjuncts of is proved and a run adds nothing: the inductive invariants
themselves, `OneOutcome` and `PassSurvivesOverlap` (which the runs ask of the refinements
they are the core of), `PassedIsClosed`, `RetryAfterStop`,
`ReviewedEvidenceIsFrozen`, `PendingIsNewest`, `CancelledIsQuiet`,
`FailedIsFinal`, and the type invariants of the parts of `services`.
`ReviewedEvidenceIsFrozen` holds of atomic calls; that it
does not hold of their statements is the run `governance_overlap`.

**Only model-checked.** `BoundWorkerStops` and `ClaimIsAnswered`: fairness and ENABLED
are out of the prover's reach. Everything else the passing runs ask is a theorem too. The
five violations are shown by their runs, each of which names a statement the
theorems must not and do not contain.

## 5. Plan

Done: `WorkGraph` with `ScheduledWork`, `GovernedTask`, `GovernanceTxn` with the
order of locks and `ReviewedTask`, `EmbeddingJobs`, `CodexHandoff` with `ContractedWork`,
sessions, replies, user inputs, procedures with replays and approvals, knowledge with
revocation, lessons, credentials, their composition; the proofs of section 4.

Next, in this order:

1. The ledger of task decisions with its supersession, and the approvals of sources.
2. `GovernedTask` as an abstraction of `GovernanceTxn` with its routes and files, so that
   one refinement joins the two views of a task.

## 6. Disagreements met

Runs:

* `JoinBarrierHolds` - `plugins/vres-os/agents/chairman.md:48`. A final made over reports
  without units, before the graph was recorded, stands for the join barrier: the task
  completes although its verifier found a judgmental criterion failed.
* `FailedReviewBlocksCompletion` - `tests/integration/test_routing_governor.py:699`.
  The routine completion turns a failed review into a waiver before it completes.
* `AppliedSetIsReported` - `tests/test_codex_handoff.py:748`. `git status` without
  `--untracked-files=all` reports a new directory by its name, so a hand-off that
  creates one is refused after its patch was applied, and the files stay written.
* `HoldFollowsPrompt` - `src/vres_os/migrations/029_user_read_only_hold.sql:3`. The
  detached end worker closes the row of a conversation that was resumed meanwhile, and
  the hold of its latest prompt with it.
* `EvidenceIsFrozen` - `src/vres_os/migrations/030_protected_governance_freshness.sql:1`.
  An event whose trigger ran before a review was prepared is committed during the
  review or after its pass, and counts as older.

Met while modelling, and not runs of their own:

* `docs/LIVE-VERIFICATION.md:454`: a bind hook that lands after its unit was
  failed and started again binds the first worker to the second attempt.
* `docs/FINAL-VERIFICATION.md:190`: a unit failed before its bind hook names no
  host, so nothing waits for its worker, and two workers of a unit may live at once.
* `README.md:26`: the restriction of a writer is looked up through the host
  column that only the bind hook writes.
* `plugins/vres-os/agents/chairman.md:60`: a routing request decided as
  protected after a newer one was decided as routine is not looked at.
* `src/vres_os/hooks.py:289`: recording a decision rewrites the document under
  review. The verdict is then refused, unless the document is back to what it was.
* `src/vres_os/task_lifecycle.py:151`: "Task status {current} is terminal and cannot
  be changed". In five overlapping calls a review is prepared and a session bound from
  an open status read before a cancellation; the verdict passes the cancelled task, and
  `complete_task` completes it.
* `docs/EXPERIENCE-INTELLIGENCE-E2-CONTRACT-2026-09-29.md:69`: a lesson and its
  opposite may both be open after the older one is reinstated.
* `tests/test_credential_broker.py:219`: the message that the old credentials were
  restored is also given when `_write_registry` fails to restrict a file that is already in
  place; the values are old then and the file is new (`torn`).
* `docs/architecture/ONBOARDING.md:34`: the lease of an embedding job is
  the number of its attempt, which a requeue sets back to 0, so a worker whose
  first attempt went stale and the one that claims first after the requeue hold
  the same lease. Both vectors are of one model and one text: what is lost is a run, not a result.

What the code allows and no document forbids, worth knowing when reading the models:

* Work graph: the stop of a worker whose report call for its unit was refused is refused
  every time it is delivered (`routing.py:764`, `subagent_hook.py:206`) while that call is
  among the last records of its transcript; a unit bound to it can be failed and not retried, unless
  the task is re-planned; a report call
  that names the role alone files an observed run and leaves the unit as it is, and the unit's row keeps
  waiting for a run that names it.
* Sessions: a row that ended and is resumed starts without a mark, with the context it
  had. A preflight and the tool it allowed are two steps.
* Inputs: an older prompt staged late can become the latest instruction of its task;
  a prompt about one task is committed to another if the session is rebound before;
  what the user says between the reading of a staged cancellation and its commit does not stop it.
* Replies: a turn of a session that becomes unbound between inspection and mark can be sent back again;
  a mark that comes late lands on the guard of the next turn, whose first refused stop is let through.
* Procedures: an acceptance given before a later rejection can still be spent; the
  executor records runs against a version superseded since; a replay may promote a
  candidate whose evaluation asked for the user.
* Knowledge: company knowledge derived only from revoked project knowledge stays
  readable; a relation asks nothing of its target's status; an item kept because of a
  carrier is not looked at again when the carrier is retired.
* Lessons: a retirement and a reinstatement can exceed the cap of open proposals; the success of a
  work unit cannot be captured once its failure was.
* Codex: files written by a call that dies between `git apply` and its commit stay, and
  nothing marks the task; any commit in the primary fails a running hand-off; a
  review requested before a promotion can pass after it when its manifest names
  none of the promoted files.

## 7. Not modelled

* Experience retrieval, replay of retrievals and observability: read-only ranking
  over SQL, and append-only records nothing decides on.
* Migrations and the database boundary, autocompact: installation by one owner; what
  a model would say is what the database and the operating system already keep.
* Model experiments: runs and attestations are append-only rows. A pair of runs is
  checked again whenever it is used, and `assess` reports
  `policy_mutation_allowed` false whatever it finds.
* Architecture governance: parsing of source files and glob patterns over paths.
* Capabilities and project agents, company adapters: rows and files written by one
  call of the chairman.
* Onboarding and ingestion, command line, configuration: document parsing, text
  policies, printing and process launching.
* Of modelled components: formatting, redaction, the detection of credentials and of
  commands in a shell line, the contents of documents, the wording of
  contracts; in `GovernanceTxn` the files of a review and the waiver of routine routes; in
  `Credentials` two processes at once, which the file does not exclude and the code does not handle.

`PROJECT.json` lists each part with its files, status and reason.
