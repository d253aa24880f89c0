--------------------------- MODULE CodexHandoff ---------------------------
(***************************************************************************)
(* The hand-off of work on one task to Codex: a contract is frozen, a call *)
(* claims it, Codex writes in a disposable worktree, and what it wrote is  *)
(* checked, made a patch and promoted into the primary workspace inside a  *)
(* transaction that holds the rows of the task.  The developer, the        *)
(* chairman, the validator and whatever Codex left running go on.          *)
(*                                                                         *)
(* Source: codex_handoff.py; validation.py, repository.py and the triggers *)
(* for what the others do to the task.  One action per transaction or git  *)
(* command whose answer is used later.  A path is changed or it is not;    *)
(* contents are left out, so a postcondition and a textual conflict are    *)
(* either outcome.                                                         *)
(***************************************************************************)
EXTENDS Integers, FiniteSets

CONSTANTS
    Handoff, Path,
    Call,            \* invocations of execute, each used again and again
    Scope, Required, \* write_scope and required_changed_paths of a hand-off
    Unseen,          \* new files in a directory the first commit does not have
    Dir,             \* that directory, as git status names it
    MaxDoc,          \* bound: checkpoints of the task
    MaxHead,         \* bound: commits of the developer
    None

Status == {"not_required", "pending", "failed", "passed"}
Fingerprint == [doc : 0..MaxDoc, vstatus : Status]
Contract == [task : Fingerprint, head : 0..MaxHead]

ASSUME HandoffAssumption ==
    /\ Scope \in [Handoff -> SUBSET Path]
    /\ Required \in [Handoff -> SUBSET Path]
    /\ Unseen \subseteq Path
    /\ Dir \notin Path
    /\ MaxDoc \in Nat /\ MaxHead \in Nat
    /\ None \notin Handoff \cup Call \cup Nat \cup Contract

VARIABLES
    head, dirty, newDir, \* the primary workspace
    task, doc, vstatus,  \* the task, its fingerprinted fields, its validation
    review,              \* the pending validation request: the doc it froze
    prepared, events,    \* the contract and the other events of a hand-off
    landed, removed,     \* what git apply wrote for it that is in the working tree
                         \* still; the hand-offs whose worktree was removed
    lock,                \* the promotion that holds the rows of the task
    pc, local            \* a call's place and what it holds

primaryVars == <<head, dirty, newDir>>
taskVars == <<task, doc, vstatus, review>>
handoffVars == <<prepared, events, landed, removed>>
callVars == <<pc, local>>
vars == <<primaryVars, taskVars, handoffVars, lock, callVars>>

Event == {"STARTED", "EXECUTED", "FAILED", "CLEANUP_FAILED"}

\* Its hand-off, the task it read, whether it goes well so far, the commit its
\* worktree was made at, the paths changed there, those it checked and those of
\* its patch.
Local == [job : Handoff \cup {None}, read : Fingerprint, good : BOOLEAN,
          at : 0..MaxHead, changed : SUBSET Path,
          checked : SUBSET Path, patch : SUBSET Path]

Fresh(h, now) ==
    [job |-> h, read |-> now, good |-> TRUE, at |-> 0, changed |-> {},
     checked |-> {}, patch |-> {}]

NoLocal == Fresh(None, [doc |-> 0, vstatus |-> "pending"])

Window == {"marked", "applying", "applied", "committing"}
Claimed == {"claimed", "probing", "running", "measured", "scoped", "patched",
            "guarding", "repairing", "reporting", "removing"} \cup Window

TypeOK ==
    /\ head \in 0..MaxHead /\ dirty \in SUBSET Path /\ newDir \in SUBSET Path
    /\ task \in {"bound", "unbound", "ended"}
    /\ doc \in 0..MaxDoc /\ vstatus \in Status
    /\ review \in 0..MaxDoc \cup {None}
    /\ prepared \in [Handoff -> Contract \cup {None}]
    /\ events \in [Handoff -> SUBSET Event]
    /\ landed \in [Handoff -> SUBSET Path] /\ removed \in SUBSET Handoff
    /\ lock \in Call \cup {None}
    /\ pc \in [Call -> {"idle", "claiming"} \cup Claimed]
    /\ local \in [Call -> Local]
    /\ \A c \in Call : (pc[c] = "idle") = (local[c].job = None)

Init ==
    /\ head = 0 /\ dirty = {} /\ newDir = Unseen
    /\ task = "bound" /\ doc = 0 /\ review = None
    /\ vstatus = "not_required"
    /\ prepared = [h \in Handoff |-> None]
    /\ events = [h \in Handoff |-> {}]
    /\ landed = [h \in Handoff |-> {}] /\ removed = {}
    /\ lock = None
    /\ pc = [c \in Call |-> "idle"]
    /\ local = [c \in Call |-> NoLocal]

----------------------------------------------------------------------------
\* The fields and decisions a contract is fingerprinted with.
TaskNow == [doc |-> doc, vstatus |-> vstatus]

\* get_git_status of the primary: untracked files of a new directory are
\* reported as that directory.
Reported(paths) ==
    (paths \ newDir) \cup (IF paths \cap newDir = {} THEN {} ELSE {Dir})

\* Mutant of Free: the promotion does not lock the rows it read.
FreeAnyway(c) == TRUE

\* The rows of the task can be locked.
Free(c) == lock = None

\* Mutant of Unclaimed: only hand-offs that have ended count as claimed.
UnclaimedUnlessEnded(h) == events[h] \cap {"EXECUTED", "FAILED"} = {}

Unclaimed(h) == events[h] \cap {"STARTED", "EXECUTED", "FAILED"} = {}

\* check_write_scope on the worktree.
InScope(c) ==
    /\ local[c].changed \subseteq Scope[local[c].job]
    /\ Required[local[c].job] \subseteq local[c].changed

\* verify_worktree_integrity: the refs, which the developer's commits share, are
\* those of the new worktree.  HEAD, index, configuration and ignored files are
\* compared too; only Codex changes them, and that is a refusal like others.
Intact(c) == local[c].at = head

\* Contents are left out, so the postconditions of the files hold or not.
Postconditions == BOOLEAN

\* Mutant of Verified: the primary is not compared with the worktree.
VerifiedAnyway(c) == TRUE

\* The primary has the changes that were checked, and no others.
Verified(c) == Reported(dirty) = local[c].checked

----------------------------------------------------------------------------
(* The primary workspace and the task: developer, chairman, validator. *)

Edit(p) ==
    /\ dirty' = dirty \cup {p}
    /\ UNCHANGED <<head, newDir, taskVars, handoffVars, lock, callVars>>

Settled == dirty' = {} /\ landed' = [h \in Handoff |-> {}]

Discard ==
    /\ Settled
    /\ UNCHANGED <<head, newDir, taskVars, prepared, events, removed, lock, callVars>>

Commit ==
    /\ dirty # {} /\ head < MaxHead
    /\ head' = head + 1
    /\ Settled
    /\ newDir' = IF dirty \cap newDir = {} THEN newDir ELSE {}
    /\ UNCHANGED <<taskVars, prepared, events, removed, lock, callVars>>

\* The end of a session touches no row of the task; binding one does.
EndSession ==
    /\ task = "bound"
    /\ task' = "unbound"
    /\ UNCHANGED <<primaryVars, doc, vstatus, review, handoffVars, lock, callVars>>

BindSession ==
    /\ Free(None) /\ task = "unbound"
    /\ task' = "bound"
    /\ UNCHANGED <<primaryVars, doc, vstatus, review, handoffVars, lock, callVars>>

EndTask ==
    /\ Free(None) /\ task # "ended"
    /\ task' = "ended"
    /\ review' = None
    /\ UNCHANGED <<primaryVars, doc, vstatus, handoffVars, lock, callVars>>

\* A checkpoint or a decision; a pass is protected.
Checkpoint ==
    /\ Free(None) /\ task # "ended" /\ vstatus # "passed"
    /\ doc < MaxDoc
    /\ doc' = doc + 1
    /\ UNCHANGED <<primaryVars, task, vstatus, review, handoffVars, lock, callVars>>

RequestReview ==
    /\ Free(None) /\ task # "ended" /\ vstatus # "passed"
    /\ vstatus' = "pending"
    /\ review' = doc
    /\ UNCHANGED <<primaryVars, task, doc, handoffVars, lock, callVars>>

\* The reviewed document is the present one; the files named in the review
\* are, too, but they may be none of those a hand-off changes.
Verdict(outcome) ==
    /\ Free(None) /\ task = "bound"
    /\ review = doc
    /\ vstatus' = outcome
    /\ review' = None
    /\ UNCHANGED <<primaryVars, task, doc, handoffVars, lock, callVars>>

Invalidate ==
    /\ Free(None) /\ task # "ended" /\ vstatus = "passed"
    /\ vstatus' = "pending"
    /\ UNCHANGED <<primaryVars, task, doc, review, handoffVars, lock, callVars>>

Others ==
    \/ \E p \in Path : Edit(p)
    \/ Discard \/ Commit \/ EndSession \/ BindSession \/ EndTask \/ Checkpoint \/ RequestReview \/ Invalidate
    \/ \E outcome \in {"passed", "failed"} : Verdict(outcome)

----------------------------------------------------------------------------
(* Prepare, claim, run. *)

\* build_write_scope, and what prepare asks of its result.
WellFormed(h) == Scope[h] # {} /\ Required[h] # {} /\ Required[h] \subseteq Scope[h]

\* Other refusals (criteria, postconditions, prompt) freeze nothing.
Prepare(h) ==
    /\ prepared[h] = None
    /\ Free(None) /\ task = "bound" /\ Reported(dirty) = {}
    /\ WellFormed(h)
    /\ prepared' = [prepared EXCEPT ![h] = [task |-> TaskNow, head |-> head]]
    /\ UNCHANGED <<primaryVars, taskVars, events, landed, removed, lock, callVars>>

Goto(c, place) == pc' = [pc EXCEPT ![c] = place]

\* The call returns or ends.
Leave(c) ==
    /\ Goto(c, "idle")
    /\ local' = [local EXCEPT ![c] = NoLocal]

\* Mutant of Failing: the failure is filed under no hand-off.
FailingForAll(c) == [local EXCEPT ![c] = [NoLocal EXCEPT !.good = FALSE]]

\* All a call that has failed still needs.
Failing(c) == [local EXCEPT ![c] = [NoLocal EXCEPT !.job = local[c].job, !.good = FALSE]]

\* A check failed: FAILED is recorded next.
Fail(c) == Goto(c, "reporting") /\ local' = Failing(c)

\* The task is read here and compared after the claim.
Authorize(c, h) ==
    /\ pc[c] = "idle"
    /\ prepared[h] # None /\ task = "bound"
    /\ Goto(c, "claiming")
    /\ local' = [local EXCEPT ![c] = Fresh(h, TaskNow)]
    /\ UNCHANGED <<primaryVars, taskVars, handoffVars, lock>>

Claim(c) ==
    /\ pc[c] = "claiming" /\ Free(c)
    /\ IF Unclaimed(local[c].job)
       THEN /\ events' = [events EXCEPT ![local[c].job] = @ \cup {"STARTED"}]
            /\ Goto(c, "claimed")
            /\ UNCHANGED local
       ELSE Leave(c) /\ UNCHANGED events
    /\ UNCHANGED <<primaryVars, taskVars, prepared, landed, removed, lock>>

\* The contract is still about this task and this workspace.
StillPrepared(c) ==
    /\ local[c].read = prepared[local[c].job].task
    /\ head = prepared[local[c].job].head
    /\ Reported(dirty) = {}

\* create_detached_worktree, at the commit that was compared.
Provision(c) ==
    /\ pc[c] = "claimed" /\ StillPrepared(c)
    /\ local' = [local EXCEPT ![c].at = head]
    /\ Goto(c, "probing")
    /\ UNCHANGED <<primaryVars, taskVars, handoffVars, lock>>

\* Codex, or what it left running, writes and reverts.
CodexWrites(c) ==
    /\ pc[c] \in {"running", "measured", "scoped"}
    /\ \E paths \in SUBSET Path : local' = [local EXCEPT ![c].changed = paths]
    /\ UNCHANGED <<primaryVars, taskVars, handoffVars, lock, pc>>

\* The probe is the only change, and the worktree is as new without it.
ProbePasses(c) ==
    /\ pc[c] = "probing" /\ Intact(c)
    /\ Goto(c, "running")
    /\ UNCHANGED <<primaryVars, taskVars, handoffVars, lock, local>>

\* Codex has ended well, and the worktree is measured.
CheckIntegrity(c) ==
    /\ pc[c] = "running" /\ Intact(c)
    /\ Goto(c, "measured")
    /\ UNCHANGED <<primaryVars, taskVars, handoffVars, lock, local>>

CheckScope(c) ==
    /\ pc[c] = "measured" /\ InScope(c)
    /\ local' = [local EXCEPT ![c].checked = local[c].changed]
    /\ Goto(c, "scoped")
    /\ UNCHANGED <<primaryVars, taskVars, handoffVars, lock>>

\* git add -A stages what is there by now.
GeneratePatch(c) ==
    /\ pc[c] = "scoped"
    /\ local' = [local EXCEPT ![c].patch = local[c].changed]
    /\ Goto(c, "patched")
    /\ UNCHANGED <<primaryVars, taskVars, handoffVars, lock>>

\* Codex times out, exits with an error, or its event stream is malformed,
\* truncated, oversized or empty.
CodexFails(c) ==
    /\ pc[c] \in {"probing", "running"}
    /\ Fail(c)
    /\ UNCHANGED <<primaryVars, taskVars, handoffVars, lock>>

\* A check of the other steps fails; nothing is locked or written.
Refused(c) ==
    /\ pc[c] \in {"claimed", "probing", "running", "measured", "scoped", "patched"}
    /\ Fail(c)
    /\ UNCHANGED <<primaryVars, taskVars, handoffVars, lock>>

----------------------------------------------------------------------------
(* The promotion. *)

\* tasks and task_state are locked, then compared with the contract.
LockTask(c) ==
    /\ pc[c] = "patched" /\ Free(c)
    /\ task = "bound"
    /\ TaskNow = prepared[local[c].job].task
    /\ lock' = c
    /\ Goto(c, "guarding")
    /\ UNCHANGED <<primaryVars, taskVars, handoffVars, local>>

Promotable(c) == head = prepared[local[c].job].head /\ Reported(dirty) = {} /\ vstatus # "passed"

\* HEAD, a clean tree, no pass; then pending is written, for others unseen
\* until the commit.
GuardPrimary(c) ==
    /\ pc[c] = "guarding"
    /\ IF Promotable(c) THEN Goto(c, "marked") /\ UNCHANGED <<lock, local>>
                        ELSE Fail(c) /\ lock' = None
    /\ UNCHANGED <<primaryVars, taskVars, handoffVars>>

\* The outcome is known and the transaction goes to its commit either way.
Decide(c, good) ==
    /\ Goto(c, "committing")
    /\ local' = IF good THEN local ELSE Failing(c)

\* git apply --check accepts no empty patch.
ApplyCheck(c) ==
    /\ pc[c] = "marked"
    /\ \/ local[c].patch # {} /\ Goto(c, "applying") /\ UNCHANGED local
       \/ Decide(c, FALSE)
    /\ UNCHANGED <<primaryVars, taskVars, handoffVars, lock>>

\* A git apply that fails or is killed may have written a part.
Apply(c) ==
    /\ pc[c] = "applying"
    /\ \E part \in SUBSET local[c].patch :
         /\ dirty' = dirty \cup part
         /\ landed' = [landed EXCEPT ![local[c].job] = @ \cup part]
         /\ \/ part = local[c].patch /\ Goto(c, "applied") /\ UNCHANGED local
            \/ Decide(c, FALSE)
    /\ UNCHANGED <<head, newDir, taskVars, prepared, events, removed, lock>>

VerifyPrimary(c) ==
    /\ pc[c] = "applied"
    /\ \E hold \in Postconditions : Decide(c, Verified(c) /\ hold)
    /\ UNCHANGED <<primaryVars, taskVars, handoffVars, lock>>

CommitPromotion(c) ==
    /\ pc[c] = "committing"
    /\ vstatus' = "pending"
    /\ lock' = None
    /\ Goto(c, "reporting")
    /\ UNCHANGED <<primaryVars, task, doc, review, handoffVars, local>>

\* An exception other than a HandoffError after the write of pending.
RollBack(c) ==
    /\ pc[c] \in Window
    /\ lock' = None
    /\ local' = Failing(c)
    /\ Goto(c, "repairing")
    /\ UNCHANGED <<primaryVars, taskVars, handoffVars>>

\* _force_pending_after_rollback; a pass that came in between refuses it.
Repair(c) ==
    /\ pc[c] = "repairing"
    /\ \/ Free(c) /\ vstatus # "passed" /\ vstatus' = "pending"
       \/ UNCHANGED vstatus
    /\ Goto(c, "reporting")
    /\ UNCHANGED <<primaryVars, task, doc, review, handoffVars, lock, local>>

----------------------------------------------------------------------------
(* The evidence, and the end of a call. *)

\* Mutant of MayReport: evidence is recorded by a second connection that waits
\* for the rows the promotion still holds.
MayReportInside(c) == pc[c] = "committing"

MayReport(c) == pc[c] = "reporting"

Report(c) ==
    /\ MayReport(c) /\ Free(c)
    /\ events' = [events EXCEPT ![local[c].job] = @ \cup {IF local[c].good THEN "EXECUTED" ELSE "FAILED"}]
    /\ IF local[c].good THEN Goto(c, "removing") /\ UNCHANGED local ELSE Leave(c)
    /\ UNCHANGED <<primaryVars, taskVars, prepared, landed, removed, lock>>

MayRemove(c) == pc[c] = "removing"

\* Forced removal of the call's own worktree, or a warning.
RemoveTree(c) ==
    /\ MayRemove(c)
    /\ \/ removed' = removed \cup {local[c].job} /\ UNCHANGED events
       \/ /\ Free(c)
          /\ events' = [events EXCEPT ![local[c].job] = @ \cup {"CLEANUP_FAILED"}]
          /\ UNCHANGED removed
    /\ Leave(c)
    /\ UNCHANGED <<primaryVars, taskVars, prepared, landed, lock>>

\* The process dies, or an error other than a HandoffError leaves execute.
\* The database rolls back; worktree and primary stay as they are.
Die(c) ==
    /\ pc[c] # "idle"
    /\ lock' = IF lock = c THEN None ELSE lock
    /\ Leave(c)
    /\ UNCHANGED <<primaryVars, taskVars, handoffVars>>

\* A step a living call takes by itself.
Progress(c) ==
    \/ Claim(c) \/ Provision(c) \/ ProbePasses(c) \/ CheckIntegrity(c)
    \/ CheckScope(c) \/ GeneratePatch(c) \/ CodexFails(c) \/ Refused(c) \/ LockTask(c) \/ GuardPrimary(c)
    \/ ApplyCheck(c) \/ Apply(c) \/ VerifyPrimary(c) \/ CommitPromotion(c) \/ RollBack(c)
    \/ Repair(c) \/ Report(c) \/ RemoveTree(c)

Next ==
    \/ Others
    \/ \E h \in Handoff : Prepare(h)
    \/ \E c \in Call, h \in Handoff : Authorize(c, h)
    \/ \E c \in Call : Progress(c) \/ CodexWrites(c) \/ Die(c)

Spec == Init /\ [][Next]_vars

\* Every subprocess and statement of a call has a time limit, so a living call
\* takes its next step.
FairSpec == Spec /\ \A c \in Call : WF_vars(Progress(c))

----------------------------------------------------------------------------
(* The hand-off as contracted work. *)

IsEntering(h) == \E c \in Call : pc[c] \in Window /\ local[c].job = h

StageOf(h) ==
    IF "EXECUTED" \in events[h] THEN "done"
    ELSE IF "FAILED" \in events[h] THEN "failed"
    ELSE IF IsEntering(h) THEN "entering"
    ELSE IF "STARTED" \in events[h] THEN "taken"
    ELSE IF prepared[h] # None THEN "open" ELSE "none"

WorkersOf(h) == {c \in Call : pc[c] \in Claimed /\ local[c].job = h}

WorkerOf(h) == IF WorkersOf(h) = {} THEN None ELSE CHOOSE c \in WorkersOf(h) : TRUE

Stages == [h \in Handoff |-> StageOf(h)]
Workers == [h \in Handoff |-> WorkerOf(h)]
Agreed == [h \in Handoff |-> IF prepared[h] = None THEN None ELSE prepared[h].task]

Contracts == INSTANCE ContractedWork WITH
    Job <- Handoff, Worker <- Call, Limit <- Scope, Nobody <- None,
    stage <- Stages, worker <- Workers, agreed <- Agreed,
    written <- landed, discarded <- removed,
    subject <- TaskNow, closed <- task = "ended" \/ vstatus = "passed"

----------------------------------------------------------------------------
(* Properties. *)

\* What a hand-off that is reported as executed has put into the primary is in
\* its write scope, although Codex may leave processes behind that write
\* between the check of the scope and the making of the patch.
ExecutedIsInScope ==
    \A h \in Handoff : "EXECUTED" \in events[h] => landed[h] \subseteq Scope[h]

\* A contract is executed once, by one call, with one outcome, however many
\* calls try; and the worktree, the only copy of what was done, is removed
\* only when the outcome is on record.
OneOutcome ==
    /\ \A c, d \in Call :
         pc[c] \in Claimed /\ pc[d] \in Claimed /\ c # d => local[c].job # local[d].job
    /\ \A h \in Handoff :
         /\ ~({"EXECUTED", "FAILED"} \subseteq events[h])
         /\ h \in removed => "EXECUTED" \in events[h]

\* While a promotion writes into the primary nobody can pass, end or rewrite the
\* task: the task stays the one of the contract, without a pass, until commit.
WindowIsExclusive ==
    \A c \in Call : pc[c] \in Window =>
        /\ vstatus # "passed" /\ task # "ended"
        /\ TaskNow = prepared[local[c].job].task

\* Whatever the order of calls and wherever they die, a contract is claimed by one call,
\* changes the primary only while the task is locked and as agreed, with no other
\* promotion at work, and never again once its outcome is on record.
IsContractedWork == Contracts!Spec

\* Nothing waits for ever: a claimed hand-off gets its outcome, unless every
\* call that could record it has ended without.
ClaimIsAnswered ==
    \A h \in Handoff :
        "STARTED" \in events[h] ~>
            \/ events[h] \cap {"EXECUTED", "FAILED"} # {}
            \/ \A c \in Call : pc[c] \in Claimed => local[c].job # h

\* tests/test_codex_handoff.py: after the apply, git status of the primary is
\* the set of paths changed in the worktree.
AppliedSetIsReported ==
    \A c \in Call :
        pc[c] = "applied" /\ dirty = local[c].checked => Reported(dirty) = local[c].checked
=============================================================================
