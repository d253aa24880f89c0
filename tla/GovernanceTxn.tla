---------------------------- MODULE GovernanceTxn ----------------------------
(***************************************************************************)
(* The calls that decide about one protected task, as PostgreSQL runs      *)
(* them under READ COMMITTED: every statement sees what is committed when  *)
(* it begins, row locks are held to the end, what a transaction writes is  *)
(* seen by others when it commits, and of the transactions that wait for   *)
(* each other one is ended.  GovernedTask takes each call as one step.     *)
(*                                                                         *)
(* Source: orchestration.py, validation.py, validation_lifecycle.py,       *)
(* repository.py, task_lifecycle.py, task_decisions.py, routing.py and the *)
(* triggers of 015, 028, 030 and 036.  Rows: tasks, task_state and the     *)
(* pending validation request.  The graph of the task is complete and its  *)
(* route protected; a document is a number; the waiver of routine routes,  *)
(* the files of a review and the locks of sessions are left out.           *)
(***************************************************************************)
EXTENDS Integers, Sequences, FiniteSets

CONSTANTS
    MaxTxn,   \* bound on transactions
    MayCall   \* the calls that are made, of those of Script

VARIABLES
    lifecycle,  \* tasks.status: "open", "completed" or "cancelled"
    boundTo,    \* an open session is bound to the task
    validation, \* task_state.validation_status
    document,   \* the digested fields of task_state
    requests,   \* validation_requests
    recorded,   \* the creation times of the material events that are committed
    lock,       \* the transaction that holds a row
    calling, position, \* the call of a transaction, and the statement it is at
    target      \* the request a verdict or an abandonment is about

rowsOfTask == <<lifecycle, boundTo, validation, document, requests, recorded>>
txnVars == <<calling, position, target>>
governanceVars == <<rowsOfTask, lock, txnVars>>

----------------------------------------------------------------------------
\* Transactions are numbered in the order they begin, which is that of their now().
Txn == 1..MaxTxn
NoTxn == 0

\* The row each statement of a call locks, "" if it only reads.
Script ==
    [record     |-> <<"", "", "task">>,                    \* _bound_task, trigger 030, _insert_event
     prepare    |-> <<"", "state", "request">>,
     verdict    |-> <<"state", "request">>,
     abandon    |-> <<"", "state", "request", "task">>,
     update     |-> <<"state", "task">>,                   \* update_state, checkpoint
     decide     |-> <<"task", "state">>,                   \* task_decisions.py
     invalidate |-> <<"task", "state">>,
     cancel     |-> <<"task", "request", "state">>,
     complete   |-> <<"", "state", "task">>,
     bind       |-> <<"", "task">>]

ASSUME GovernanceAssumption == MaxTxn \in Nat /\ MayCall \subseteq DOMAIN Script

\* Mutant of ScriptOf: the verdict locks its request before the state.
VerdictRequestFirst(k) == IF k = "verdict" THEN <<"request", "state">> ELSE Script[k]

ScriptOf(k) == Script[k]

LockedRows == {"task", "state", "request"}
Live == {x \in Txn : position[x] > 0}
Newest(s) == s[Len(s)]

PendingAt == {i \in DOMAIN requests : requests[i].status = "pending"}

GovernanceInit ==
    /\ lifecycle = "open" /\ boundTo = TRUE
    /\ validation = "pending" /\ document = 0
    /\ recorded = {}
    /\ requests \in {<<>>, <<[status |-> "pending", document |-> 0, time |-> 0]>>}
    /\ lock = [r \in LockedRows |-> NoTxn]
    /\ calling = [x \in Txn |-> "none"]
    /\ position = [x \in Txn |-> 0]
    /\ target = [x \in Txn |-> 0]

----------------------------------------------------------------------------
(* Transactions. *)

StartTxn(x, k) ==
    /\ calling[x] = "none" /\ \A y \in 1..(x - 1) : calling[y] # "none"
    /\ k \in {"verdict", "abandon"} => requests # <<>>
    /\ calling' = [calling EXCEPT ![x] = k]
    /\ position' = [position EXCEPT ![x] = 1]
    /\ target' = [target EXCEPT ![x] = Len(requests)]
    /\ UNCHANGED <<rowsOfTask, lock>>

Released(x) == [r \in LockedRows |-> IF lock[r] = x THEN NoTxn ELSE lock[r]]

Finish(x) ==
    /\ calling' = [calling EXCEPT ![x] = "over"]
    /\ position' = [position EXCEPT ![x] = 0]
    /\ target' = [target EXCEPT ![x] = 0]
    /\ lock' = Released(x)

\* Rolled back: refused, or its process died.
Abort(x) == Finish(x) /\ UNCHANGED rowsOfTask

\* The row a transaction needs next.  An update of the pending requests locks
\* none when it sees none, and a request that was decided is not waited for.
Needs(x) ==
    LET row == ScriptOf(calling[x])[position[x]] IN
    IF row = "request" /\ PendingAt = {} THEN "" ELSE row

AtStatement(x) == x \in Live /\ position[x] <= Len(ScriptOf(calling[x]))

CanLock(x) == Needs(x) # "" => lock[Needs(x)] \in {NoTxn, x}

Blocks(y, x) == AtStatement(x) /\ ~CanLock(x) /\ lock[Needs(x)] = y

\* Statement n of a call k finds what it asks for, or the call is refused.
Executes(x, k, n, asks) ==
    /\ AtStatement(x) /\ calling[x] = k /\ position[x] = n /\ CanLock(x)
    /\ IF asks
       THEN /\ position' = [position EXCEPT ![x] = n + 1]
            /\ lock' = IF Needs(x) = "" THEN lock ELSE [lock EXCEPT ![Needs(x)] = x]
            /\ UNCHANGED <<rowsOfTask, calling, target>>
       ELSE Abort(x)

\* All statements of a call have been executed, and it commits.
Commits(x, k) ==
    /\ x \in Live /\ calling[x] = k /\ position[x] = Len(ScriptOf(k)) + 1
    /\ Finish(x)

WaitForEachOther(S) == S # {} /\ \A x \in S : \E y \in S : Blocks(y, x)

\* The deadlock detector of PostgreSQL ends one of those that wait.
DeadlockDetected(x) ==
    /\ \E S \in SUBSET Live : x \in S /\ WaitForEachOther(S)
    /\ Abort(x)

----------------------------------------------------------------------------
(* The calls: what each statement asks for, and what is written. *)

\* assert_governance_mutation_allowed, without a lock.
MaterialAllowed == validation # "passed" /\ PendingAt = {}

\* The newest review is a pass for the present document.
Current ==
    /\ requests # <<>> /\ Newest(requests).status = "passed"
    /\ validation = "passed" /\ Newest(requests).document = document

\* The freshness of trigger 036: creation times are those of transactions.
PassIsNewer ==
    \A time \in recorded :
        \E i \in DOMAIN requests : requests[i].status = "passed" /\ time < requests[i].time

\* Mutant of RequestIsPending: the request is not read again under the lock.
RequestWasPending(x) == target[x] \in DOMAIN requests

RequestIsPending(x) == target[x] \in PendingAt

DocumentReviewed(x) == requests[target[x]].document = document

\* What the trigger of 015, an abandonment and a cancellation write, if their
\* statement found a pending request: it is superseded or abandoned, here void.
SupersededBy(x) ==
    IF lock["request"] = x
    THEN [i \in DOMAIN requests |->
            IF i \in PendingAt THEN [requests[i] EXCEPT !.status = "void"] ELSE requests[i]]
    ELSE requests

\* A plan, report, final, routing decision or worker run.
RecordEvidence(x) ==
    \/ Executes(x, "record", 1, lifecycle = "open" /\ boundTo)
    \/ Executes(x, "record", 2, MaterialAllowed)
    \/ Executes(x, "record", 3, TRUE)
    \/ /\ Commits(x, "record")
       /\ recorded' = recorded \cup {x}
       /\ UNCHANGED <<lifecycle, boundTo, validation, document, requests>>

\* The status of the task is read when the statement begins to wait for the
\* state, and not again.
PrepareReview(x) ==
    \/ Executes(x, "prepare", 1, lifecycle = "open")
    \/ Executes(x, "prepare", 2, validation # "passed")
    \/ Executes(x, "prepare", 3, TRUE)
    \/ /\ Commits(x, "prepare")
       /\ validation' = "pending"
       /\ requests' = Append(SupersededBy(x), [status |-> "pending", document |-> document, time |-> 0])
       /\ UNCHANGED <<lifecycle, boundTo, document, recorded>>

RecordVerdict(x) ==
    \/ Executes(x, "verdict", 1, TRUE)
    \/ Executes(x, "verdict", 2, RequestIsPending(x) /\ boundTo /\ DocumentReviewed(x))
    \/ /\ Commits(x, "verdict")
       /\ \E outcome \in {"passed", "failed"} :
            /\ validation' = outcome
            /\ requests' = [requests EXCEPT ![target[x]].status = outcome, ![target[x]].time = x]
       /\ UNCHANGED <<lifecycle, boundTo, document, recorded>>

AbandonReview(x) ==
    \/ Executes(x, "abandon", 1, boundTo)
    \/ Executes(x, "abandon", 2, TRUE)
    \/ Executes(x, "abandon", 3, RequestIsPending(x))
    \/ Executes(x, "abandon", 4, lifecycle = "open")
    \/ /\ Commits(x, "abandon")
       /\ requests' = SupersededBy(x)
       /\ UNCHANGED <<lifecycle, boundTo, validation, document, recorded>>

UpdateState(x) ==
    \/ Executes(x, "update", 1, PendingAt = {} /\ validation # "passed")
    \/ Executes(x, "update", 2, TRUE)
    \/ /\ Commits(x, "update")
       /\ document' = document + 1
       /\ validation' = "pending"
       /\ UNCHANGED <<lifecycle, boundTo, requests, recorded>>

\* A decision is recorded, superseded or retired, and projected into the document,
\* also while a review is pending.
Decide(x) ==
    \/ Executes(x, "decide", 1, lifecycle = "open" /\ boundTo)
    \/ Executes(x, "decide", 2, validation # "passed")
    \/ /\ Commits(x, "decide")
       /\ document' = document + 1
       /\ validation' = "pending"
       /\ UNCHANGED <<lifecycle, boundTo, requests, recorded>>

InvalidateReview(x) ==
    \/ Executes(x, "invalidate", 1, lifecycle = "open")
    \/ Executes(x, "invalidate", 2, validation = "passed")
    \/ /\ Commits(x, "invalidate")
       /\ validation' = "pending"
       /\ UNCHANGED <<lifecycle, boundTo, document, requests, recorded>>

CancelTask(x) ==
    \/ Executes(x, "cancel", 1, lifecycle = "open" /\ boundTo)
    \/ Executes(x, "cancel", 2, TRUE)
    \/ Executes(x, "cancel", 3, validation # "passed")
    \/ /\ Commits(x, "cancel")
       /\ lifecycle' = "cancelled" /\ boundTo' = FALSE
       /\ validation' = "pending"
       /\ requests' = SupersededBy(x)
       /\ UNCHANGED <<document, recorded>>

\* assert_current in a transaction of its own, then complete_task, which does
\* not look at the status.
CompleteTask(x) ==
    \/ Executes(x, "complete", 1, Current)
    \/ Executes(x, "complete", 2, validation = "passed")
    \/ Executes(x, "complete", 3, PassIsNewer)
    \/ /\ Commits(x, "complete")
       /\ lifecycle' = "completed" /\ boundTo' = FALSE
       /\ UNCHANGED <<validation, document, requests, recorded>>

\* A session is bound to a task that was open when it was read.
BindTask(x) ==
    \/ Executes(x, "bind", 1, lifecycle = "open")
    \/ Executes(x, "bind", 2, TRUE)
    \/ /\ Commits(x, "bind")
       /\ boundTo' = TRUE
       /\ UNCHANGED <<lifecycle, validation, document, requests, recorded>>

GovernanceNext ==
    \E x \in Txn :
        \/ \E k \in MayCall : StartTxn(x, k)
        \/ RecordEvidence(x) \/ PrepareReview(x) \/ RecordVerdict(x) \/ AbandonReview(x)
        \/ UpdateState(x) \/ Decide(x) \/ InvalidateReview(x) \/ CancelTask(x) \/ CompleteTask(x) \/ BindTask(x)
        \/ DeadlockDetected(x)
        \/ x \in Live /\ Abort(x)

GovernanceSpec == GovernanceInit /\ [][GovernanceNext]_governanceVars

----------------------------------------------------------------------------
(* The calls as if they were made one after the other. *)

LastReview ==
    IF requests = <<>> THEN [status |-> "none", document |-> 0]
    ELSE [status |-> Newest(requests).status, document |-> Newest(requests).document]

Serial == INSTANCE ReviewedTask WITH
    stage <- lifecycle, passed <- validation, text <- document, review <- LastReview

----------------------------------------------------------------------------
(* Properties. *)

GovernanceTypeOK ==
    /\ lifecycle \in {"open", "completed", "cancelled"}
    /\ boundTo \in BOOLEAN
    /\ validation \in {"pending", "failed", "passed"}
    /\ document \in 0..MaxTxn
    /\ \A i \in DOMAIN requests :
         /\ requests[i].status \in {"pending", "passed", "failed", "void"}
         /\ requests[i].document \in 0..document
    /\ Cardinality(PendingAt) <= 1
    /\ recorded \subseteq Txn
    /\ lock \in [LockedRows -> Txn \cup {NoTxn}]
    /\ \A x \in Txn : calling[x] \in MayCall \cup {"none", "over"}

\* A pass is the verdict on the newest request and on the document as it is,
\* whatever calls overlap: the lock on task_state that all of them take makes
\* up for what each read before it.
PassSurvivesOverlap == validation = "passed" => Current

\* However calls overlap, what commits is what calls that are made one after the other
\* may do: what a call found under its locks is still so when it commits, and a task
\* is completed only while its last review is a pass of the document as it is.
IsReviewedTask == Serial!Spec

\* Calls that take the state before the request and the task never wait for each
\* other in a circle, as the comments of abandon and record_from_hook say: a deadlock
\* has one of the calls in it that lock the task first.
TaskFirst == {"cancel", "decide", "invalidate"}

OrderedCallsNeverDeadlock ==
    ~\E S \in SUBSET {x \in Live : calling[x] \notin TaskFirst} : WaitForEachOther(S)

\* migrations/030_protected_governance_freshness.sql:1: "Freeze material
\* routing/orchestration evidence while protected review is pending or passed".
EvidenceIsFrozen ==
    [][recorded' # recorded => validation # "passed" /\ PendingAt = {}]_governanceVars
=============================================================================
