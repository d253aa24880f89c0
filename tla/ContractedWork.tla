--------------------------- MODULE ContractedWork ---------------------------
(***************************************************************************)
(* What a hand-off promises, without worktrees, git commands, locks and    *)
(* the moments at which a call may die: work is agreed about a subject,    *)
(* taken once by one worker, brought in while the subject is as agreed and *)
(* nobody else brings anything in, and ends with one outcome.  Work that   *)
(* is lost stays lost: it is neither taken again nor brought in.           *)
(***************************************************************************)
CONSTANTS Job, Worker, Path, Limit, Nobody

VARIABLES
    stage,     \* of a job: "none", "open", "taken", "entering", "done", "failed"
    worker,    \* who is at it, or Nobody
    agreed,    \* the subject it was agreed about
    written,   \* what it has brought in that is still there
    discarded, \* the jobs whose own copy of the work is gone
    subject,   \* what the work is about, as it is now
    closed     \* whether the subject is settled, so that nothing may be brought in

vars == <<stage, worker, agreed, written, discarded, subject, closed>>

Init ==
    /\ stage = [j \in Job |-> "none"]
    /\ worker = [j \in Job |-> Nobody]
    /\ agreed = [j \in Job |-> Nobody]
    /\ written = [j \in Job |-> {}]
    /\ discarded = {}
    /\ closed = FALSE

Entering == {j \in Job : stage[j] = "entering"}

Moves(j, from, to) == stage[j] = from /\ stage' = [stage EXCEPT ![j] = to]

Open(j) ==
    /\ Moves(j, "none", "open")
    /\ agreed' = [agreed EXCEPT ![j] = subject]
    /\ UNCHANGED <<worker, written, discarded, subject, closed>>

\* Once, by a worker with no other work.
Take(w, j) ==
    /\ Moves(j, "open", "taken")
    /\ \A i \in Job : worker[i] # w
    /\ worker' = [worker EXCEPT ![j] = w]
    /\ UNCHANGED <<agreed, written, discarded, subject, closed>>

Enter(j) ==
    /\ Moves(j, "taken", "entering")
    /\ worker[j] # Nobody
    /\ Entering = {} /\ subject = agreed[j] /\ ~closed
    /\ UNCHANGED <<worker, agreed, written, discarded, subject, closed>>

Write(j) ==
    /\ stage[j] = "entering"
    /\ \E paths \in SUBSET Path : written' = [written EXCEPT ![j] = @ \cup paths]
    /\ UNCHANGED <<stage, worker, agreed, discarded, subject, closed>>

\* Bringing in is over, and has left its mark on the subject or not.
Exit(j) ==
    /\ Moves(j, "entering", "taken")
    /\ UNCHANGED <<worker, agreed, written, discarded, closed>>

Succeed(j) ==
    /\ Moves(j, "taken", "done")
    /\ worker[j] # Nobody /\ written[j] \subseteq Limit[j]
    /\ UNCHANGED <<worker, agreed, written, discarded, subject, closed>>

Fail(j) ==
    /\ Moves(j, "taken", "failed")
    /\ worker[j] # Nobody
    /\ worker' = [worker EXCEPT ![j] = Nobody]
    /\ UNCHANGED <<agreed, written, discarded, subject, closed>>

Discard(j) ==
    /\ stage[j] = "done" /\ worker[j] # Nobody
    /\ discarded' = discarded \cup {j}
    /\ worker' = [worker EXCEPT ![j] = Nobody]
    /\ UNCHANGED <<stage, agreed, written, subject, closed>>

\* The worker is gone, with or without an outcome.
Lose(j) ==
    /\ worker[j] # Nobody
    /\ worker' = [worker EXCEPT ![j] = Nobody]
    /\ stage' = [stage EXCEPT ![j] = IF @ = "entering" THEN "taken" ELSE @]
    /\ UNCHANGED <<agreed, written, discarded, subject, closed>>

\* What was brought in is taken over or thrown away.
Withdraw ==
    /\ written' = [j \in Job |-> {}]
    /\ UNCHANGED <<stage, worker, agreed, discarded, subject, closed>>

\* The subject changes, is settled or reopened, but never under one who enters.
Change ==
    /\ Entering = {}
    /\ UNCHANGED <<stage, worker, agreed, written, discarded>>

Next ==
    \/ Change \/ Withdraw
    \/ \E w \in Worker, j \in Job : Take(w, j)
    \/ \E j \in Job :
          \/ Open(j) \/ Enter(j) \/ Write(j) \/ Exit(j)
          \/ Succeed(j) \/ Fail(j) \/ Discard(j) \/ Lose(j)

Spec == Init /\ [][Next]_vars
=============================================================================
