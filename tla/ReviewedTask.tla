---------------------------- MODULE ReviewedTask ----------------------------
(***************************************************************************)
(* What the review of a task promises, as if its calls were made one after *)
(* the other: the document changes, a review of it is asked for, judged,   *)
(* dropped or reopened, and the task is completed only while the last      *)
(* review is a pass of the document as it is.  There are no transactions   *)
(* here, no rows and no locks; every action has its whole guard and its    *)
(* whole effect at once.                                                   *)
(***************************************************************************)
EXTENDS Naturals

VARIABLES
    stage,  \* of the task: "open", "completed" or "cancelled"
    passed, \* what is said of the task: "pending", "failed" or "passed"
    text,   \* the document, a number
    review  \* the last review: its outcome and the text it is about

vars == <<stage, passed, text, review>>

NoReview == [status |-> "none", document |-> 0]

Init ==
    /\ stage = "open" /\ passed = "pending" /\ text = 0
    /\ review \in {NoReview, [status |-> "pending", document |-> 0]}

Write ==
    /\ passed # "passed"
    /\ stage = "open" \/ review.status # "pending"
    /\ text' = text + 1 /\ passed' = "pending"
    /\ UNCHANGED <<stage, review>>

Ask ==
    /\ passed # "passed"
    /\ passed' = "pending"
    /\ review' = [status |-> "pending", document |-> text]
    /\ UNCHANGED <<stage, text>>

Judge(outcome) ==
    /\ review = [status |-> "pending", document |-> text]
    /\ passed' = outcome
    /\ review' = [status |-> outcome, document |-> text]
    /\ UNCHANGED <<stage, text>>

Void == review.status = "pending" /\ review' = [status |-> "void", document |-> review.document]

Drop ==
    /\ stage = "open" /\ Void
    /\ UNCHANGED <<stage, passed, text>>

Reopen ==
    /\ stage = "open" /\ passed = "passed"
    /\ passed' = "pending"
    /\ UNCHANGED <<stage, text, review>>

\* A review that is asked for while the task is cancelled may stay behind.
Cancel ==
    /\ stage = "open" /\ passed # "passed"
    /\ stage' = "cancelled" /\ passed' = "pending"
    /\ Void \/ review' = review
    /\ UNCHANGED text

Complete ==
    /\ passed = "passed" /\ review = [status |-> "passed", document |-> text]
    /\ stage' = "completed"
    /\ UNCHANGED <<passed, text, review>>

Next ==
    \/ Write \/ Ask \/ Drop \/ Reopen \/ Cancel \/ Complete
    \/ \E outcome \in {"passed", "failed"} : Judge(outcome)

Spec == Init /\ [][Next]_vars
=============================================================================
