----------------------------- MODULE UserInputs -----------------------------
(***************************************************************************)
(* What the user said, to which session, and which task it speaks for: the *)
(* ledger of host-observed inputs and its commits to tasks, the binding of *)
(* sessions to tasks, and the cancellation that needs the user's word      *)
(* (session_prompts.py, user_intent_mcp.py, task_lifecycle.py,             *)
(* session_lifecycle.py, repository.py, migrations 021, 023, 029, 032).    *)
(* Every action is a transaction; cancelling is two or three.              *)
(***************************************************************************)
EXTENDS Naturals, Sequences, SequencesExt

CONSTANTS
    UserSessions,   \* open Claude sessions of one project
    UserTasks,
    None,           \* no task, no session
    MaxInputs       \* bound: inputs the user gives

ASSUME UserAssumption == None \notin UserTasks \cup UserSessions /\ MaxInputs \in Nat

VARIABLES
    inputs,      \* user_input_observations, in the order of observed_at
    bindings,    \* sessions.task_id
    focus,       \* project_focus.task_id
    taskStatus,  \* "open" (active, waiting, blocked), "completed", "cancelled"
    instruction, \* task_state.latest_user_instruction: an input's number
    reading,     \* sessions whose cancellation has read a word not committed yet
    authorized,  \* cancellations past their authorization, per session
    replaced     \* tasks of sessions closed as provider_session_replaced

userVars == <<inputs, bindings, focus, taskStatus, instruction, reading, authorized, replaced>>

\* "cancel" stands for the texts _is_explicit_cancel_instruction accepts,
\* "control" for inspection-only prompts, which instruct nothing.
Kinds == {"cancel", "other", "control"}

UserInit ==
    /\ inputs = <<>>
    /\ bindings = [s \in UserSessions |-> None]
    /\ focus = None
    /\ taskStatus = [t \in UserTasks |-> "open"]
    /\ instruction = [t \in UserTasks |-> "none"]
    /\ reading = {}
    /\ authorized = [s \in UserSessions |-> None]
    /\ replaced = [s \in UserSessions |-> None]

InputsOf(s) == {i \in DOMAIN inputs : inputs[i].session = s}

\* stage_user_input.  The hook stamps an input before its transaction, so
\* one that is late goes before one observed after it.
Observe(s, kind) ==
    /\ Len(inputs) < MaxInputs
    /\ \E at \in {Len(inputs) + 1, Len(inputs)} \ {0} :
          inputs' = InsertAt(inputs, at, [session |-> s, kind |-> kind, task |-> None])
    /\ UNCHANGED <<bindings, focus, taskStatus, instruction, reading, authorized, replaced>>

-----------------------------------------------------------------------------
(* Binding.                                                                *)

\* bind_session: the chairman names an unfinished task.
BindSession(s, t) ==
    /\ taskStatus[t] = "open"
    /\ bindings' = [bindings EXCEPT ![s] = t]
    /\ focus' = t
    /\ UNCHANGED <<inputs, taskStatus, instruction, reading, authorized, replaced>>

\* bind_session_to_project_focus: for a session that is not bound.
BindToFocus(s) ==
    /\ bindings[s] = None
    /\ focus # None
    /\ taskStatus[focus] = "open"
    /\ bindings' = [bindings EXCEPT ![s] = focus]
    /\ UNCHANGED <<inputs, focus, taskStatus, instruction, reading, authorized, replaced>>

\* /clear: a new session in the same process, whose predecessor is closed.
ReplaceSession(s) ==
    /\ bindings[s] # None
    /\ bindings' = [bindings EXCEPT ![s] = None]
    /\ replaced' = [replaced EXCEPT ![s] = bindings[s]]
    /\ reading' = reading \ {s}
    /\ authorized' = [authorized EXCEPT ![s] = None]
    /\ inputs' = [i \in DOMAIN inputs |->
                    IF inputs[i].session = s THEN [inputs[i] EXCEPT !.session = None] ELSE inputs[i]]
    /\ UNCHANGED <<focus, taskStatus, instruction>>

\* inherit_replaced_session_task, before the focus is looked at.
Inherit(s) ==
    /\ bindings[s] = None
    /\ replaced[s] # None
    /\ taskStatus[replaced[s]] = "open"
    /\ bindings' = [bindings EXCEPT ![s] = replaced[s]]
    /\ UNCHANGED <<inputs, focus, taskStatus, instruction, reading, authorized, replaced>>

-----------------------------------------------------------------------------
(* Commits.                                                                *)

\* commit_user_inputs: every input of the session not committed yet goes to
\* the task the session is bound to now.
\* Mutant of Pending: what was committed before is committed again.
PendingAgain(s) == InputsOf(s)

Pending(s) == {i \in InputsOf(s) : inputs[i].task = None}

Committed(s, t) ==
    [i \in DOMAIN inputs |-> IF i \in Pending(s) THEN [inputs[i] EXCEPT !.task = t] ELSE inputs[i]]

Instructions(S) == {i \in S : inputs[i].kind # "control"}
IsLatest(i, S) == i \in S /\ \A j \in S : j <= i
Latest(S) == CHOOSE i \in S : IsLatest(i, S)

Instructed(s, t) ==
    IF Instructions(Pending(s)) = {} THEN instruction
    ELSE [instruction EXCEPT ![t] = inputs[Latest(Instructions(Pending(s)))].kind]

CommitAllowed(s, t) == bindings[s] = t /\ taskStatus[t] = "open"

Commit(s, t) ==
    /\ CommitAllowed(s, t)
    /\ Pending(s) # {}
    /\ inputs' = Committed(s, t)
    /\ instruction' = Instructed(s, t)
    /\ UNCHANGED <<bindings, focus, taskStatus, reading, authorized, replaced>>

-----------------------------------------------------------------------------
(* Status.                                                                 *)

\* _authorize_cancel_instruction reads the latest instruction in one transaction
\* and, if it is not committed, commits what is pending by then in another.
LatestCancels(s, task) ==
    \E i \in Instructions(InputsOf(s)) :
        /\ IsLatest(i, Instructions(InputsOf(s)))
        /\ inputs[i].kind = "cancel"
        /\ inputs[i].task = task

AuthorizeCommitted(s, t) ==
    /\ LatestCancels(s, t)
    /\ authorized' = [authorized EXCEPT ![s] = t]
    /\ UNCHANGED <<inputs, bindings, focus, taskStatus, instruction, reading, replaced>>

ReadStaged(s) ==
    /\ LatestCancels(s, None)
    /\ reading' = reading \cup {s}
    /\ UNCHANGED <<inputs, bindings, focus, taskStatus, instruction, authorized, replaced>>

AuthorizeStaged(s, t) ==
    /\ s \in reading
    /\ CommitAllowed(s, t)
    /\ \E i \in Pending(s) : inputs[i].kind = "cancel"
    /\ inputs' = Committed(s, t)
    /\ instruction' = Instructed(s, t)
    /\ reading' = reading \ {s}
    /\ authorized' = [authorized EXCEPT ![s] = t]
    /\ UNCHANGED <<bindings, focus, taskStatus, replaced>>

\* The transition of its own: the task unfinished, the session bound to it.
Unbound(t) == [s \in UserSessions |-> IF bindings[s] = t THEN None ELSE bindings[s]]

\* Mutant of MayCancel: the instruction may have been about another task.
MayCancelAnother(s, t) == authorized[s] # None /\ taskStatus[t] = "open" /\ bindings[s] = t

MayCancel(s, t) == authorized[s] = t /\ taskStatus[t] = "open" /\ bindings[s] = t

Cancel(s, t) ==
    /\ MayCancel(s, t)
    /\ taskStatus' = [taskStatus EXCEPT ![t] = "cancelled"]
    /\ bindings' = Unbound(t)
    /\ focus' = IF focus = t THEN None ELSE focus
    /\ authorized' = [authorized EXCEPT ![s] = None]
    /\ UNCHANGED <<inputs, instruction, reading, replaced>>

\* The call gives up, or the transition refuses.
CancelFails(s) ==
    /\ authorized[s] # None \/ s \in reading
    /\ reading' = reading \ {s}
    /\ authorized' = [authorized EXCEPT ![s] = None]
    /\ UNCHANGED <<inputs, bindings, focus, taskStatus, instruction, replaced>>

\* Parking, blocking and resuming keep a task open and move the focus to it.
ParkOrResume(s, t) ==
    /\ taskStatus[t] = "open"
    /\ bindings[s] = t
    /\ focus' = t
    /\ UNCHANGED <<inputs, bindings, taskStatus, instruction, reading, authorized, replaced>>

\* The trigger of migration 021 releases the sessions of a completed task.
Complete(t) ==
    /\ taskStatus[t] = "open"
    /\ taskStatus' = [taskStatus EXCEPT ![t] = "completed"]
    /\ bindings' = Unbound(t)
    /\ focus' = IF focus = t THEN None ELSE focus
    /\ UNCHANGED <<inputs, instruction, reading, authorized, replaced>>

UserNext ==
    \/ \E s \in UserSessions, kind \in Kinds : Observe(s, kind)
    \/ \E s \in UserSessions : BindToFocus(s) \/ ReplaceSession(s) \/ Inherit(s)
    \/ \E s \in UserSessions : ReadStaged(s) \/ CancelFails(s)
    \/ \E s \in UserSessions, t \in UserTasks :
          \/ BindSession(s, t) \/ Commit(s, t) \/ ParkOrResume(s, t)
          \/ AuthorizeCommitted(s, t) \/ AuthorizeStaged(s, t) \/ Cancel(s, t)
    \/ \E t \in UserTasks : Complete(t)

UserSpec == UserInit /\ [][UserNext]_userVars

-----------------------------------------------------------------------------
(* Properties.                                                             *)

UserTypeOK ==
    /\ inputs \in Seq([session : UserSessions \cup {None}, kind : Kinds,
                       task : UserTasks \cup {None}])
    /\ bindings \in [UserSessions -> UserTasks \cup {None}]
    /\ focus \in UserTasks \cup {None}
    /\ taskStatus \in [UserTasks -> {"open", "completed", "cancelled"}]
    /\ instruction \in [UserTasks -> Kinds \cup {"none"}]
    /\ reading \subseteq UserSessions
    /\ authorized \in [UserSessions -> UserTasks \cup {None}]
    /\ replaced \in [UserSessions -> UserTasks \cup {None}]

\* A cancelled task has the user's own explicit word, committed to that very
\* task: however the chairman rebinds sessions, however prompts and commits
\* race, one cancel instruction cancels at most one task, and never another.
CancelledWasAsked ==
    \A t \in UserTasks : taskStatus[t] = "cancelled" =>
        \E i \in DOMAIN inputs : inputs[i].kind = "cancel" /\ inputs[i].task = t

\* the inputs of seq that speak for t
Said(seq, t) == {i \in DOMAIN seq : seq[i].task = t}

\* What the user said about a task is not moved elsewhere, taken back or
\* added to after the task's end.
InputsStayWithTheirTask ==
    [][\A t \in UserTasks :
         IF taskStatus[t] = "open"
         THEN Cardinality(Said(inputs', t)) >= Cardinality(Said(inputs, t))
         ELSE Cardinality(Said(inputs', t)) = Cardinality(Said(inputs, t))]_userVars
=============================================================================
