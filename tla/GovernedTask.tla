---------------------------- MODULE GovernedTask ----------------------------
(***************************************************************************)
(* One governed task from its first checkpoint to its end: the state       *)
(* document the chairman keeps, the routing requests an arbiter decides,   *)
(* the orchestration evidence, the protected reviews a validator answers,  *)
(* and the calls that complete, park or cancel the task.                   *)
(*                                                                         *)
(* Source: repository.py, task_decisions.py, routing.py,                   *)
(* deterministic_routing.py, routing_rejection.py, routing_completion.py,  *)
(* validation.py, validation_audit.py, validation_lifecycle.py,            *)
(* task_lifecycle.py and the triggers of migrations 027, 028, 030 and 036. *)
(* A database transaction is one action; a call made of several            *)
(* transactions is several actions.  Arbiters and validators answer when   *)
(* they like, in any order, or never.                                      *)
(***************************************************************************)
EXTENDS Integers, Sequences

CONSTANTS
    Content,      \* values of the digested state document (STATE_FIELDS)
    Files,        \* values of the reviewed files
    Discovery,    \* capability discoveries that may be recorded
    Gap,          \* those with a capability nobody owns
    Team,         \* expert selections (roles, lead, tiers)
    OpusTeam,     \* those with an Opus worker
    MaxRoutes,    \* bound on routing requests
    MaxReviews,   \* bound on validation requests
    None

ASSUME ConstantsAssumption ==
    /\ Gap \subseteq Discovery
    /\ OpusTeam \subseteq Team
    /\ None \notin Discovery \cup Team
    /\ MaxRoutes \in Nat /\ MaxReviews \in Nat

VARIABLES
    task,       \* tasks.status: open (active, waiting_user, blocked), completed, cancelled
    vstatus,    \* task_state.validation_status
    content,    \* the fields of task_state that state_digest covers
    files,      \* the reviewed files on disk
    routes,     \* routing_requests, in the order of their ids
    reviews,    \* validation_requests, in the order of their ids
    discovered, \* ORCHESTRATION_DISCOVERY events
    plan,       \* the newest ORCHESTRATION_PLAN
    reported,   \* the newest plan has its expert reports
    observed,   \* and observed worker runs for its whole team
    final,      \* the newest ORCHESTRATION_FINAL
    fresh,      \* the newest pass is newer than all material evidence
    checked     \* a completion call has had its assert_current

documentVars == <<content, files>>
evidenceVars == <<discovered, plan, reported, observed, final>>
vars == <<task, vstatus, documentVars, routes, reviews, evidenceVars, fresh, checked>>

Route ==
    [status : {"pending", "routed", "blocked", "rejected"}, digest : Content,
     discovery : Discovery, hard : BOOLEAN,
     assurance : {"routine", "protected", None}, team : Team \cup {None}]

\* A request that was superseded, rejected or found stale is void.
Review ==
    [status : {"pending", "passed", "failed", "void"}, digest : Content, manifest : Files]

TypeOK ==
    /\ task \in {"open", "completed", "cancelled"}
    /\ vstatus \in {"pending", "passed", "failed", "not_required"}
    /\ content \in Content
    /\ files \in Files
    /\ routes \in Seq(Route) /\ Len(routes) <= MaxRoutes
    /\ reviews \in Seq(Review) /\ Len(reviews) <= MaxReviews
    /\ discovered \in SUBSET Discovery
    /\ plan \in [discovery : Discovery \cup {None}, team : Team \cup {None}]
    /\ reported \in BOOLEAN
    /\ observed \in BOOLEAN
    /\ final \in [recorded : BOOLEAN, ready : BOOLEAN, current : BOOLEAN]
    /\ fresh \in BOOLEAN
    /\ checked \in BOOLEAN

Init ==
    /\ task = "open"
    /\ vstatus = "pending"
    /\ content \in Content
    /\ files \in Files
    /\ routes = <<>>
    /\ reviews = <<>>
    /\ discovered = {}
    /\ plan = [discovery |-> None, team |-> None]
    /\ reported = FALSE
    /\ observed = FALSE
    /\ final = [recorded |-> FALSE, ready |-> FALSE, current |-> FALSE]
    /\ fresh = FALSE
    /\ checked = FALSE

----------------------------------------------------------------------------
(* What the calls and the triggers look up. *)

TaskOpen == task = "open"

PendingReviews == {i \in DOMAIN reviews : reviews[i].status = "pending"}

\* supersede_pending_validation_requests, a trigger on every new request, and
\* the same update of a status transition.
Superseded(rs) ==
    [i \in DOMAIN rs |-> IF rs[i].status = "pending" THEN [rs[i] EXCEPT !.status = "void"] ELSE rs[i]]

\* Mutant of MaterialAllowed: only a pending review freezes the evidence.
MaterialUnlessPending == PendingReviews = {}

\* assert_governance_mutation_allowed
MaterialAllowed == vstatus # "passed" /\ PendingReviews = {}

\* protect_passed_validation_state: a passed review stays, and so does what it
\* covers, unless it is invalidated explicitly.
PassProtected(newStatus, newContent) ==
    vstatus = "passed" => newStatus = "passed" /\ newContent = content

Routed(rs) == {i \in DOMAIN rs : rs[i].status = "routed"}

\* ORDER BY id DESC LIMIT 1: the request with the largest id, if any.
Newest(S) == {i \in S : \A j \in S : j <= i}

IsProtected(route) ==
    route.hard \/ route.assurance = "protected" \/ route.team \in OpusTeam

\* Mutant of WaiverAllowed: any routed request will do.
SomeRoutine(rs) == \E i \in Routed(rs) : ~IsProtected(rs[i])

\* protect_routine_validation_status: not_required is for a routine route.
WaiverAllowed(rs) == \E i \in Newest(Routed(rs)) : ~IsProtected(rs[i])

\* A routed request that was protected, whatever its place in the sequence.
PriorProtected ==
    \E i \in Routed(routes) : routes[i].hard \/ routes[i].assurance = "protected"

\* _validate_report and the check against earlier routes.
DecisionAllowed(discovery, hard, assurance, team) ==
    /\ discovery \notin Gap
    /\ hard \/ team \in OpusTeam => assurance = "protected"
    /\ PriorProtected => assurance = "protected"

\* Mutant of StatusOfAssurance: the assurance itself is stored.
AssuranceItself(assurance) == assurance

StatusOfAssurance(assurance) ==
    IF assurance = "protected" THEN "pending" ELSE "not_required"

\* Any evidence the completion trigger compares with the newest pass.
Material == TaskOpen /\ MaterialAllowed /\ fresh' = FALSE

----------------------------------------------------------------------------
(* The state document and the files. *)

\* update_state: any fields, with or without an explicit pending or failed.
\* It does not look at the task's status.  The checkpoint that follows in the
\* same call writes what this has written.
UpdateState(c, v) ==
    /\ PendingReviews # {} => c = content
    /\ vstatus' = IF v # None THEN v ELSE IF c # content THEN "pending" ELSE vstatus
    /\ PassProtected(vstatus', c)
    /\ content' = c
    /\ UNCHANGED <<task, files, routes, reviews, evidenceVars, fresh, checked>>

\* task_decision_record, _supersede and _retire project the active decisions
\* into the state document.
ProjectDecisions(c) ==
    /\ TaskOpen
    /\ PassProtected("pending", c)
    /\ vstatus' = "pending"
    /\ content' = c
    /\ UNCHANGED <<task, files, routes, reviews, evidenceVars, fresh, checked>>

EditFiles(f) ==
    /\ f # files
    /\ files' = f
    /\ UNCHANGED <<task, vstatus, content, routes, reviews, evidenceVars, fresh, checked>>

----------------------------------------------------------------------------
(* Routing. *)

RoutingPrepare(e, hard) ==
    /\ TaskOpen /\ MaterialAllowed
    /\ e \in discovered
    /\ Len(routes) < MaxRoutes
    /\ routes' = Append(routes, [status |-> "pending", digest |-> content, discovery |-> e,
                                 hard |-> hard, assurance |-> None, team |-> None])
    /\ UNCHANGED <<task, vstatus, documentVars, reviews, evidenceVars, fresh, checked>>

\* The arbiter routes the request.
RecordRoute(i, assurance, team) ==
    /\ routes[i].status = "pending"
    /\ content = routes[i].digest
    /\ DecisionAllowed(routes[i].discovery, routes[i].hard, assurance, team)
    /\ Material
    /\ routes' = [routes EXCEPT ![i].status = "routed", ![i].assurance = assurance,
                                ![i].team = team]
    /\ vstatus' = StatusOfAssurance(assurance)
    /\ vstatus' = "not_required" /\ vstatus # "not_required" => WaiverAllowed(routes')
    /\ UNCHANGED <<task, documentVars, reviews, evidenceVars, checked>>

\* The arbiter finds a gap that has to be filled first.
RecordBlocked(i) ==
    /\ routes[i].status = "pending"
    /\ content = routes[i].digest
    /\ routes[i].discovery \in Gap
    /\ Material
    /\ routes' = [routes EXCEPT ![i].status = "blocked"]
    /\ UNCHANGED <<task, vstatus, documentVars, reviews, evidenceVars, checked>>

\* record_stale_routing_rejection, open to any task and any time.
RejectStaleRoute(i) ==
    /\ routes[i].status = "pending"
    /\ content # routes[i].digest
    /\ routes' = [routes EXCEPT ![i].status = "rejected"]
    /\ UNCHANGED <<task, vstatus, documentVars, reviews, evidenceVars, fresh, checked>>

\* try_deterministic_route: a single owner, all Sonnet, decided at once.
DeterministicRoute(e, hard, team) ==
    LET assurance == IF hard \/ PriorProtected THEN "protected" ELSE "routine" IN
    /\ e \in discovered \ Gap
    /\ team \notin OpusTeam
    /\ Len(routes) < MaxRoutes
    /\ Material
    /\ routes' = Append(routes, [status |-> "routed", digest |-> content, discovery |-> e,
                                 hard |-> hard, assurance |-> assurance, team |-> team])
    /\ vstatus' = StatusOfAssurance(assurance)
    /\ UNCHANGED <<task, documentVars, reviews, evidenceVars, checked>>

----------------------------------------------------------------------------
(* Orchestration evidence, as far as review and completion see it. *)

Discover(e) ==
    /\ Material
    /\ discovered' = discovered \cup {e}
    /\ UNCHANGED <<task, vstatus, documentVars, routes, reviews, plan, reported, observed, final, checked>>

\* The newest route of a discovery, if there is one, selects this team.
RoutesOf(e) == {i \in Routed(routes) : routes[i].discovery = e}

MatchesRoute(e, team) == \A i \in Newest(RoutesOf(e)) : team = routes[i].team

RecordPlan(e, team) ==
    /\ Material
    /\ e \in discovered \ Gap
    /\ MatchesRoute(e, team)
    /\ plan' = [discovery |-> e, team |-> team]
    /\ reported' = FALSE
    /\ observed' = FALSE
    /\ final' = [final EXCEPT !.current = FALSE]
    /\ UNCHANGED <<task, vstatus, documentVars, routes, reviews, discovered, checked>>

RecordReport ==
    /\ Material
    /\ plan.team # None
    /\ reported' = TRUE
    /\ UNCHANGED <<task, vstatus, documentVars, routes, reviews, discovered, plan, observed, final, checked>>

RecordWorkerRun ==
    /\ Material
    /\ reported
    /\ RoutesOf(plan.discovery) # {} /\ MatchesRoute(plan.discovery, plan.team)
    /\ observed' = TRUE
    /\ UNCHANGED <<task, vstatus, documentVars, routes, reviews, discovered, plan, reported, final, checked>>

Finalize(ready) ==
    /\ Material
    /\ reported
    /\ final' = [recorded |-> TRUE, ready |-> ready, current |-> TRUE]
    /\ UNCHANGED <<task, vstatus, documentVars, routes, reviews, discovered, plan, reported, observed, checked>>

----------------------------------------------------------------------------
(* Protected review. *)

\* prepare: a routed task needs a decision-ready final, of whatever plan.  The
\* files are hashed before the transaction begins and may have been edited
\* since, so the manifest is of any files.
ValidationPrepare(manifest) ==
    /\ TaskOpen
    /\ Routed(routes) # {} => final.recorded /\ final.ready
    /\ PassProtected("pending", content)
    /\ Len(reviews) < MaxReviews
    /\ vstatus' = "pending"
    /\ reviews' = Append(Superseded(reviews),
                         [status |-> "pending", digest |-> content, manifest |-> manifest])
    /\ UNCHANGED <<task, documentVars, routes, evidenceVars, fresh, checked>>

\* Mutant of VerdictFits: the state document is not compared again.
FilesFit(i) == files = reviews[i].manifest

\* What is reviewed is what was frozen.
VerdictFits(i) == content = reviews[i].digest /\ files = reviews[i].manifest

\* Mutant of ValidatorBound: a completion leaves the session bound.
BoundUnlessCancelled == task # "cancelled"

\* The validator's session is bound to the task, until its completion
\* (release_completed_task_sessions) or its cancellation ends the binding.
ValidatorBound == TaskOpen

\* record_from_hook
RecordVerdict(i, outcome) ==
    /\ ValidatorBound
    /\ reviews[i].status = "pending"
    /\ VerdictFits(i)
    /\ PassProtected(outcome, content)
    /\ reviews' = [reviews EXCEPT ![i].status = outcome]
    /\ vstatus' = outcome
    /\ fresh' = (fresh \/ outcome = "passed")
    /\ UNCHANGED <<task, documentVars, routes, evidenceVars, checked>>

\* record_validation_ingestion_attempt: the report was malformed, from another
\* model, stale, or refused by a trigger.
RejectVerdict(i) ==
    /\ reviews[i].status = "pending"
    /\ reviews' = [reviews EXCEPT ![i].status = "void"]
    /\ UNCHANGED <<task, vstatus, documentVars, routes, evidenceVars, fresh, checked>>

ValidationAbandon(i) ==
    /\ TaskOpen
    /\ reviews[i].status = "pending"
    /\ reviews' = [reviews EXCEPT ![i].status = "void"]
    /\ UNCHANGED <<task, vstatus, documentVars, routes, evidenceVars, fresh, checked>>

ValidationInvalidate ==
    /\ TaskOpen
    /\ vstatus = "passed"
    /\ vstatus' = "pending"
    /\ UNCHANGED <<task, documentVars, routes, reviews, evidenceVars, fresh, checked>>

----------------------------------------------------------------------------
(* The end of the task. *)

\* Mutant of TransitionTask: the review survives the transition.
TransitionKeepsReview(target) ==
    /\ TaskOpen
    /\ task' = target
    /\ reviews' = Superseded(reviews)
    /\ UNCHANGED <<vstatus, documentVars, routes, evidenceVars, fresh, checked>>

\* transition_task_status to another open status or to cancelled.
TransitionTask(target) ==
    /\ TaskOpen
    /\ PassProtected("pending", content)
    /\ task' = target
    /\ vstatus' = "pending"
    /\ reviews' = Superseded(reviews)
    /\ UNCHANGED <<documentVars, routes, evidenceVars, fresh, checked>>

\* enforce_routed_task_completion, up to the assurance.
EvidenceComplete ==
    \A i \in Newest(Routed(routes)) :
        /\ plan.team # None /\ final.recorded
        /\ final.current /\ final.ready
        /\ plan.discovery = routes[i].discovery /\ plan.team = routes[i].team
        /\ observed

\* assert_current, the first transaction of a protected completion: the
\* request with the largest id decides.
AssertCurrent ==
    /\ ~checked
    /\ reviews # <<>>
    /\ LET newest == Len(reviews) IN
        /\ reviews[newest].status = "passed"
        /\ vstatus = "passed"
        /\ VerdictFits(newest)
    /\ checked' = TRUE
    /\ UNCHANGED <<task, vstatus, documentVars, routes, reviews, evidenceVars, fresh>>

\* complete_task and the triggers it fires; completing twice changes nothing.
CompleteTask ==
    /\ checked
    /\ vstatus = "passed"
    /\ task # "completed" =>
        /\ EvidenceComplete
        /\ Routed(routes) # {} => fresh
    /\ task' = "completed"
    /\ checked' = FALSE
    /\ UNCHANGED <<vstatus, documentVars, routes, reviews, evidenceVars, fresh>>

\* The completion call stops after its check, or the second transaction refuses.
CompletionDropped ==
    /\ checked
    /\ checked' = FALSE
    /\ UNCHANGED <<task, vstatus, documentVars, routes, reviews, evidenceVars, fresh>>

\* The first transaction of a routine completion.
WaiveReview ==
    /\ TaskOpen
    /\ WaiverAllowed(routes)
    /\ vstatus # "passed"
    /\ vstatus' = "not_required"
    /\ UNCHANGED <<task, documentVars, routes, reviews, evidenceVars, fresh, checked>>

\* Its last.
CompleteRoutine ==
    /\ TaskOpen
    /\ vstatus = "not_required"
    /\ WaiverAllowed(routes)
    /\ EvidenceComplete
    /\ task' = "completed"
    /\ UNCHANGED <<vstatus, documentVars, routes, reviews, evidenceVars, fresh, checked>>

Chairman ==
    \/ \E c \in Content, v \in {None, "pending", "failed"} : UpdateState(c, v)
    \/ \E c \in Content : ProjectDecisions(c)
    \/ \E e \in Discovery :
        \/ Discover(e)
        \/ \E hard \in BOOLEAN : \/ RoutingPrepare(e, hard)
                                 \/ \E team \in Team : DeterministicRoute(e, hard, team)
        \/ \E team \in Team : RecordPlan(e, team)
    \/ RecordReport \/ \E ready \in BOOLEAN : Finalize(ready)
    \/ \E manifest \in Files : ValidationPrepare(manifest)
    \/ ValidationInvalidate
    \/ \E i \in DOMAIN reviews : ValidationAbandon(i)
    \/ \E target \in {"open", "cancelled"} : TransitionTask(target)
    \/ AssertCurrent \/ CompleteTask \/ CompletionDropped
    \/ WaiveReview \/ CompleteRoutine

Hooks ==
    \/ \E i \in DOMAIN routes :
        \/ \E assurance \in {"routine", "protected"}, team \in Team : RecordRoute(i, assurance, team)
        \/ RecordBlocked(i) \/ RejectStaleRoute(i)
    \/ RecordWorkerRun
    \/ \E i \in DOMAIN reviews :
        \/ \E outcome \in {"passed", "failed"} : RecordVerdict(i, outcome)
        \/ RejectVerdict(i)

Next == Chairman \/ Hooks \/ \E f \in Files : EditFiles(f)

Spec == Init /\ [][Next]_vars

----------------------------------------------------------------------------
(* Properties. *)

NewestReviewPassed ==
    /\ reviews # <<>>
    /\ reviews[Len(reviews)].status = "passed" /\ reviews[Len(reviews)].digest = content

\* As long as a task counts as passed, its state document is the one the newest
\* review passed, and no material evidence is newer than that pass: no
\* checkpoint, decision, route, plan, report, worker run or older review gets
\* past the triggers.
PassedIsCurrent == vstatus = "passed" => fresh /\ NewestReviewPassed

\* Only the newest review can still be answered: preparing another one, or
\* leaving the status it was prepared under, takes the older ones away.
PendingIsNewest == PendingReviews \subseteq {Len(reviews)}

\* Review is waived only under a route that needs none, whatever the order in
\* which arbiters answer and requests are decided.
WaiverIsRoutine ==
    vstatus = "not_required" => \E i \in Newest(Routed(routes)) : ~IsProtected(routes[i])

\* A cancelled task leaves nothing behind that could still pass it: no pending
\* review, no passed status, no waiver.
CancelledIsQuiet ==
    task = "cancelled" => PendingReviews = {} /\ vstatus \in {"pending", "failed"}

\* What every reachable state satisfies: kept by each step from any state that
\* satisfies it.
InductiveInvariant ==
    TypeOK /\ PassedIsCurrent /\ PendingIsNewest /\ WaiverIsRoutine /\ CancelledIsQuiet

\* A task completes either under a pass of the very state it completes with and
\* with no evidence newer than the pass, or under a waiver with the plan of the
\* route that allows it.  The call that asserted this did so in an earlier
\* transaction, and what happened in between must not matter.
CompletionIsEarned ==
    [][task # "completed" /\ task' = "completed" =>
          \/ vstatus = "passed" /\ fresh /\ NewestReviewPassed /\ content' = content
          \/ /\ vstatus = "not_required"
             /\ \E i \in Newest(Routed(routes)) :
                   ~IsProtected(routes[i]) /\ plan = [discovery |-> routes[i].discovery, team |-> routes[i].team]]_vars

\* The end of a task is the end of its review: what was completed under a pass
\* stays as it was reviewed, later checkpoints, decisions, verdicts, routes and
\* reports being refused, and what ended without one never gets it.
CompletedPassStands ==
    [][task # "open" =>
          /\ vstatus' = "passed" <=> vstatus = "passed"
          /\ vstatus = "passed" =>
                /\ content' = content /\ evidenceVars' = evidenceVars
                /\ Routed(routes') = Routed(routes)]_vars

\* No task leaves completed or cancelled, not even through complete_task, which
\* does not look at the task's status.
TerminalStands == [][task # "open" => task' = task]_vars

----------------------------------------------------------------------------
(* What the repository says and the code does not do. *)

\* tests/integration/test_routing_governor.py: "a routine route whose only
\* validation attempt failed must not complete".
FailedReviewBlocksCompletion ==
    [][task # "completed" /\ task' = "completed" =>
          ~(Len(reviews) = 1 /\ reviews[1].status = "failed")]_vars
=============================================================================
