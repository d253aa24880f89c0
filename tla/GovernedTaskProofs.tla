------------------------- MODULE GovernedTaskProofs -------------------------
(***************************************************************************)
(* Proofs, for every value of the constants, of the properties of          *)
(* GovernedTask.                                                           *)
(***************************************************************************)
EXTENDS GovernedTask, TLAPS

----------------------------------------------------------------------------
(* Type correctness. *)

LEMMA InitTyped == Init => TypeOK
<1> SUFFICES ASSUME Init PROVE TypeOK
  OBVIOUS
<1> USE DEF Init
<1>1. /\ routes \in Seq(Route) /\ Len(routes) <= MaxRoutes
      /\ reviews \in Seq(Review) /\ Len(reviews) <= MaxReviews
  <2>1. routes = <<>> /\ reviews = <<>> /\ Len(<<>>) = 0
    OBVIOUS
  <2> QED
    BY <2>1, ConstantsAssumption
<1>2. plan \in [discovery : Discovery \cup {None}, team : Team \cup {None}]
  OBVIOUS
<1>3. final \in [recorded : BOOLEAN, ready : BOOLEAN, current : BOOLEAN]
  OBVIOUS
<1> QED
  BY <1>1, <1>2, <1>3 DEF TypeOK

LEMMA SupersededType ==
  ASSUME NEW rs \in Seq(Review)
  PROVE  /\ Superseded(rs) \in Seq(Review)
         /\ Len(Superseded(rs)) = Len(rs)
         /\ DOMAIN Superseded(rs) = DOMAIN rs
<1>1. ASSUME NEW i \in 1..Len(rs)
      PROVE  rs[i] \in Review /\ [rs[i] EXCEPT !.status = "void"] \in Review
  <2>1. rs[i] \in Review
    OBVIOUS
  <2> QED
    BY <2>1 DEF Review
<1>2. Superseded(rs) \in [1..Len(rs) -> Review]
  BY <1>1 DEF Superseded
<1>3. Superseded(rs) \in Seq(Review)
  BY <1>2
<1> QED
  BY <1>2, <1>3

LEMMA RouteType ==
  ASSUME TypeOK, NEW i \in DOMAIN routes, NEW s \in {"pending", "routed", "blocked", "rejected"}
  PROVE  /\ [routes EXCEPT ![i].status = s] \in Seq(Route)
         /\ Len([routes EXCEPT ![i].status = s]) = Len(routes)
<1> DEFINE r == [routes[i] EXCEPT !.status = s]
<1>1. routes \in Seq(Route) /\ routes[i] \in Route
  BY DEF TypeOK
<1>2. r \in Route
  BY <1>1 DEF Route
<1>3. [routes EXCEPT ![i] = r] \in Seq(Route) /\ Len([routes EXCEPT ![i] = r]) = Len(routes)
  <2> HIDE DEF r
  <2> QED BY <1>1, <1>2
<1> QED
  BY <1>3

LEMMA DecisionType ==
  ASSUME TypeOK, NEW i \in DOMAIN routes, NEW assurance \in {"routine", "protected"}, NEW team \in Team,
         routes' = [routes EXCEPT ![i].status = "routed", ![i].assurance = assurance, ![i].team = team]
  PROVE  routes' \in Seq(Route) /\ Len(routes') = Len(routes)
<1> DEFINE r == [routes[i] EXCEPT !.status = "routed", !.assurance = assurance, !.team = team]
<1>1. routes \in Seq(Route) /\ routes[i] \in Route
  BY DEF TypeOK
<1>2. r \in Route
  BY <1>1 DEF Route
<1>3. [routes EXCEPT ![i] = r] \in Seq(Route) /\ Len([routes EXCEPT ![i] = r]) = Len(routes)
  <2> HIDE DEF r
  <2> QED BY <1>1, <1>2
<1>4. routes' = [routes EXCEPT ![i] = r]
  BY <1>1
<1> HIDE DEF r
<1> QED
  BY <1>3, <1>4

LEMMA ReviewType ==
  ASSUME TypeOK, NEW i \in DOMAIN reviews, NEW s \in {"pending", "passed", "failed", "void"}
  PROVE  /\ [reviews EXCEPT ![i].status = s] \in Seq(Review)
         /\ Len([reviews EXCEPT ![i].status = s]) = Len(reviews)
<1> DEFINE r1 == [reviews[i] EXCEPT !.status = s]
<1>1. reviews \in Seq(Review) /\ reviews[i] \in Review
  BY DEF TypeOK
<1>2. r1 \in Review
  BY <1>1 DEF Review
<1>3. [reviews EXCEPT ![i] = r1] \in Seq(Review) /\ Len([reviews EXCEPT ![i] = r1]) = Len(reviews)
  <2> HIDE DEF r1
  <2> QED BY <1>1, <1>2
<1> QED
  BY <1>3

LEMMA StepTyped == TypeOK /\ [Next]_vars => TypeOK'
<1> SUFFICES ASSUME TypeOK, [Next]_vars PROVE TypeOK'
  OBVIOUS
<1> USE DEF TypeOK, documentVars, evidenceVars
<1>1. ASSUME NEW c \in Content, NEW v \in {None, "pending", "failed"}, UpdateState(c, v) PROVE TypeOK'
  BY <1>1 DEF UpdateState
<1>2. ASSUME NEW c \in Content, ProjectDecisions(c) PROVE TypeOK'
  BY <1>2 DEF ProjectDecisions
<1>3. ASSUME NEW f \in Files, EditFiles(f) PROVE TypeOK'
  BY <1>3 DEF EditFiles
<1>4. ASSUME NEW e \in Discovery, NEW hard \in BOOLEAN, RoutingPrepare(e, hard) PROVE TypeOK'
  <2> DEFINE r == [status |-> "pending", digest |-> content, discovery |-> e, hard |-> hard,
                   assurance |-> None, team |-> None]
  <2>1. r \in Route
    BY DEF Route
  <2>2. /\ Len(routes) < MaxRoutes /\ routes' = Append(routes, r)
        /\ UNCHANGED <<task, vstatus, documentVars, reviews, evidenceVars, fresh, checked>>
    BY <1>4 DEF RoutingPrepare
  <2> HIDE DEF r
  <2>3. routes' \in Seq(Route) /\ Len(routes') <= MaxRoutes
    BY <2>1, <2>2, ConstantsAssumption
  <2> QED
    BY <2>2, <2>3
<1>5. ASSUME NEW e \in Discovery, NEW hard \in BOOLEAN, NEW team \in Team,
             DeterministicRoute(e, hard, team)
      PROVE  TypeOK'
  <2> DEFINE assurance == IF hard \/ PriorProtected THEN "protected" ELSE "routine"
             r == [status |-> "routed", digest |-> content, discovery |-> e, hard |-> hard,
                   assurance |-> assurance, team |-> team]
  <2>0. assurance \in {"routine", "protected", None}
    OBVIOUS
  <2>1. r \in Route
    <3> HIDE DEF assurance
    <3> QED BY <2>0 DEF Route
  <2>2. /\ Len(routes) < MaxRoutes /\ fresh' = FALSE /\ routes' = Append(routes, r)
        /\ vstatus' \in {"pending", "not_required"}
        /\ UNCHANGED <<task, documentVars, reviews, evidenceVars, checked>>
    BY <1>5 DEF DeterministicRoute, Material, StatusOfAssurance
  <2> HIDE DEF r
  <2>3. routes' \in Seq(Route) /\ Len(routes') <= MaxRoutes
    BY <2>1, <2>2, ConstantsAssumption
  <2> QED
    BY <2>2, <2>3
<1>6. ASSUME NEW i \in DOMAIN routes, NEW assurance \in {"routine", "protected"}, NEW team \in Team,
             RecordRoute(i, assurance, team)
      PROVE  TypeOK'
  <2>1. /\ routes' = [routes EXCEPT ![i].status = "routed", ![i].assurance = assurance, ![i].team = team]
        /\ vstatus' \in {"pending", "not_required"} /\ fresh' = FALSE
        /\ UNCHANGED <<task, documentVars, reviews, evidenceVars, checked>>
    BY <1>6 DEF RecordRoute, Material, StatusOfAssurance
  <2>2. routes' \in Seq(Route) /\ Len(routes') = Len(routes)
    BY <2>1, DecisionType
  <2> QED
    BY <2>1, <2>2
<1>7. ASSUME NEW i \in DOMAIN routes, RecordBlocked(i) \/ RejectStaleRoute(i) PROVE TypeOK'
  <2>1. /\ \E s \in {"blocked", "rejected"} : routes' = [routes EXCEPT ![i].status = s]
        /\ fresh' \in BOOLEAN
        /\ UNCHANGED <<task, vstatus, documentVars, reviews, evidenceVars, checked>>
    BY <1>7 DEF RecordBlocked, RejectStaleRoute, Material
  <2>2. PICK s \in {"blocked", "rejected"} : routes' = [routes EXCEPT ![i].status = s]
    BY <2>1
  <2>3. routes' \in Seq(Route) /\ Len(routes') = Len(routes)
    BY <2>2, RouteType
  <2> QED
    BY <2>1, <2>3
<1>8. ASSUME NEW e \in Discovery, Discover(e) PROVE TypeOK'
  <2>1. /\ discovered' = discovered \cup {e} /\ fresh' \in BOOLEAN
        /\ UNCHANGED <<task, vstatus, documentVars, routes, reviews, plan, reported, observed, final, checked>>
    BY <1>8 DEF Discover, Material
  <2> QED
    BY <2>1
<1>9. ASSUME NEW e \in Discovery, NEW team \in Team, RecordPlan(e, team) PROVE TypeOK'
  BY <1>9 DEF RecordPlan, Material
<1>10. ASSUME RecordReport \/ RecordWorkerRun PROVE TypeOK'
  BY <1>10 DEF RecordReport, RecordWorkerRun, Material
<1>11. ASSUME NEW ready \in BOOLEAN, Finalize(ready) PROVE TypeOK'
  BY <1>11 DEF Finalize, Material
<1>12. ASSUME NEW manifest \in Files, ValidationPrepare(manifest) PROVE TypeOK'
  <2> DEFINE r == [status |-> "pending", digest |-> content, manifest |-> manifest]
  <2>1. r \in Review
    BY DEF Review
  <2>2. /\ Len(reviews) < MaxReviews /\ reviews' = Append(Superseded(reviews), r) /\ vstatus' = "pending"
        /\ UNCHANGED <<task, documentVars, routes, evidenceVars, fresh, checked>>
    BY <1>12 DEF ValidationPrepare
  <2> HIDE DEF r
  <2>3. Superseded(reviews) \in Seq(Review) /\ Len(Superseded(reviews)) = Len(reviews)
    BY SupersededType
  <2>4. reviews' \in Seq(Review) /\ Len(reviews') <= MaxReviews
    BY <2>1, <2>2, <2>3, ConstantsAssumption
  <2> QED
    BY <2>2, <2>4
<1>13. ASSUME NEW i \in DOMAIN reviews, NEW outcome \in {"passed", "failed"}, RecordVerdict(i, outcome)
       PROVE  TypeOK'
  <2>1. /\ reviews' = [reviews EXCEPT ![i].status = outcome]
        /\ vstatus' \in {"passed", "failed"} /\ fresh' \in BOOLEAN
        /\ UNCHANGED <<task, documentVars, routes, evidenceVars, checked>>
    BY <1>13 DEF RecordVerdict
  <2>2. reviews' \in Seq(Review) /\ Len(reviews') = Len(reviews)
    BY <2>1, ReviewType
  <2> QED
    BY <2>1, <2>2
<1>14. ASSUME NEW i \in DOMAIN reviews, RejectVerdict(i) \/ ValidationAbandon(i) PROVE TypeOK'
  <2>1. /\ reviews' = [reviews EXCEPT ![i].status = "void"]
        /\ UNCHANGED <<task, vstatus, documentVars, routes, evidenceVars, fresh, checked>>
    BY <1>14 DEF RejectVerdict, ValidationAbandon
  <2>2. reviews' \in Seq(Review) /\ Len(reviews') = Len(reviews)
    BY <2>1, ReviewType
  <2> QED
    BY <2>1, <2>2
<1>15. CASE ValidationInvalidate
  BY <1>15 DEF ValidationInvalidate
<1>16. ASSUME NEW target \in {"open", "cancelled"}, TransitionTask(target) PROVE TypeOK'
  BY <1>16, SupersededType DEF TransitionTask
<1>17. CASE AssertCurrent \/ CompleteTask \/ CompletionDropped
  BY <1>17 DEF AssertCurrent, CompleteTask, CompletionDropped
<1>18. CASE WaiveReview \/ CompleteRoutine
  BY <1>18 DEF WaiveReview, CompleteRoutine
<1>19. CASE UNCHANGED vars
  BY <1>19 DEF vars
<1> QED
  BY <1>1, <1>2, <1>3, <1>4, <1>5, <1>6, <1>7, <1>8, <1>9, <1>10, <1>11, <1>12, <1>13, <1>14,
     <1>15, <1>16, <1>17, <1>18, <1>19 DEF Next, Chairman, Hooks

\* Every reachable state is well typed.
THEOREM TypeCorrect == Spec => []TypeOK
  BY InitTyped, StepTyped, PTL DEF Spec

----------------------------------------------------------------------------
(* The inductive invariant.  The three lemmas below say what a change of the
   routes or of the reviews does to what the properties look up. *)

\* Requests that are not routed do not count for a waiver.
LEMMA SameRouted ==
  ASSUME NEW rs, NEW qs, Routed(qs) = Routed(rs), \A i \in Routed(rs) : qs[i] = rs[i]
  PROVE  WaiverAllowed(qs) <=> WaiverAllowed(rs)
  BY DEF WaiverAllowed, Newest, Routed

\* Preparing, blocking or rejecting a request leaves the routed ones alone.
LEMMA RoutedKept ==
  ASSUME TypeOK,
         \/ \E r \in Route : r.status # "routed" /\ routes' = Append(routes, r)
         \/ \E i \in DOMAIN routes, s \in {"blocked", "rejected"} :
               routes[i].status = "pending" /\ routes' = [routes EXCEPT ![i].status = s]
  PROVE  Routed(routes') = Routed(routes) /\ \A i \in Routed(routes) : routes'[i] = routes[i]
<1>1. routes \in Seq(Route) /\ \A j \in DOMAIN routes : routes[j] \in Route
  BY DEF TypeOK
<1>2. ASSUME NEW r \in Route, r.status # "routed", routes' = Append(routes, r)
      PROVE  Routed(routes') = Routed(routes) /\ \A i \in Routed(routes) : routes'[i] = routes[i]
  <2> DEFINE n == Len(routes)
  <2>1. /\ n \in Nat /\ DOMAIN routes = 1..n /\ DOMAIN routes' = 1..(n + 1)
        /\ routes'[n + 1] = r
        /\ \A i \in 1..n : routes'[i] = routes[i]
    BY <1>1, <1>2
  <2> HIDE DEF n
  <2>2. 1..(n + 1) = 1..n \cup {n + 1}
    BY <2>1
  <2> QED
    BY <2>1, <2>2, <1>2 DEF Routed
<1>3. ASSUME NEW i \in DOMAIN routes, NEW s \in {"blocked", "rejected"},
             routes[i].status = "pending", routes' = [routes EXCEPT ![i].status = s]
      PROVE  Routed(routes') = Routed(routes) /\ \A j \in Routed(routes) : routes'[j] = routes[j]
  <2>1. /\ DOMAIN routes' = DOMAIN routes
        /\ routes'[i].status = s
        /\ \A j \in DOMAIN routes : j # i => routes'[j] = routes[j]
    BY <1>1, <1>3 DEF Route
  <2> QED
    BY <2>1, <1>3 DEF Routed
<1> QED
  BY <1>2, <1>3

\* A verdict that passes is about the present document; no other change of a
\* pending review touches the passed ones.
LEMMA PassedKept ==
  ASSUME TypeOK, NEW i \in DOMAIN reviews, NEW s \in {"passed", "failed", "void"},
         reviews[i].status = "pending", reviews' = [reviews EXCEPT ![i].status = s]
  PROVE  /\ DOMAIN reviews' = DOMAIN reviews
         /\ reviews'[i].status = s /\ reviews'[i].digest = reviews[i].digest
         /\ \A j \in DOMAIN reviews : j # i => reviews'[j] = reviews[j]
<1>1. reviews \in Seq(Review) /\ reviews[i] \in Review
  BY DEF TypeOK
<1> QED
  BY <1>1 DEF Review

LEMMA InvariantInitially == Init => InductiveInvariant
<1> SUFFICES ASSUME Init PROVE InductiveInvariant
  OBVIOUS
<1>1. PendingReviews = {}
  BY DEF Init, PendingReviews
<1> QED
  BY <1>1, InitTyped DEF Init, InductiveInvariant, PassedIsCurrent, PendingIsNewest, WaiverIsRoutine,
                         CancelledIsQuiet

LEMMA PassedStep == InductiveInvariant /\ [Next]_vars => PassedIsCurrent'
<1> SUFFICES ASSUME TypeOK, PassedIsCurrent, PendingIsNewest, [Next]_vars PROVE PassedIsCurrent'
  BY DEF InductiveInvariant
<1> USE DEF PassedIsCurrent, NewestReviewPassed, documentVars
<1>1. ASSUME NEW c \in Content, NEW v \in {None, "pending", "failed"}, UpdateState(c, v)
      PROVE  PassedIsCurrent'
  <2>1. vstatus' = "passed" => vstatus = "passed" /\ content' = content
    BY <1>1 DEF UpdateState, PassProtected
  <2> QED
    BY <1>1, <2>1 DEF UpdateState
<1>2. ASSUME NEW i \in DOMAIN reviews, NEW outcome \in {"passed", "failed"}, RecordVerdict(i, outcome)
      PROVE  PassedIsCurrent'
  <2>1. CASE outcome = "passed"
    <3>1. i = Len(reviews) /\ reviews[i].digest = content /\ fresh'
      BY <1>2, <2>1 DEF RecordVerdict, VerdictFits, PendingIsNewest, PendingReviews
    <3>2. /\ Len(reviews') = Len(reviews) /\ reviews' # <<>>
          /\ reviews'[i].status = "passed" /\ reviews'[i].digest = content /\ content' = content
      <4>1. reviews[i].status = "pending" /\ reviews' = [reviews EXCEPT ![i].status = "passed"]
            /\ content' = content
        BY <1>2, <2>1 DEF RecordVerdict
      <4>2. Len(reviews') = Len(reviews) /\ reviews' \in Seq(Review)
        BY <4>1, ReviewType
      <4>3. /\ DOMAIN reviews' = DOMAIN reviews
            /\ reviews'[i].status = "passed" /\ reviews'[i].digest = reviews[i].digest
        BY <4>1, PassedKept
      <4>4. reviews' # <<>>
        BY <4>2, <4>3
      <4> QED
        BY <4>1, <4>2, <4>3, <4>4, <3>1
    <3> QED
      BY <3>1, <3>2
  <2>2. CASE outcome = "failed"
    BY <1>2, <2>2 DEF RecordVerdict
  <2> QED
    BY <2>1, <2>2
<1>3. ASSUME NEW i \in DOMAIN reviews, RejectVerdict(i) \/ ValidationAbandon(i)
      PROVE  PassedIsCurrent'
  <2>1. /\ reviews[i].status = "pending" /\ reviews' = [reviews EXCEPT ![i].status = "void"]
        /\ UNCHANGED <<vstatus, content, fresh>>
    BY <1>3 DEF RejectVerdict, ValidationAbandon
  \* The pending review is the newest, so nothing has passed.
  <2>2. i = Len(reviews) /\ reviews[i].status # "passed"
    BY <2>1 DEF PendingIsNewest, PendingReviews
  <2> QED
    BY <2>1, <2>2
\* Every step that leaves the newest pass behind evidence or changes the status
\* finds the task not passed, or un-passes it.
<1>4. ASSUME vstatus' # "passed" PROVE PassedIsCurrent'
  BY <1>4
<1>5. ASSUME UNCHANGED <<vstatus, content, reviews, fresh>> PROVE PassedIsCurrent'
  BY <1>5
<1>6. ASSUME NEW i \in DOMAIN routes, NEW assurance \in {"routine", "protected"}, NEW team \in Team,
             RecordRoute(i, assurance, team)
      PROVE  PassedIsCurrent'
  BY <1>4, <1>6 DEF RecordRoute, StatusOfAssurance
<1>7. ASSUME NEW i \in DOMAIN routes, RecordBlocked(i) \/ RejectStaleRoute(i) PROVE PassedIsCurrent'
  BY <1>7 DEF RecordBlocked, RejectStaleRoute, Material, MaterialAllowed
<1>8. ASSUME NEW e \in Discovery, NEW hard \in BOOLEAN, RoutingPrepare(e, hard) PROVE PassedIsCurrent'
  BY <1>8 DEF RoutingPrepare
<1>9. ASSUME NEW e \in Discovery, NEW hard \in BOOLEAN, NEW team \in Team,
             DeterministicRoute(e, hard, team)
      PROVE  PassedIsCurrent'
  BY <1>9 DEF DeterministicRoute, StatusOfAssurance
<1>16. ASSUME Material, vstatus' = vstatus PROVE PassedIsCurrent'
  BY <1>16 DEF Material, MaterialAllowed
<1>17. CASE \/ \E e \in Discovery : Discover(e) \/ \E team \in Team : RecordPlan(e, team)
            \/ RecordReport \/ RecordWorkerRun
            \/ \E ready \in BOOLEAN : Finalize(ready)
  BY <1>16, <1>17 DEF Discover, RecordPlan, RecordReport, RecordWorkerRun, Finalize
<1>10. ASSUME NEW c \in Content, ProjectDecisions(c) PROVE PassedIsCurrent'
  BY <1>10 DEF ProjectDecisions
<1>11. CASE \/ \E manifest \in Files : ValidationPrepare(manifest)
            \/ ValidationInvalidate \/ WaiveReview
  BY <1>11 DEF ValidationPrepare, ValidationInvalidate, WaiveReview
<1>12. ASSUME NEW target \in {"open", "cancelled"}, TransitionTask(target) PROVE PassedIsCurrent'
  BY <1>12 DEF TransitionTask
<1>13. CASE AssertCurrent \/ CompleteTask \/ CompletionDropped \/ CompleteRoutine
  BY <1>13 DEF AssertCurrent, CompleteTask, CompletionDropped, CompleteRoutine
<1>14. ASSUME NEW f \in Files, EditFiles(f) PROVE PassedIsCurrent'
  BY <1>14 DEF EditFiles
<1>15. CASE UNCHANGED vars
  BY <1>15 DEF vars
<1> QED
  BY <1>1, <1>2, <1>3, <1>6, <1>7, <1>8, <1>9, <1>10, <1>11, <1>12, <1>13, <1>14, <1>15, <1>17
     DEF Next, Chairman, Hooks

\* A decision that needs no review makes a request that needs none.
LEMMA RoutineDecision ==
  ASSUME NEW discovery, NEW hard \in BOOLEAN, NEW team,
         DecisionAllowed(discovery, hard, "routine", team)
  PROVE  ~hard /\ team \notin OpusTeam
  BY DEF DecisionAllowed

LEMMA WaiverAfterDecision ==
  ASSUME TypeOK, WaiverIsRoutine, NEW i \in DOMAIN routes,
         NEW assurance \in {"routine", "protected"}, NEW team \in Team,
         RecordRoute(i, assurance, team)
  PROVE  WaiverIsRoutine'
<1>1. CASE assurance = "protected"
  BY <1>1 DEF RecordRoute, StatusOfAssurance, WaiverIsRoutine
<1>2. CASE vstatus # "not_required"
  BY <1>2 DEF RecordRoute, WaiverIsRoutine, WaiverAllowed
<1>3. CASE assurance = "routine" /\ vstatus = "not_required"
  <2>1. PICK j \in Newest(Routed(routes)) : ~IsProtected(routes[j])
    BY <1>3 DEF WaiverIsRoutine, WaiverAllowed
  <2>2. /\ routes \in Seq(Route) /\ routes[i] \in Route /\ routes[i].hard \in BOOLEAN
        /\ DOMAIN routes \subseteq Nat
    <3>1. routes \in Seq(Route) /\ routes[i] \in Route
      BY DEF TypeOK
    <3>2. DOMAIN routes = 1..Len(routes) /\ Len(routes) \in Nat
      BY <3>1
    <3>3. routes[i].hard \in BOOLEAN
      BY <3>1 DEF Route
    <3> QED
      BY <3>1, <3>2, <3>3
  <2>3. /\ DOMAIN routes' = DOMAIN routes
        /\ routes'[i].status = "routed" /\ routes'[i].assurance = "routine"
        /\ routes'[i].team = team /\ routes'[i].hard = routes[i].hard
        /\ \A k \in DOMAIN routes : k # i => routes'[k] = routes[k]
    BY <2>2, <1>3 DEF RecordRoute, Route
  <2>4. ~IsProtected(routes'[i])
    BY <2>2, <2>3, <1>3, RoutineDecision DEF RecordRoute, IsProtected
  <2>5. Routed(routes') = Routed(routes) \cup {i} /\ i \notin Routed(routes)
    BY <2>3 DEF RecordRoute, Routed
  <2>6. j \in Routed(routes) /\ \A k \in Routed(routes) : k <= j
    BY <2>1 DEF Newest
  <2>7. j \in DOMAIN routes /\ j # i /\ i \in Nat /\ j \in Nat
    BY <2>2, <2>5, <2>6 DEF Routed
  <2>8. CASE i < j
    <3>1. j \in Newest(Routed(routes'))
      BY <2>5, <2>6, <2>7, <2>8 DEF Newest
    <3>2. ~IsProtected(routes'[j])
      BY <2>1, <2>3, <2>7
    <3> QED
      BY <3>1, <3>2 DEF WaiverIsRoutine, WaiverAllowed
  <2>9. CASE j < i
    <3>1. \A k \in Routed(routes) : k \in Nat
      BY <2>2 DEF Routed
    <3>2. i \in Newest(Routed(routes'))
      BY <2>5, <2>6, <2>7, <2>9, <3>1 DEF Newest
    <3> QED
      BY <3>2, <2>4 DEF WaiverIsRoutine, WaiverAllowed
  <2> QED
    BY <2>7, <2>8, <2>9
<1> QED
  BY <1>1, <1>2, <1>3

LEMMA WaiverAfterDeterministic ==
  ASSUME TypeOK, NEW e \in Discovery, NEW hard \in BOOLEAN, NEW team \in Team,
         DeterministicRoute(e, hard, team)
  PROVE  WaiverIsRoutine'
<1> DEFINE assurance == IF hard \/ PriorProtected THEN "protected" ELSE "routine"
           r == [status |-> "routed", digest |-> content, discovery |-> e, hard |-> hard,
                 assurance |-> assurance, team |-> team]
           n == Len(routes)
<1>1. CASE hard \/ PriorProtected
  BY <1>1 DEF DeterministicRoute, StatusOfAssurance, WaiverIsRoutine
<1>2. CASE ~hard /\ ~PriorProtected
  <2>1. team \notin OpusTeam /\ routes' = Append(routes, r)
    BY DEF DeterministicRoute
  <2>2. /\ r.status = "routed" /\ r.hard = hard /\ r.team = team
        /\ r.assurance = "routine"
    BY <1>2
  <2>3. ~IsProtected(r)
    <3> HIDE DEF r
    <3> QED BY <1>2, <2>1, <2>2 DEF IsProtected
  <2> HIDE DEF r
  <2>4. /\ n \in Nat /\ DOMAIN routes' = 1..(n + 1) /\ routes'[n + 1] = r
    BY <2>1 DEF TypeOK
  <2> HIDE DEF n
  <2>5. n + 1 \in Newest(Routed(routes'))
    BY <2>2, <2>4 DEF Newest, Routed
  <2> QED
    BY <2>3, <2>4, <2>5 DEF WaiverIsRoutine, WaiverAllowed
<1> QED
  BY <1>1, <1>2

LEMMA WaiverStep == InductiveInvariant /\ [Next]_vars => WaiverIsRoutine'
<1> SUFFICES ASSUME TypeOK, WaiverIsRoutine, [Next]_vars PROVE WaiverIsRoutine'
  BY DEF InductiveInvariant
<1>1. ASSUME vstatus' # "not_required" PROVE WaiverIsRoutine'
  BY <1>1 DEF WaiverIsRoutine, WaiverAllowed
<1>2. ASSUME UNCHANGED <<vstatus, routes>> PROVE WaiverIsRoutine'
  BY <1>2 DEF WaiverIsRoutine, WaiverAllowed
<1>3. ASSUME vstatus' = vstatus,
             Routed(routes') = Routed(routes), \A i \in Routed(routes) : routes'[i] = routes[i]
      PROVE  WaiverIsRoutine'
  <2>1. WaiverAllowed(routes') <=> WaiverAllowed(routes)
    BY <1>3, SameRouted
  <2>2. WaiverIsRoutine' <=> (vstatus' = "not_required" => WaiverAllowed(routes'))
    BY DEF WaiverIsRoutine, WaiverAllowed
  <2> QED
    BY <1>3, <2>1, <2>2 DEF WaiverIsRoutine, WaiverAllowed
<1>4. ASSUME NEW c \in Content, NEW v \in {None, "pending", "failed"}, UpdateState(c, v)
      PROVE  WaiverIsRoutine'
  <2>1. v \in {"pending", "failed"} \/ v = None
    OBVIOUS
  <2>2. vstatus' = vstatus \/ vstatus' = "pending" \/ vstatus' = "failed"
    BY <1>4, <2>1 DEF UpdateState
  <2>3. routes' = routes
    BY <1>4 DEF UpdateState
  <2> QED
    BY <1>1, <1>2, <2>2, <2>3
<1>5. ASSUME NEW i \in DOMAIN routes, RecordBlocked(i) \/ RejectStaleRoute(i) PROVE WaiverIsRoutine'
  <2>1. PICK s \in {"blocked", "rejected"} : routes' = [routes EXCEPT ![i].status = s]
    BY <1>5 DEF RecordBlocked, RejectStaleRoute
  <2>2. routes[i].status = "pending" /\ vstatus' = vstatus
    BY <1>5 DEF RecordBlocked, RejectStaleRoute
  <2>3. Routed(routes') = Routed(routes) /\ \A j \in Routed(routes) : routes'[j] = routes[j]
    BY <2>1, <2>2, RoutedKept
  <2> QED
    BY <1>3, <2>2, <2>3
<1>6. ASSUME NEW e \in Discovery, NEW hard \in BOOLEAN, RoutingPrepare(e, hard) PROVE WaiverIsRoutine'
  <2> DEFINE r == [status |-> "pending", digest |-> content, discovery |-> e, hard |-> hard,
                   assurance |-> None, team |-> None]
  <2>1. r \in Route /\ r.status # "routed"
    BY DEF TypeOK, Route
  <2>2. routes' = Append(routes, r) /\ vstatus' = vstatus
    BY <1>6 DEF RoutingPrepare
  <2> HIDE DEF r
  <2>3. Routed(routes') = Routed(routes) /\ \A j \in Routed(routes) : routes'[j] = routes[j]
    BY <2>1, <2>2, RoutedKept
  <2> QED
    BY <1>3, <2>2, <2>3
<1>7. ASSUME NEW c \in Content, ProjectDecisions(c) PROVE WaiverIsRoutine'
  BY <1>1, <1>7 DEF ProjectDecisions
<1>8. ASSUME NEW i \in DOMAIN reviews, NEW outcome \in {"passed", "failed"}, RecordVerdict(i, outcome)
      PROVE  WaiverIsRoutine'
  BY <1>1, <1>8 DEF RecordVerdict
<1>9. CASE (\E manifest \in Files : ValidationPrepare(manifest)) \/ ValidationInvalidate
  BY <1>1, <1>9 DEF ValidationPrepare, ValidationInvalidate
<1>10. ASSUME NEW target \in {"open", "cancelled"}, TransitionTask(target) PROVE WaiverIsRoutine'
  BY <1>1, <1>10 DEF TransitionTask
<1>11. CASE WaiveReview
  BY <1>11 DEF WaiveReview, WaiverIsRoutine, WaiverAllowed
<1>12. CASE \/ \E i \in DOMAIN reviews : RejectVerdict(i) \/ ValidationAbandon(i)
            \/ \E f \in Files : EditFiles(f)
            \/ AssertCurrent \/ CompleteTask \/ CompletionDropped \/ CompleteRoutine
  BY <1>2, <1>12 DEF RejectVerdict, ValidationAbandon, EditFiles, AssertCurrent, CompleteTask,
                     CompletionDropped, CompleteRoutine
<1>13. CASE \/ \E e \in Discovery : Discover(e) \/ \E team \in Team : RecordPlan(e, team)
            \/ RecordReport \/ RecordWorkerRun
            \/ \E ready \in BOOLEAN : Finalize(ready)
  BY <1>2, <1>13 DEF Discover, RecordPlan, RecordReport, RecordWorkerRun, Finalize
<1>14. CASE UNCHANGED vars
  BY <1>2, <1>14 DEF vars
<1> QED
  BY <1>4, <1>5, <1>6, <1>7, <1>8, <1>9, <1>10, <1>11, <1>12, <1>13, <1>14,
     WaiverAfterDecision, WaiverAfterDeterministic DEF Next, Chairman, Hooks

\* No request is pending once it was superseded.
LEMMA SupersededQuiet ==
  ASSUME NEW rs \in Seq(Review), NEW i \in DOMAIN rs
  PROVE  Superseded(rs)[i].status # "pending"
<1>1. rs[i] \in Review
  OBVIOUS
<1> QED
  BY <1>1 DEF Superseded, Review

LEMMA PendingStep == InductiveInvariant /\ [Next]_vars => PendingIsNewest'
<1> SUFFICES ASSUME TypeOK, PendingIsNewest, [Next]_vars PROVE PendingIsNewest'
  BY DEF InductiveInvariant
<1>1. reviews \in Seq(Review) /\ DOMAIN reviews = 1..Len(reviews) /\ Len(reviews) \in Nat
  BY DEF TypeOK
<1>2. ASSUME UNCHANGED reviews PROVE PendingIsNewest'
  BY <1>2 DEF PendingIsNewest, PendingReviews
<1>3. ASSUME NEW manifest \in Files, ValidationPrepare(manifest) PROVE PendingIsNewest'
  <2> DEFINE old == Superseded(reviews)
             r == [status |-> "pending", digest |-> content, manifest |-> manifest]
             n == Len(reviews)
  <2>1. old \in Seq(Review) /\ Len(old) = n /\ \A i \in 1..n : old[i].status # "pending"
    BY <1>1, SupersededType, SupersededQuiet
  <2>2. reviews' = Append(old, r)
    BY <1>3 DEF ValidationPrepare
  <2> HIDE DEF old, r
  <2>3. /\ Len(reviews') = n + 1 /\ DOMAIN reviews' = 1..(n + 1)
        /\ \A i \in 1..n : reviews'[i] = old[i]
    BY <2>1, <2>2
  <2> HIDE DEF n
  <2>4. n \in Nat
    BY <1>1 DEF n
  <2> QED
    BY <2>1, <2>3, <2>4 DEF PendingIsNewest, PendingReviews
<1>4. ASSUME NEW i \in DOMAIN reviews, NEW s \in {"passed", "failed", "void"},
             reviews[i].status = "pending", reviews' = [reviews EXCEPT ![i].status = s]
      PROVE  PendingIsNewest'
  <2>1. Len(reviews') = Len(reviews)
    BY <1>4, ReviewType
  <2>2. PendingReviews' \subseteq PendingReviews
    BY <1>4, PassedKept DEF PendingReviews
  <2> QED
    BY <2>1, <2>2 DEF PendingIsNewest
<1>5. ASSUME NEW i \in DOMAIN reviews,
             \/ RejectVerdict(i) \/ ValidationAbandon(i)
             \/ \E outcome \in {"passed", "failed"} : RecordVerdict(i, outcome)
      PROVE  PendingIsNewest'
  BY <1>4, <1>5 DEF RejectVerdict, ValidationAbandon, RecordVerdict
<1>6. ASSUME NEW target \in {"open", "cancelled"}, TransitionTask(target) PROVE PendingIsNewest'
  <2>1. reviews' = Superseded(reviews) /\ DOMAIN reviews' = DOMAIN reviews
    BY <1>1, <1>6, SupersededType DEF TransitionTask
  <2>2. PendingReviews' = {}
    BY <1>1, <2>1, SupersededQuiet DEF PendingReviews
  <2> QED
    BY <2>2 DEF PendingIsNewest
<1> QED
  <2>1. CASE Chairman
    BY <2>1, <1>2, <1>3, <1>5, <1>6 DEF Chairman, UpdateState, ProjectDecisions, Discover,
       RoutingPrepare, DeterministicRoute, RecordPlan, RecordReport, Finalize, ValidationInvalidate,
       AssertCurrent, CompleteTask, CompletionDropped, WaiveReview, CompleteRoutine
  <2>2. CASE Hooks
    BY <2>2, <1>2, <1>5 DEF Hooks, RecordRoute, RecordBlocked, RejectStaleRoute, RecordWorkerRun
  <2>3. CASE (\E f \in Files : EditFiles(f)) \/ UNCHANGED vars
    BY <2>3, <1>2 DEF EditFiles, vars
  <2> QED
    BY <2>1, <2>2, <2>3 DEF Next

LEMMA CancelledStep == InductiveInvariant /\ [Next]_vars => CancelledIsQuiet'
<1> SUFFICES ASSUME TypeOK, CancelledIsQuiet, [Next]_vars PROVE CancelledIsQuiet'
  BY DEF InductiveInvariant
\* A task that stays open or completed, and one that was cancelled already.
<1>1. ASSUME task' # "cancelled" PROVE CancelledIsQuiet'
  BY <1>1 DEF CancelledIsQuiet
<1>2. ASSUME UNCHANGED <<task, reviews>>,
             vstatus' = vstatus \/ vstatus' \in {"pending", "failed"}
      PROVE  CancelledIsQuiet'
  BY <1>2 DEF CancelledIsQuiet, PendingReviews
<1>3. ASSUME NEW c \in Content, NEW v \in {None, "pending", "failed"}, UpdateState(c, v)
      PROVE  CancelledIsQuiet'
  <2>1. v \in {"pending", "failed"} \/ v = None
    OBVIOUS
  <2> QED
    BY <1>2, <1>3, <2>1 DEF UpdateState
<1>4. CASE TaskOpen /\ task' = task
  BY <1>1, <1>4 DEF TaskOpen
<1>5. CASE \/ \E i \in DOMAIN routes :
               \E assurance \in {"routine", "protected"}, team \in Team : RecordRoute(i, assurance, team)
           \/ \E i \in DOMAIN routes : RecordBlocked(i)
           \/ \E e \in Discovery, hard \in BOOLEAN :
               \/ RoutingPrepare(e, hard)
               \/ \E team \in Team : DeterministicRoute(e, hard, team)
  BY <1>4, <1>5 DEF RecordRoute, RecordBlocked, RoutingPrepare, DeterministicRoute, Material
<1>6. CASE \/ \E e \in Discovery : Discover(e) \/ \E team \in Team : RecordPlan(e, team)
           \/ RecordReport \/ RecordWorkerRun
           \/ \E ready \in BOOLEAN : Finalize(ready)
  BY <1>4, <1>6 DEF Discover, RecordPlan, RecordReport, RecordWorkerRun, Finalize, Material
<1>7. CASE \/ \E c \in Content : ProjectDecisions(c)
           \/ \E manifest \in Files : ValidationPrepare(manifest)
           \/ ValidationInvalidate \/ WaiveReview
           \/ \E i \in DOMAIN reviews : ValidationAbandon(i)
  BY <1>4, <1>7 DEF ProjectDecisions, ValidationPrepare, ValidationInvalidate, WaiveReview,
                    ValidationAbandon
<1>8. CASE \/ \E i \in DOMAIN routes : RejectStaleRoute(i)
           \/ \E f \in Files : EditFiles(f)
           \/ AssertCurrent \/ CompletionDropped
  BY <1>2, <1>8 DEF RejectStaleRoute, EditFiles, AssertCurrent, CompletionDropped
<1>9. CASE CompleteTask \/ CompleteRoutine
  BY <1>1, <1>9 DEF CompleteTask, CompleteRoutine
<1>10. ASSUME NEW i \in DOMAIN reviews, NEW outcome \in {"passed", "failed"}, RecordVerdict(i, outcome)
       PROVE  CancelledIsQuiet'
  BY <1>4, <1>10 DEF RecordVerdict, ValidatorBound
<1>11. ASSUME NEW i \in DOMAIN reviews, RejectVerdict(i) PROVE CancelledIsQuiet'
  <2>1. task # "cancelled" /\ task' = task
    BY <1>11 DEF RejectVerdict, CancelledIsQuiet, PendingReviews
  <2> QED
    BY <1>1, <2>1
<1>12. ASSUME NEW target \in {"open", "cancelled"}, TransitionTask(target) PROVE CancelledIsQuiet'
  <2>1. vstatus' = "pending" /\ reviews' = Superseded(reviews)
    BY <1>12 DEF TransitionTask
  <2>2. ASSUME NEW i \in DOMAIN reviews PROVE Superseded(reviews)[i].status # "pending"
    BY SupersededQuiet DEF TypeOK
  <2>3. DOMAIN Superseded(reviews) = DOMAIN reviews
    BY DEF Superseded
  <2>4. PendingReviews' = {}
    BY <2>1, <2>2, <2>3 DEF PendingReviews
  <2> QED
    BY <2>1, <2>4 DEF CancelledIsQuiet
<1>13. CASE UNCHANGED vars
  BY <1>2, <1>13 DEF vars
<1> QED
  <2>1. CASE Chairman
    BY <2>1, <1>3, <1>5, <1>6, <1>7, <1>8, <1>9, <1>12 DEF Chairman
  <2>2. CASE Hooks
    BY <2>2, <1>5, <1>6, <1>8, <1>10, <1>11 DEF Hooks
  <2> QED
    BY <2>1, <2>2, <1>8, <1>13 DEF Next

LEMMA InvariantStep == InductiveInvariant /\ [Next]_vars => InductiveInvariant'
  BY StepTyped, PassedStep, PendingStep, WaiverStep, CancelledStep DEF InductiveInvariant

\* Every reachable state satisfies the invariant.
THEOREM InvariantHolds == Spec => []InductiveInvariant
  BY InvariantInitially, InvariantStep, PTL DEF Spec

\* The document and the evidence of a passed task are the reviewed ones.
THEOREM PassedStaysCurrent == Spec => []PassedIsCurrent
<1>1. InductiveInvariant => PassedIsCurrent
  BY DEF InductiveInvariant
<1> QED
  BY <1>1, InvariantHolds, PTL

\* The only review that can still be answered is the newest.
THEOREM PendingStaysNewest == Spec => []PendingIsNewest
<1>1. InductiveInvariant => PendingIsNewest
  BY DEF InductiveInvariant
<1> QED
  BY <1>1, InvariantHolds, PTL

\* Review is waived only under a route that needs none.
THEOREM WaiversAreRoutine == Spec => []WaiverIsRoutine
<1>1. InductiveInvariant => WaiverIsRoutine
  BY DEF InductiveInvariant
<1> QED
  BY <1>1, InvariantHolds, PTL

\* Nothing left of a cancelled task can pass it.
THEOREM CancelledStaysQuiet == Spec => []CancelledIsQuiet
<1>1. InductiveInvariant => CancelledIsQuiet
  BY DEF InductiveInvariant
<1> QED
  BY <1>1, InvariantHolds, PTL

----------------------------------------------------------------------------
(* What a step may do, from the invariant. *)

\* A task completes under a current pass or under a routine route's waiver.
THEOREM CompletionsAreEarned == Spec => CompletionIsEarned
<1> DEFINE Earned ==
      task # "completed" /\ task' = "completed" =>
        \/ vstatus = "passed" /\ fresh /\ NewestReviewPassed /\ content' = content
        \/ /\ vstatus = "not_required"
           /\ \E i \in Newest(Routed(routes)) :
                 ~IsProtected(routes[i]) /\ plan = [discovery |-> routes[i].discovery, team |-> routes[i].team]
<1>1. InductiveInvariant /\ [Next]_vars => [Earned]_vars
  <2> SUFFICES ASSUME InductiveInvariant, Next, task # "completed", task' = "completed" PROVE Earned
    OBVIOUS
  <2>1. CompleteTask \/ CompleteRoutine
    BY DEF Next, Chairman, Hooks, UpdateState, ProjectDecisions, Discover, RoutingPrepare,
           DeterministicRoute, RecordPlan, RecordReport, Finalize, ValidationPrepare,
           ValidationInvalidate, ValidationAbandon, TransitionTask, AssertCurrent, CompletionDropped,
           WaiveReview, RecordRoute, RecordBlocked, RejectStaleRoute, RecordWorkerRun,
           RecordVerdict, RejectVerdict, EditFiles
  <2>2. CASE CompleteTask
    BY <2>2 DEF CompleteTask, InductiveInvariant, PassedIsCurrent, documentVars
  <2>3. CASE CompleteRoutine
    BY <2>3 DEF CompleteRoutine, WaiverAllowed, EvidenceComplete, InductiveInvariant, TypeOK
  <2> QED
    BY <2>1, <2>2, <2>3
<1>2. []InductiveInvariant /\ [][Next]_vars => CompletionIsEarned
  BY <1>1, PTL DEF CompletionIsEarned
<1> QED
  BY <1>2, InvariantHolds, PTL DEF Spec

\* No step moves a task out of completed or cancelled.
THEOREM TerminalStatusesStand == Spec => TerminalStands
<1>1. InductiveInvariant /\ [Next]_vars => [task # "open" => task' = task]_vars
  <2> SUFFICES ASSUME InductiveInvariant, Next, task # "open" PROVE task' = task
    OBVIOUS
  <2>1. CASE CompleteTask
    BY <2>1 DEF CompleteTask, InductiveInvariant, CancelledIsQuiet, TypeOK
  <2>2. CASE ~CompleteTask
    BY <2>2 DEF Next, Chairman, Hooks, TaskOpen, Material, UpdateState, ProjectDecisions, Discover,
           RoutingPrepare, DeterministicRoute, RecordPlan, RecordReport, Finalize, ValidationPrepare,
           ValidationInvalidate, ValidationAbandon, TransitionTask, AssertCurrent, CompletionDropped,
           WaiveReview, CompleteRoutine, RecordRoute, RecordBlocked, RejectStaleRoute,
           RecordWorkerRun, RecordVerdict, RejectVerdict, EditFiles
  <2> QED
    BY <2>1, <2>2
<1>2. []InductiveInvariant /\ [][Next]_vars => TerminalStands
  BY <1>1, PTL DEF TerminalStands
<1> QED
  BY <1>2, InvariantHolds, PTL DEF Spec

\* After the end of a task its review is neither undone nor overtaken.
THEOREM CompletedPassesStand == Spec => CompletedPassStands
<1> DEFINE Stands ==
      task # "open" =>
        /\ vstatus' = "passed" <=> vstatus = "passed"
        /\ vstatus = "passed" =>
             /\ content' = content /\ evidenceVars' = evidenceVars
             /\ Routed(routes') = Routed(routes)
<1>1. InductiveInvariant /\ [Next]_vars => [Stands]_vars
  <2> SUFFICES ASSUME TypeOK, Next, task # "open" PROVE Stands
    BY DEF InductiveInvariant
  <2>1. ~TaskOpen /\ ~Material
    BY DEF TaskOpen, Material
  <2>2. ASSUME UNCHANGED <<vstatus, content, routes, evidenceVars>> PROVE Stands
    BY <2>2
  <2>3. ASSUME NEW c \in Content, NEW v \in {None, "pending", "failed"}, UpdateState(c, v) PROVE Stands
    <3>1. v \in {"pending", "failed"} \/ v = None
      OBVIOUS
    <3> QED
      BY <2>3, <3>1 DEF UpdateState, PassProtected
  <2>4. ASSUME NEW i \in DOMAIN routes, RejectStaleRoute(i) PROVE Stands
    <3>1. Routed(routes') = Routed(routes)
      BY <2>4, RoutedKept DEF RejectStaleRoute
    <3> QED
      BY <2>4, <3>1 DEF RejectStaleRoute, documentVars
  <2>6. CASE \/ \E i \in DOMAIN reviews : RejectVerdict(i)
             \/ \E f \in Files : EditFiles(f)
             \/ AssertCurrent \/ CompleteTask \/ CompletionDropped
    BY <2>2, <2>6 DEF RejectVerdict, EditFiles, AssertCurrent, CompleteTask, CompletionDropped, documentVars
  <2>7. \/ \E c \in Content, v \in {None, "pending", "failed"} : UpdateState(c, v)
        \/ \E i \in DOMAIN routes : RejectStaleRoute(i)
        \/ \E i \in DOMAIN reviews : RejectVerdict(i)
        \/ \E f \in Files : EditFiles(f)
        \/ AssertCurrent \/ CompleteTask \/ CompletionDropped
    BY <2>1 DEF Next, Chairman, Hooks, ProjectDecisions, Discover, RoutingPrepare, DeterministicRoute,
                RecordPlan, RecordReport, Finalize, ValidationPrepare, ValidationInvalidate,
                ValidationAbandon, TransitionTask, WaiveReview, CompleteRoutine, RecordRoute,
                RecordBlocked, RecordWorkerRun, RecordVerdict, ValidatorBound
  <2> QED
    BY <2>3, <2>4, <2>6, <2>7
<1>2. []InductiveInvariant /\ [][Next]_vars => CompletedPassStands
  BY <1>1, PTL DEF CompletedPassStands
<1> QED
  BY <1>2, InvariantHolds, PTL DEF Spec
=============================================================================
