------------------------- MODULE CodexHandoffProofs -------------------------
(***************************************************************************)
(* For any hand-offs, paths, calls and bounds: what CodexHandoff promises. *)
(*                                                                         *)
(* None of the three properties is inductive.  A promotion is exclusive    *)
(* because a call in its window holds the lock of the rows, from a moment  *)
(* at which it has compared the task (HolderIsAlone).  A hand-off has    *)
(* one outcome because a call that is past its claim finds the claim on    *)
(* record, and no outcome until it writes one (ClaimIsOnRecord).  And    *)
(* what is executed is in scope although the patch need not be: the paths  *)
(* that were checked are (CheckedInScope), what has landed is among what *)
(* git reports (LandedIsDirty), and the comparison of the two is what a    *)
(* call that goes on to report success has passed (VerifiedInScope).     *)
(***************************************************************************)
EXTENDS CodexHandoff, TLAPS

Places == {"idle", "claiming"} \cup Claimed
Holding == {"guarding"} \cup Window
Job(c) == local[c].job

JobIsPrepared(c) == pc[c] # "idle" => prepared[Job(c)] # None

HolderIsAlone(c) ==
    /\ pc[c] \in Holding => lock = c /\ task # "ended" /\ TaskNow = prepared[Job(c)].task
    /\ pc[c] \in Window => vstatus # "passed"

ClaimIsOnRecord(c) ==
    /\ pc[c] \in Claimed => "STARTED" \in events[Job(c)]
    /\ pc[c] \in Claimed \ {"removing"} => events[Job(c)] \cap {"EXECUTED", "FAILED"} = {}
    /\ pc[c] = "removing" => "EXECUTED" \in events[Job(c)]

CheckedInScope(c) == pc[c] # "idle" => local[c].checked \subseteq Scope[Job(c)]

VerifiedInScope(c) ==
    pc[c] \in {"committing", "repairing", "reporting"} /\ local[c].good => landed[Job(c)] \subseteq Scope[Job(c)]

CallOK(c) ==
    /\ JobIsPrepared(c)
    /\ HolderIsAlone(c)
    /\ ClaimIsOnRecord(c)
    /\ CheckedInScope(c)
    /\ VerifiedInScope(c)

LandedIsDirty == \A h \in Handoff : landed[h] \subseteq dirty

CodexInvariant ==
    /\ TypeOK
    /\ \A c \in Call : CallOK(c)
    /\ LandedIsDirty
    /\ OneOutcome
    /\ ExecutedIsInScope

----------------------------------------------------------------------------
(* The records a call holds. *)

LEMMA RecordsAreTyped ==
    /\ NoLocal \in Local /\ NoLocal.job = None /\ NoLocal.checked = {}
    /\ \A h \in Handoff, now \in Fingerprint :
          /\ Fresh(h, now) \in Local
          /\ Fresh(h, now).job = h /\ Fresh(h, now).checked = {}
    /\ \A job \in Handoff \cup {None} :
          LET failing == [NoLocal EXCEPT !.job = job, !.good = FALSE]
          IN  /\ failing \in Local
              /\ failing.job = job /\ failing.good = FALSE /\ failing.checked = {}
<1>1. [doc |-> 0, vstatus |-> "pending"] \in Fingerprint
  BY HandoffAssumption DEF Fingerprint, Status
<1>2. ASSUME NEW job \in Handoff \cup {None}, NEW now \in Fingerprint, NEW good \in BOOLEAN
      PROVE  [job |-> job, read |-> now, good |-> good, at |-> 0, changed |-> {},
              checked |-> {}, patch |-> {}] \in Local
  BY HandoffAssumption DEF Local
<1>3. NoLocal \in Local /\ NoLocal.job = None /\ NoLocal.checked = {}
  BY <1>1, <1>2 DEF NoLocal, Fresh
<1>4. ASSUME NEW h \in Handoff, NEW now \in Fingerprint
      PROVE  Fresh(h, now) \in Local /\ Fresh(h, now).job = h /\ Fresh(h, now).checked = {}
  BY <1>2 DEF Fresh
<1>5. ASSUME NEW job \in Handoff \cup {None}
      PROVE  LET failing == [NoLocal EXCEPT !.job = job, !.good = FALSE]
             IN  /\ failing \in Local
                 /\ failing.job = job /\ failing.good = FALSE /\ failing.checked = {}
  BY <1>3 DEF Local
<1> QED
  BY <1>3, <1>4, <1>5

LEMMA CallsAreTyped ==
    ASSUME TypeOK, NEW c \in Call
    PROVE  /\ pc[c] \in Places /\ local[c] \in Local
           /\ (pc[c] = "idle") = (Job(c) = None)
           /\ pc[c] # "idle" => Job(c) \in Handoff
BY DEF TypeOK, Places, Local, Job

LEMMA CodexInit == Init => CodexInvariant
<1> SUFFICES ASSUME Init PROVE CodexInvariant
  OBVIOUS
<1>1. TypeOK
  <2>1. NoLocal \in Local /\ NoLocal.job = None
    BY RecordsAreTyped
  <2>2. pc \in [Call -> Places] /\ local \in [Call -> Local]
    BY <2>1 DEF Init, Places
  <2>3. \A c \in Call : (pc[c] = "idle") = (local[c].job = None)
    BY <2>1 DEF Init
  <2> QED
    BY <2>2, <2>3, HandoffAssumption DEF Init, TypeOK, Status, Places
<1>2. \A c \in Call : CallOK(c)
  BY DEF Init, CallOK, JobIsPrepared, HolderIsAlone, ClaimIsOnRecord, CheckedInScope,
         VerifiedInScope, Claimed, Window, Holding
<1>3. LandedIsDirty /\ OneOutcome /\ ExecutedIsInScope
  BY DEF Init, LandedIsDirty, OneOutcome, ExecutedIsInScope, Claimed, Window
<1> QED
  BY <1>1, <1>2, <1>3 DEF CodexInvariant

----------------------------------------------------------------------------
(* A call moves, and writes nothing but its own place and record and the lock. *)

CallMoves(c, place, l) ==
    /\ pc' = [pc EXCEPT ![c] = place]
    /\ local' = [local EXCEPT ![c] = l]
    /\ UNCHANGED <<primaryVars, taskVars, handoffVars>>
    /\ lock' = lock \/ (lock \in {None, c} /\ lock' \in {None, c})

LEMMA MoveKeeps ==
    ASSUME CodexInvariant, NEW c \in Call, NEW place \in Places, NEW l \in Local,
           CallMoves(c, place, l), (place = "idle") = (l.job = None),
           place \in Claimed => pc[c] \in Claimed /\ l.job = Job(c),
           CallOK(c)'
    PROVE  CodexInvariant'
<1> USE DEF CallMoves, primaryVars, taskVars, handoffVars
<1>1. TypeOK'
  <2>1. pc' \in [Call -> Places] /\ local' \in [Call -> Local] /\ lock' \in Call \cup {None}
    BY DEF CodexInvariant, TypeOK, Places
  <2>2. \A d \in Call : (pc'[d] = "idle") = (local'[d].job = None)
    BY DEF CodexInvariant, TypeOK
  <2> QED
    BY <2>1, <2>2 DEF CodexInvariant, TypeOK, Places
<1>2. ASSUME NEW d \in Call, d # c PROVE CallOK(d)'
  <2>1. pc'[d] = pc[d] /\ local'[d] = local[d]
    BY <1>2 DEF CodexInvariant, TypeOK
  <2>2. CallOK(d)
    BY DEF CodexInvariant
  <2>3. pc[d] \in Holding => lock' = lock
    <3>1. pc[d] \in Holding => lock = d
      BY <2>2 DEF CallOK, HolderIsAlone
    <3>2. None \notin Call
      BY HandoffAssumption
    <3> QED
      BY <1>2, <3>1, <3>2
  <2> QED
    BY <2>1, <2>2, <2>3 DEF CallOK, JobIsPrepared, HolderIsAlone, ClaimIsOnRecord,
       CheckedInScope, VerifiedInScope, Job, TaskNow
<1>3. OneOutcome'
  <2>1. ASSUME NEW d \in Call, pc'[d] \in Claimed
        PROVE  pc[d] \in Claimed /\ local'[d].job = Job(d)
    BY <2>1 DEF CodexInvariant, TypeOK, Job
  <2> QED
    BY <2>1 DEF CodexInvariant, OneOutcome, Job
<1>4. LandedIsDirty' /\ ExecutedIsInScope'
  BY DEF CodexInvariant, LandedIsDirty, ExecutedIsInScope
<1> QED
  BY <1>1, <1>2, <1>3, <1>4 DEF CodexInvariant

\* Before the promotion: a place at which no lock is held and nothing is reported yet.
Working == {"probing", "running", "measured", "scoped", "patched"}

LEMMA WorkKeeps ==
    ASSUME CodexInvariant, NEW c \in Call, NEW place \in Working, NEW l \in Local,
           CallMoves(c, place, l), lock' = lock,
           pc[c] \in Claimed \ {"removing"}, l.job = Job(c), l.checked \subseteq Scope[Job(c)]
    PROVE  CodexInvariant'
<1>1. place \in Places /\ place \in Claimed /\ place # "idle" /\ place # "removing"
      /\ place \notin Holding /\ place \notin {"committing", "repairing", "reporting"}
  BY DEF Working, Places, Claimed, Holding, Window
<1>2. pc[c] # "idle" /\ Job(c) \in Handoff /\ l.job # None
  BY CallsAreTyped, HandoffAssumption DEF CodexInvariant, Claimed, Window
<1>3. pc'[c] = place /\ local'[c] = l
  BY DEF CodexInvariant, TypeOK, CallMoves
<1>4. CallOK(c)'
  BY <1>1, <1>2, <1>3 DEF CodexInvariant, CallOK, JobIsPrepared, HolderIsAlone, ClaimIsOnRecord,
     CheckedInScope, VerifiedInScope, Job, CallMoves, handoffVars, Holding
<1> QED
  BY <1>1, <1>2, <1>4, MoveKeeps

\* A call fails: it gives up its lock and keeps its hand-off.
LEMMA FailKeeps ==
    ASSUME CodexInvariant, NEW c \in Call, NEW place \in {"reporting", "repairing", "committing"},
           pc[c] \in Claimed \ {"removing"}, CallMoves(c, place, Failing(c)[c]),
           place = "committing" => pc[c] \in Window /\ lock' = lock
    PROVE  CodexInvariant'
<1> DEFINE l == [NoLocal EXCEPT !.job = Job(c), !.good = FALSE]
<1>1. pc[c] # "idle" /\ Job(c) \in Handoff /\ Job(c) # None
  BY CallsAreTyped, HandoffAssumption DEF CodexInvariant, Claimed, Window
<1>2. l \in Local /\ l.job = Job(c) /\ l.good = FALSE /\ l.checked = {}
  BY <1>1, RecordsAreTyped
<1>3. Failing(c)[c] = l
  BY DEF Failing, Job, CodexInvariant, TypeOK
<1>4. place \in Places /\ place \in Claimed /\ place # "idle" /\ place # "removing"
      /\ (place \in Holding => place = "committing")
  BY DEF Places, Claimed, Holding, Window
<1> HIDE DEF l
<1>5. pc'[c] = place /\ local'[c] = l
  BY <1>3 DEF CodexInvariant, TypeOK, CallMoves
<1>6. CallOK(c)'
  BY <1>1, <1>2, <1>4, <1>5 DEF CodexInvariant, CallOK, JobIsPrepared, HolderIsAlone,
     ClaimIsOnRecord, CheckedInScope, VerifiedInScope, Job, CallMoves, handoffVars, taskVars,
     Holding, TaskNow
<1> QED
  BY <1>1, <1>2, <1>3, <1>4, <1>6, MoveKeeps

\* A call ends.
LEMMA LeaveKeeps ==
    ASSUME CodexInvariant, NEW c \in Call, CallMoves(c, "idle", NoLocal)
    PROVE  CodexInvariant'
<1>1. "idle" \in Places /\ "idle" \notin Claimed /\ "idle" \notin Holding
      /\ NoLocal \in Local /\ NoLocal.job = None
  BY RecordsAreTyped DEF Places, Claimed, Holding, Window
<1>2. pc'[c] = "idle"
  BY DEF CodexInvariant, TypeOK, CallMoves
<1>3. CallOK(c)'
  BY <1>1, <1>2 DEF CallOK, JobIsPrepared, HolderIsAlone, ClaimIsOnRecord, CheckedInScope,
     VerifiedInScope, Holding
<1> QED
  BY <1>1, <1>3, MoveKeeps

----------------------------------------------------------------------------
(* The steps of a call that only move. *)

LEMMA FailedIsAMove ==
    ASSUME TypeOK, NEW c \in Call
    PROVE  Failing(c) = [local EXCEPT ![c] = Failing(c)[c]]
BY DEF TypeOK, Failing

LEMMA AuthorizeKeeps ==
    ASSUME CodexInvariant, NEW c \in Call, NEW h \in Handoff, Authorize(c, h)
    PROVE  CodexInvariant'
<1> DEFINE l == Fresh(h, TaskNow)
<1>1. l \in Local /\ l.job = h /\ l.checked = {} /\ h # None
  <2>1. TaskNow \in Fingerprint
    BY DEF CodexInvariant, TypeOK, TaskNow, Fingerprint
  <2> QED
    BY <2>1, RecordsAreTyped, HandoffAssumption
<1> HIDE DEF l
<1>2. CallMoves(c, "claiming", l)
  BY DEF Authorize, Goto, CallMoves, l
<1>3. "claiming" \in Places /\ "claiming" \notin Claimed /\ "claiming" \notin Holding
  BY DEF Places, Claimed, Holding, Window
<1>4. pc'[c] = "claiming" /\ local'[c] = l
  BY <1>2 DEF CodexInvariant, TypeOK, CallMoves
<1>5. CallOK(c)'
  BY <1>1, <1>2, <1>3, <1>4 DEF Authorize, CallOK, JobIsPrepared, HolderIsAlone, ClaimIsOnRecord,
     CheckedInScope, VerifiedInScope, Job, CallMoves, handoffVars, Holding
<1> QED
  BY <1>1, <1>2, <1>3, <1>5, MoveKeeps

LEMMA WorkingKeeps ==
    ASSUME CodexInvariant, NEW c \in Call,
           \/ Provision(c) \/ ProbePasses(c) \/ CheckIntegrity(c) \/ CodexWrites(c)
           \/ CheckScope(c) \/ GeneratePatch(c)
    PROVE  CodexInvariant'
<1> USE DEF Goto, CallMoves
<1>1. local[c] \in Local /\ head \in 0..MaxHead
  BY CallsAreTyped DEF CodexInvariant, TypeOK
<1>2. pc[c] \in Working \cup {"claimed"} => local[c].checked \subseteq Scope[Job(c)]
  BY DEF CodexInvariant, CallOK, CheckedInScope, Working
<1>3. Working \cup {"claimed"} \subseteq Claimed \ {"removing"}
  BY DEF Working, Claimed
<1>4. local = [local EXCEPT ![c] = local[c]] /\ pc = [pc EXCEPT ![c] = pc[c]]
  BY DEF CodexInvariant, TypeOK
<1>5. CASE Provision(c)
  <2>1. [local[c] EXCEPT !.at = head] \in Local
    BY <1>1 DEF Local
  <2>2. CallMoves(c, "probing", [local[c] EXCEPT !.at = head]) /\ lock' = lock /\ pc[c] = "claimed"
    BY <1>5 DEF Provision
  <2> QED
    BY <1>1, <1>2, <1>3, <2>1, <2>2, WorkKeeps DEF Working, Local, Job
<1>6. CASE ProbePasses(c)
  <2>1. CallMoves(c, "running", local[c]) /\ lock' = lock /\ pc[c] = "probing"
    BY <1>4, <1>6 DEF ProbePasses
  <2> QED
    BY <1>1, <1>2, <1>3, <2>1, WorkKeeps DEF Working, Job
<1>7. CASE CheckIntegrity(c)
  <2>1. CallMoves(c, "measured", local[c]) /\ lock' = lock /\ pc[c] = "running"
    BY <1>4, <1>7 DEF CheckIntegrity
  <2> QED
    BY <1>1, <1>2, <1>3, <2>1, WorkKeeps DEF Working, Job
<1>8. CASE CodexWrites(c)
  <2>1. PICK paths \in SUBSET Path : local' = [local EXCEPT ![c].changed = paths]
    BY <1>8 DEF CodexWrites
  <2>2. [local[c] EXCEPT !.changed = paths] \in Local
    BY <1>1 DEF Local
  <2>3. /\ CallMoves(c, pc[c], [local[c] EXCEPT !.changed = paths]) /\ lock' = lock
        /\ pc[c] \in Working
    BY <1>4, <1>8, <2>1 DEF CodexWrites, Working
  <2> QED
    BY <1>1, <1>2, <1>3, <2>2, <2>3, WorkKeeps DEF Local, Job
<1>9. CASE CheckScope(c)
  <2>1. [local[c] EXCEPT !.checked = local[c].changed] \in Local
    BY <1>1 DEF Local
  <2>2. /\ CallMoves(c, "scoped", [local[c] EXCEPT !.checked = local[c].changed])
        /\ lock' = lock /\ pc[c] = "measured" /\ local[c].changed \subseteq Scope[Job(c)]
    BY <1>9 DEF CheckScope, InScope, Job
  <2> QED
    BY <1>1, <1>3, <2>1, <2>2, WorkKeeps DEF Working, Local, Job
<1>10. CASE GeneratePatch(c)
  <2>1. [local[c] EXCEPT !.patch = local[c].changed] \in Local
    BY <1>1 DEF Local
  <2>2. /\ CallMoves(c, "patched", [local[c] EXCEPT !.patch = local[c].changed])
        /\ lock' = lock /\ pc[c] = "scoped"
    BY <1>10 DEF GeneratePatch
  <2> QED
    BY <1>1, <1>2, <1>3, <2>1, <2>2, WorkKeeps DEF Working, Local, Job
<1> QED
  BY <1>5, <1>6, <1>7, <1>8, <1>9, <1>10

\* The task is locked and compared, and stays as compared until the lock is given up.
LEMMA HoldKeeps ==
    ASSUME CodexInvariant, NEW c \in Call, NEW place \in Holding \ {"committing"},
           pc[c] \in Claimed \ {"removing"}, CallMoves(c, place, local[c]), lock' = c,
           task # "ended" /\ TaskNow = prepared[Job(c)].task,
           place \in Window => vstatus # "passed"
    PROVE  CodexInvariant'
<1>1. place \in Places /\ place \in Claimed /\ place \notin {"idle", "removing", "repairing", "reporting"}
  BY DEF Places, Claimed, Holding, Window
<1>2. pc[c] # "idle" /\ local[c] \in Local /\ local[c].job # None
  BY CallsAreTyped, HandoffAssumption DEF CodexInvariant, Claimed, Window, Job
<1>3. pc'[c] = place /\ local'[c] = local[c]
  BY DEF CodexInvariant, TypeOK, CallMoves
<1>4. CallOK(c)'
  BY <1>1, <1>2, <1>3 DEF CodexInvariant, CallOK, JobIsPrepared, HolderIsAlone, ClaimIsOnRecord,
     CheckedInScope, VerifiedInScope, Job, CallMoves, handoffVars, taskVars, TaskNow
<1> QED
  BY <1>1, <1>2, <1>4, MoveKeeps DEF Job

LEMMA PromotingKeeps ==
    ASSUME CodexInvariant, NEW c \in Call,
           LockTask(c) \/ GuardPrimary(c) \/ ApplyCheck(c) \/ VerifyPrimary(c)
    PROVE  CodexInvariant'
<1> USE DEF Goto, CallMoves
<1>1. local = [local EXCEPT ![c] = local[c]] /\ Failing(c) = [local EXCEPT ![c] = Failing(c)[c]]
  BY FailedIsAMove DEF CodexInvariant, TypeOK
<1>2. {"patched", "guarding"} \cup Window \subseteq Claimed \ {"removing"}
      /\ {"marked", "applying", "applied"} \subseteq (Holding \ {"committing"}) \cap Window
  BY DEF Claimed, Window, Holding
<1>3. CallOK(c)
  BY DEF CodexInvariant
<1>4. CASE LockTask(c)
  <2>1. /\ CallMoves(c, "guarding", local[c]) /\ lock' = c /\ pc[c] = "patched"
        /\ task # "ended" /\ TaskNow = prepared[Job(c)].task
    BY <1>1, <1>4 DEF LockTask, Free, Job
  <2> QED
    BY <1>2, <2>1, HoldKeeps DEF Holding, Window
<1>5. CASE GuardPrimary(c)
  <2>1. pc[c] = "guarding" /\ lock = c /\ task # "ended" /\ TaskNow = prepared[Job(c)].task
    BY <1>3, <1>5 DEF GuardPrimary, CallOK, HolderIsAlone, Holding
  <2>2. CASE Promotable(c)
    <3>1. CallMoves(c, "marked", local[c]) /\ lock' = c /\ vstatus # "passed"
      BY <1>1, <1>5, <2>1, <2>2 DEF GuardPrimary, Promotable
    <3> QED
      BY <1>2, <2>1, <3>1, HoldKeeps
  <2>3. CASE ~Promotable(c)
    <3>1. CallMoves(c, "reporting", Failing(c)[c])
      BY <1>1, <1>5, <2>1, <2>3 DEF GuardPrimary, Fail
    <3> QED
      BY <1>2, <2>1, <3>1, FailKeeps
  <2> QED
    BY <2>2, <2>3
<1>6. CASE ApplyCheck(c)
  <2>1. /\ pc[c] = "marked" /\ lock = c /\ task # "ended" /\ vstatus # "passed"
        /\ TaskNow = prepared[Job(c)].task
    BY <1>3, <1>6 DEF ApplyCheck, CallOK, HolderIsAlone, Holding, Window
  <2>2. CASE CallMoves(c, "applying", local[c]) /\ lock' = c
    BY <1>2, <2>1, <2>2, HoldKeeps
  <2>3. CASE CallMoves(c, "committing", Failing(c)[c]) /\ lock' = lock
    BY <1>2, <2>1, <2>3, FailKeeps DEF Window
  <2> QED
    BY <1>1, <1>6, <2>1, <2>2, <2>3 DEF ApplyCheck, Decide
<1>7. CASE VerifyPrimary(c)
  <2>1. pc[c] = "applied" /\ lock' = lock
    BY <1>7 DEF VerifyPrimary
  <2>2. CASE CallMoves(c, "committing", Failing(c)[c])
    BY <1>2, <2>1, <2>2, FailKeeps DEF Window
  <2>3. CASE CallMoves(c, "committing", local[c]) /\ Verified(c)
    <3>1. /\ "committing" \in Places /\ "committing" \in Claimed \cap Holding \cap Window
          /\ "applied" \in Claimed \cap Holding \cap Window
      BY DEF Places, Claimed, Holding, Window
    <3>2. Job(c) \in Handoff /\ local[c] \in Local /\ Job(c) # None
      BY <2>1, CallsAreTyped, HandoffAssumption DEF CodexInvariant
    <3>3. landed[Job(c)] \subseteq Scope[Job(c)]
      <4>1. Reported(dirty) \subseteq Scope[Job(c)] /\ Scope[Job(c)] \subseteq Path
        BY <1>3, <2>1, <2>3, <3>2, HandoffAssumption DEF Verified, CallOK, CheckedInScope
      <4>2. dirty \cap newDir = {} /\ dirty \subseteq Scope[Job(c)]
        BY <4>1, HandoffAssumption DEF Reported
      <4> QED
        BY <3>2, <4>2 DEF CodexInvariant, LandedIsDirty
    <3>4. pc'[c] = "committing" /\ local'[c] = local[c]
      BY <2>3 DEF CodexInvariant, TypeOK
    <3>5. CallOK(c)'
      BY <1>3, <2>1, <2>3, <3>1, <3>3, <3>4 DEF CallOK, JobIsPrepared, HolderIsAlone,
         ClaimIsOnRecord, CheckedInScope, VerifiedInScope, Job, handoffVars, taskVars, TaskNow
    <3> QED
      BY <2>1, <2>3, <3>1, <3>2, <3>5, MoveKeeps DEF Job
  <2>4. PICK hold \in Postconditions : Decide(c, Verified(c) /\ hold)
    BY <1>7 DEF VerifyPrimary
  <2> QED
    BY <1>1, <1>7, <2>1, <2>2, <2>3, <2>4 DEF VerifyPrimary, Decide
<1> QED
  BY <1>4, <1>5, <1>6, <1>7

LEMMA FailingKeeps ==
    ASSUME CodexInvariant, NEW c \in Call, CodexFails(c) \/ Refused(c) \/ RollBack(c) \/ Die(c)
    PROVE  CodexInvariant'
<1> USE DEF Goto, CallMoves
<1>1. Failing(c) = [local EXCEPT ![c] = Failing(c)[c]]
  BY FailedIsAMove DEF CodexInvariant
<1>2. {"claimed", "patched"} \cup Working \cup Window \subseteq Claimed \ {"removing"}
  BY DEF Claimed, Window, Working
<1>3. CASE CodexFails(c) \/ Refused(c)
  <2>1. CallMoves(c, "reporting", Failing(c)[c]) /\ pc[c] \in {"claimed", "patched"} \cup Working
    BY <1>1, <1>3 DEF CodexFails, Refused, Fail, Working
  <2> QED
    BY <1>2, <2>1, FailKeeps
<1>4. CASE RollBack(c)
  <2>1. pc[c] \in Window /\ lock = c
    BY <1>4 DEF RollBack, CodexInvariant, CallOK, HolderIsAlone, Holding
  <2>2. CallMoves(c, "repairing", Failing(c)[c])
    BY <1>1, <1>4, <2>1 DEF RollBack
  <2> QED
    BY <1>2, <2>1, <2>2, FailKeeps
<1>5. CASE Die(c)
  <2>1. CallMoves(c, "idle", NoLocal)
    BY <1>5 DEF Die, Leave
  <2> QED
    BY <2>1, LeaveKeeps
<1> QED
  BY <1>3, <1>4, <1>5

----------------------------------------------------------------------------
(* The steps of a call that write. *)

LEMMA ClaimKeeps ==
    ASSUME CodexInvariant, NEW c \in Call, Claim(c)
    PROVE  CodexInvariant'
<1> USE DEF Goto
<1>1. pc[c] = "claiming" /\ Job(c) \in Handoff /\ pc[c] \notin Claimed
  BY CallsAreTyped DEF Claim, CodexInvariant, Claimed, Window
<1>2. CASE ~Unclaimed(Job(c))
  <2>1. CallMoves(c, "idle", NoLocal)
    BY <1>2 DEF Claim, Leave, CallMoves, Job, handoffVars
  <2> QED
    BY <2>1, LeaveKeeps
<1>3. CASE Unclaimed(Job(c))
  <2>1. /\ events' = [events EXCEPT ![Job(c)] = @ \cup {"STARTED"}]
        /\ pc' = [pc EXCEPT ![c] = "claimed"] /\ local' = local /\ lock' = lock
        /\ UNCHANGED <<primaryVars, taskVars, prepared, landed, removed>>
    BY <1>3 DEF Claim, Job
  <2>2. "claimed" \in Claimed /\ "claimed" \notin Holding \cup {"committing", "repairing", "reporting", "removing"}
    BY DEF Claimed, Holding, Window
  <2>3. TypeOK'
    BY <1>1, <2>1, <2>2 DEF CodexInvariant, TypeOK, Event, primaryVars, taskVars
  <2>4. events[Job(c)] \cap {"STARTED", "EXECUTED", "FAILED"} = {}
    BY <1>3 DEF Unclaimed
  <2>5. ASSUME NEW d \in Call, d # c, pc[d] \in Claimed PROVE Job(d) # Job(c)
    BY <2>4, <2>5 DEF CodexInvariant, CallOK, ClaimIsOnRecord
  <2>6. \A h \in Handoff : /\ h # Job(c) => events'[h] = events[h]
                           /\ events'[Job(c)] = events[Job(c)] \cup {"STARTED"}
    BY <1>1, <2>1 DEF CodexInvariant, TypeOK
  <2>7. ASSUME NEW d \in Call PROVE CallOK(d)'
    <3>1. CASE d = c
      <4>1. pc'[c] = "claimed" /\ local'[c] = local[c] /\ pc[c] # "idle"
        BY <1>1, <2>1 DEF CodexInvariant, TypeOK
      <4> QED
        BY <1>1, <2>1, <2>2, <2>4, <2>6, <3>1, <4>1 DEF CodexInvariant, CallOK, JobIsPrepared,
           HolderIsAlone, ClaimIsOnRecord, CheckedInScope, VerifiedInScope, Job, Holding
    <3>2. CASE d # c
      <4>1. pc'[d] = pc[d] /\ local'[d] = local[d] /\ CallOK(d)
        BY <2>1, <3>2 DEF CodexInvariant, TypeOK
      <4>2. pc[d] \in Claimed => Job(d) \in Handoff /\ events'[Job(d)] = events[Job(d)]
        BY <2>5, <2>6, <3>2, CallsAreTyped DEF CodexInvariant, Claimed, Window
      <4>3. "removing" \in Claimed
        BY DEF Claimed
      <4> QED
        BY <2>1, <4>1, <4>2, <4>3 DEF CallOK, JobIsPrepared, HolderIsAlone, ClaimIsOnRecord,
           CheckedInScope, VerifiedInScope, Job, TaskNow, taskVars
    <3> QED
      BY <3>1, <3>2
  <2>8. OneOutcome'
    <3>1. \A d \in Call : d # c => pc'[d] = pc[d]
      BY <2>1 DEF CodexInvariant, TypeOK
    <3> QED
      BY <2>1, <2>4, <2>5, <2>6, <3>1 DEF CodexInvariant, OneOutcome, Job
  <2>9. LandedIsDirty' /\ ExecutedIsInScope'
    BY <2>1, <2>6 DEF CodexInvariant, LandedIsDirty, ExecutedIsInScope, primaryVars
  <2> QED
    BY <2>3, <2>7, <2>8, <2>9 DEF CodexInvariant
<1> QED
  BY <1>2, <1>3

\* A git apply writes a part of the patch into the primary.
LEMMA ApplyKeeps ==
    ASSUME CodexInvariant, NEW c \in Call, Apply(c)
    PROVE  CodexInvariant'
<1> USE DEF Goto
<1>1. pc[c] = "applying" /\ Job(c) \in Handoff /\ local[c] \in Local /\ CallOK(c)
  BY CallsAreTyped DEF Apply, CodexInvariant
<1>2. PICK part \in SUBSET local[c].patch :
        /\ dirty' = dirty \cup part
        /\ landed' = [landed EXCEPT ![Job(c)] = @ \cup part]
        /\ \/ part = local[c].patch /\ pc' = [pc EXCEPT ![c] = "applied"] /\ UNCHANGED local
           \/ pc' = [pc EXCEPT ![c] = "committing"] /\ local' = Failing(c)
  BY <1>1 DEF Apply, Decide, Job
<1>3. /\ UNCHANGED <<head, newDir, taskVars, prepared, events, removed, lock>>
      /\ part \subseteq Path
  BY <1>1 DEF Apply, Local
<1> DEFINE l == [NoLocal EXCEPT !.job = Job(c), !.good = FALSE]
<1>4. l \in Local /\ l.job = Job(c) /\ l.good = FALSE /\ l.checked = {} /\ Job(c) # None
  BY <1>1, RecordsAreTyped, HandoffAssumption
<1>5. Failing(c) = [local EXCEPT ![c] = l]
  BY DEF Failing, Job
<1> HIDE DEF l
<1>6. /\ {"applying", "applied", "committing"} \subseteq Claimed \cap Window \cap Holding \cap Places
      /\ {"applying", "applied", "committing"} \subseteq Claimed \ {"idle", "removing"}
  BY DEF Claimed, Window, Holding, Places
<1>7. /\ pc' \in [Call -> Places] /\ local' \in [Call -> Local]
      /\ \A d \in Call : d # c => pc'[d] = pc[d] /\ local'[d] = local[d]
      /\ Job(c)' = Job(c)
      /\ \/ pc'[c] = "applied" /\ local'[c] = local[c]
         \/ pc'[c] = "committing" /\ local'[c] = l
  BY <1>1, <1>2, <1>4, <1>5, <1>6 DEF CodexInvariant, TypeOK, Job, Places
<1>8. TypeOK'
  <2>1. \A d \in Call : (pc'[d] = "idle") = (local'[d].job = None)
    BY <1>1, <1>4, <1>6, <1>7 DEF CodexInvariant, TypeOK, Job
  <2> QED
    BY <1>1, <1>2, <1>3, <1>7, <2>1 DEF CodexInvariant, TypeOK, Places, taskVars
<1>9. \A h \in Handoff : landed'[h] = IF h = Job(c) THEN landed[h] \cup part ELSE landed[h]
  BY <1>1, <1>2 DEF CodexInvariant, TypeOK
<1>10. ASSUME NEW d \in Call, d # c, pc[d] \in Claimed PROVE Job(d) # Job(c)
  BY <1>1, <1>6, <1>10 DEF CodexInvariant, OneOutcome, Job
<1>11. ASSUME NEW d \in Call PROVE CallOK(d)'
  <2>1. CASE d = c
    BY <1>1, <1>3, <1>4, <1>6, <1>7, <2>1 DEF CallOK, JobIsPrepared, HolderIsAlone,
       ClaimIsOnRecord, CheckedInScope, VerifiedInScope, Job, TaskNow, taskVars
  <2>2. CASE d # c
    <3>1. pc'[d] = pc[d] /\ local'[d] = local[d] /\ CallOK(d)
      BY <1>7, <2>2 DEF CodexInvariant
    <3>2. pc[d] \in {"committing", "repairing", "reporting"} => landed'[Job(d)] = landed[Job(d)]
      BY <1>9, <1>10, <2>2, CallsAreTyped DEF CodexInvariant, Claimed, Window
    <3> QED
      BY <1>3, <3>1, <3>2 DEF CallOK, JobIsPrepared, HolderIsAlone, ClaimIsOnRecord,
         CheckedInScope, VerifiedInScope, Job, TaskNow, taskVars
  <2> QED
    BY <2>1, <2>2
<1>12. LandedIsDirty'
  BY <1>2, <1>9 DEF CodexInvariant, LandedIsDirty
<1>13. OneOutcome'
  BY <1>1, <1>3, <1>6, <1>7 DEF CodexInvariant, OneOutcome, Job
<1>14. ExecutedIsInScope'
  <2>1. "EXECUTED" \notin events[Job(c)]
    BY <1>1, <1>6 DEF CallOK, ClaimIsOnRecord
  <2> QED
    BY <1>3, <1>9, <2>1 DEF CodexInvariant, ExecutedIsInScope
<1> QED
  BY <1>8, <1>11, <1>12, <1>13, <1>14 DEF CodexInvariant

\* Pending is committed, or written by the repair: the task is read by others again.
LEMMA PendingKeeps ==
    ASSUME CodexInvariant, NEW c \in Call, CommitPromotion(c) \/ Repair(c)
    PROVE  CodexInvariant'
<1>1. pc[c] \in {"committing", "repairing"} /\ CallOK(c)
  BY DEF CommitPromotion, Repair, CodexInvariant
<1>2. /\ pc' = [pc EXCEPT ![c] = "reporting"] /\ local' = local
      /\ vstatus' = vstatus \/ (vstatus' = "pending" /\ lock \in {None, c})
      /\ lock' = lock \/ (lock = c /\ lock' = None)
      /\ UNCHANGED <<primaryVars, task, doc, review, handoffVars>>
  <2>1. pc[c] = "committing" => lock = c
    BY <1>1 DEF CallOK, HolderIsAlone, Holding, Window
  <2> QED
    BY <2>1 DEF CommitPromotion, Repair, Goto, Free
<1>3. /\ "reporting" \in Places \cap Claimed /\ "reporting" \notin Holding \cup Window
      /\ {"committing", "repairing"} \subseteq Claimed \ {"idle", "removing"}
  BY DEF Places, Claimed, Holding, Window
<1>4. /\ pc' \in [Call -> Places] /\ pc'[c] = "reporting"
      /\ \A d \in Call : d # c => pc'[d] = pc[d]
  BY <1>2, <1>3 DEF CodexInvariant, TypeOK, Places
<1>5. TypeOK'
  BY <1>1, <1>2, <1>3, <1>4 DEF CodexInvariant, TypeOK, Places, Status, primaryVars, handoffVars
<1>6. ASSUME NEW d \in Call PROVE CallOK(d)'
  <2>1. CASE d = c
    BY <1>1, <1>2, <1>3, <1>4, <2>1 DEF CallOK, JobIsPrepared, HolderIsAlone, ClaimIsOnRecord,
       CheckedInScope, VerifiedInScope, Job, handoffVars
  <2>2. CASE d # c
    <3>1. pc'[d] = pc[d] /\ CallOK(d) /\ None \notin Call
      BY <1>4, <2>2, HandoffAssumption DEF CodexInvariant
    <3>2. pc[d] \in Holding => lock' = d /\ vstatus' = vstatus
      BY <1>2, <2>2, <3>1 DEF CallOK, HolderIsAlone
    <3>3. pc[d] \in Window => pc[d] \in Holding
      BY DEF Holding
    <3> QED
      BY <1>2, <3>1, <3>2, <3>3 DEF CallOK, JobIsPrepared, HolderIsAlone, ClaimIsOnRecord,
         CheckedInScope, VerifiedInScope, Job, TaskNow, handoffVars
  <2> QED
    BY <2>1, <2>2
<1>7. OneOutcome'
  BY <1>1, <1>2, <1>3, <1>4 DEF CodexInvariant, OneOutcome, handoffVars
<1>8. LandedIsDirty' /\ ExecutedIsInScope'
  BY <1>2 DEF CodexInvariant, LandedIsDirty, ExecutedIsInScope, primaryVars, handoffVars
<1> QED
  BY <1>5, <1>6, <1>7, <1>8 DEF CodexInvariant

\* The outcome is put on record, by the call that has the hand-off.
LEMMA ReportKeeps ==
    ASSUME CodexInvariant, NEW c \in Call, Report(c)
    PROVE  CodexInvariant'
<1> USE DEF Goto
<1> DEFINE outcome == IF local[c].good THEN "EXECUTED" ELSE "FAILED"
           place == IF local[c].good THEN "removing" ELSE "idle"
           l == IF local[c].good THEN local[c] ELSE NoLocal
<1>1. /\ pc[c] = "reporting" /\ pc[c] \in Claimed \ {"idle", "removing"}
      /\ Job(c) \in Handoff /\ local[c] \in Local /\ Job(c) # None /\ CallOK(c)
  BY CallsAreTyped, HandoffAssumption DEF Report, MayReport, CodexInvariant, Claimed
<1>2. /\ events' = [events EXCEPT ![Job(c)] = @ \cup {outcome}]
      /\ pc' = [pc EXCEPT ![c] = place] /\ local' = [local EXCEPT ![c] = l]
      /\ UNCHANGED <<primaryVars, taskVars, prepared, landed, removed, lock>>
  BY DEF Report, Leave, Job, CodexInvariant, TypeOK
<1>3. l \in Local /\ (place = "idle") = (l.job = None) /\ place \in Places
      /\ (place = "removing" => l.job = Job(c))
  BY <1>1, RecordsAreTyped DEF Places, Claimed, Job
<1>4. outcome \in {"EXECUTED", "FAILED"} /\ (outcome = "EXECUTED") = (place = "removing")
      /\ place \in {"idle", "removing"} /\ (outcome = "EXECUTED" => local[c].good)
  OBVIOUS
<1>5. "removing" \in Claimed /\ "idle" \notin Claimed /\ {"idle", "removing"} \cap Holding = {}
  BY DEF Claimed, Holding, Window
<1> HIDE DEF outcome, place, l
<1>6. /\ pc' \in [Call -> Places] /\ local' \in [Call -> Local]
      /\ pc'[c] = place /\ local'[c] = l
      /\ \A d \in Call : d # c => pc'[d] = pc[d] /\ local'[d] = local[d]
  BY <1>2, <1>3 DEF CodexInvariant, TypeOK, Places
<1>7. /\ \A h \in Handoff : h # Job(c) => events'[h] = events[h]
      /\ events'[Job(c)] = events[Job(c)] \cup {outcome}
  BY <1>1, <1>2 DEF CodexInvariant, TypeOK
<1>8. TypeOK'
  <2>1. \A d \in Call : (pc'[d] = "idle") = (local'[d].job = None)
    BY <1>3, <1>6 DEF CodexInvariant, TypeOK
  <2> QED
    BY <1>1, <1>2, <1>4, <1>6, <2>1 DEF CodexInvariant, TypeOK, Places, Event, primaryVars, taskVars
<1>9. ASSUME NEW d \in Call, d # c, pc[d] \in Claimed
      PROVE  Job(d) # Job(c) /\ Job(d) \in Handoff
  BY <1>1, <1>9, CallsAreTyped DEF CodexInvariant, OneOutcome, Job, Claimed, Window
<1>10. ASSUME NEW d \in Call PROVE CallOK(d)'
  <2>1. CASE d = c
    <3>1. place = "removing" => l = local[c]
      BY DEF place, l
    <3> QED
      BY <1>1, <1>2, <1>4, <1>5, <1>6, <1>7, <2>1, <3>1 DEF CallOK, JobIsPrepared, HolderIsAlone,
         ClaimIsOnRecord, CheckedInScope, VerifiedInScope, Job, Holding
  <2>2. CASE d # c
    <3>1. pc'[d] = pc[d] /\ local'[d] = local[d] /\ CallOK(d)
      BY <1>6, <2>2 DEF CodexInvariant
    <3>2. pc[d] \in Claimed => events'[Job(d)] = events[Job(d)]
      BY <1>7, <1>9, <2>2
    <3> QED
      BY <1>2, <1>5, <3>1, <3>2 DEF CallOK, JobIsPrepared, HolderIsAlone,
         ClaimIsOnRecord, CheckedInScope, VerifiedInScope, Job, TaskNow, taskVars
  <2> QED
    BY <2>1, <2>2
<1>11. events[Job(c)] \cap {"EXECUTED", "FAILED"} = {}
  BY <1>1 DEF CallOK, ClaimIsOnRecord
<1>12. OneOutcome'
  <2>1. ASSUME NEW d \in Call, NEW e \in Call, pc'[d] \in Claimed, pc'[e] \in Claimed, d # e
        PROVE  local'[d].job # local'[e].job
    BY <1>1, <1>3, <1>4, <1>5, <1>6, <1>9, <2>1 DEF CodexInvariant, OneOutcome, Job
  <2>2. ASSUME NEW h \in Handoff
        PROVE  ~({"EXECUTED", "FAILED"} \subseteq events'[h]) /\ (h \in removed' => "EXECUTED" \in events'[h])
    BY <1>2, <1>4, <1>7, <1>11 DEF CodexInvariant, OneOutcome
  <2> QED
    BY <2>1, <2>2 DEF OneOutcome
<1>13. ExecutedIsInScope'
  BY <1>1, <1>2, <1>4, <1>7 DEF CodexInvariant, ExecutedIsInScope, CallOK, VerifiedInScope
<1>14. LandedIsDirty'
  BY <1>2 DEF CodexInvariant, LandedIsDirty, primaryVars
<1> QED
  BY <1>8, <1>10, <1>12, <1>13, <1>14 DEF CodexInvariant

\* The worktree goes, or a warning is put on record.
LEMMA RemoveKeeps ==
    ASSUME CodexInvariant, NEW c \in Call, RemoveTree(c)
    PROVE  CodexInvariant'
<1>1. /\ pc[c] = "removing" /\ pc[c] \in Claimed \ {"idle"} /\ Job(c) \in Handoff /\ CallOK(c)
  BY CallsAreTyped DEF RemoveTree, MayRemove, CodexInvariant, Claimed
<1>2. /\ pc' = [pc EXCEPT ![c] = "idle"] /\ local' = [local EXCEPT ![c] = NoLocal]
      /\ UNCHANGED <<primaryVars, taskVars, prepared, landed, lock>>
      /\ removed' \subseteq removed \cup {Job(c)} /\ removed \subseteq removed'
      /\ events' \in [Handoff -> SUBSET Event]
      /\ \A h \in Handoff : events'[h] \in {events[h], events[h] \cup {"CLEANUP_FAILED"}}
  BY <1>1 DEF RemoveTree, Leave, Goto, Job, CodexInvariant, TypeOK, Event
<1>3. "idle" \notin Claimed \cup Holding \cup Window /\ "idle" \in Places
      /\ NoLocal \in Local /\ NoLocal.job = None
  BY RecordsAreTyped DEF Claimed, Holding, Window, Places
<1>4. /\ pc' \in [Call -> Places] /\ local' \in [Call -> Local] /\ pc'[c] = "idle"
      /\ local'[c] = NoLocal
      /\ \A d \in Call : d # c => pc'[d] = pc[d] /\ local'[d] = local[d]
  BY <1>2, <1>3 DEF CodexInvariant, TypeOK, Places
<1>5. TypeOK'
  <2>1. \A d \in Call : (pc'[d] = "idle") = (local'[d].job = None)
    BY <1>3, <1>4 DEF CodexInvariant, TypeOK
  <2> QED
    BY <1>1, <1>2, <1>4, <2>1 DEF CodexInvariant, TypeOK, Places, primaryVars, taskVars
<1>6. ASSUME NEW d \in Call PROVE CallOK(d)'
  <2>1. CASE d = c
    BY <1>3, <1>4, <2>1 DEF CallOK, JobIsPrepared, HolderIsAlone, ClaimIsOnRecord, CheckedInScope,
       VerifiedInScope
  <2>2. CASE d # c
    <3>1. pc'[d] = pc[d] /\ local'[d] = local[d] /\ CallOK(d)
      BY <1>4, <2>2 DEF CodexInvariant
    <3>2. pc[d] \in Claimed => Job(d) \in Handoff
      BY CallsAreTyped, <1>3 DEF CodexInvariant
    <3>3. "removing" \in Claimed
      BY DEF Claimed
    <3> QED
      BY <1>2, <3>1, <3>2, <3>3 DEF CallOK, JobIsPrepared, HolderIsAlone, ClaimIsOnRecord,
         CheckedInScope, VerifiedInScope, Job, TaskNow, taskVars
  <2> QED
    BY <2>1, <2>2
<1>7. OneOutcome'
  BY <1>1, <1>2, <1>3, <1>4 DEF CodexInvariant, OneOutcome, Job, CallOK, ClaimIsOnRecord
<1>8. LandedIsDirty' /\ ExecutedIsInScope'
  BY <1>2 DEF CodexInvariant, LandedIsDirty, ExecutedIsInScope, primaryVars
<1> QED
  BY <1>5, <1>6, <1>7, <1>8 DEF CodexInvariant

----------------------------------------------------------------------------
(* The others, and the whole. *)

LEMMA OthersKeep ==
    ASSUME CodexInvariant, TypeOK', UNCHANGED <<events, removed, lock, callVars>>,
           \A h \in Handoff : landed'[h] \subseteq landed[h] /\ landed'[h] \subseteq dirty',
           \A h \in Handoff : prepared[h] # None => prepared'[h] = prepared[h],
           lock = None \/ (vstatus' = vstatus /\ doc' = doc /\ (task' = "ended" => task = "ended"))
    PROVE  CodexInvariant'
<1>1. ASSUME NEW d \in Call PROVE CallOK(d)'
  <2>1. pc'[d] = pc[d] /\ local'[d] = local[d] /\ CallOK(d) /\ None \notin Call
    BY HandoffAssumption DEF CodexInvariant, callVars
  <2>2. pc[d] # "idle" => /\ Job(d) \in Handoff
                          /\ prepared'[Job(d)] = prepared[Job(d)] /\ prepared[Job(d)] # None
                          /\ landed'[Job(d)] \subseteq landed[Job(d)]
    BY <2>1, CallsAreTyped DEF CodexInvariant, CallOK, JobIsPrepared
  <2>3. "idle" \notin Holding \cup {"committing", "repairing", "reporting"} /\ Window \subseteq Holding
    BY DEF Holding, Window
  <2> QED
    BY <2>1, <2>2, <2>3 DEF CallOK, JobIsPrepared, HolderIsAlone, ClaimIsOnRecord, CheckedInScope,
       VerifiedInScope, Job, TaskNow
<1>2. OneOutcome' /\ LandedIsDirty' /\ ExecutedIsInScope'
  BY DEF CodexInvariant, OneOutcome, LandedIsDirty, ExecutedIsInScope, callVars
<1> QED
  BY <1>1, <1>2 DEF CodexInvariant

LEMMA OtherStepsKeep ==
    ASSUME CodexInvariant, Others \/ (\E h \in Handoff : Prepare(h))
    PROVE  CodexInvariant'
<1> USE DEF primaryVars, taskVars, handoffVars, callVars
<1>1. LandedIsDirty /\ TypeOK
  BY DEF CodexInvariant
<1>2. CASE \E p \in Path : Edit(p)
  <2>1. TypeOK'
    BY <1>1, <1>2 DEF Edit, TypeOK
  <2> QED
    BY <1>1, <1>2, <2>1, OthersKeep DEF Edit, LandedIsDirty
<1>3. CASE Discard \/ Commit
  <2>1. TypeOK'
    <3>1. /\ head' \in 0..MaxHead /\ newDir' \in SUBSET Path
          /\ dirty' = {} /\ landed' \in [Handoff -> SUBSET Path]
      BY <1>1, <1>3, HandoffAssumption DEF Discard, Commit, Settled, TypeOK
    <3>2. UNCHANGED <<taskVars, prepared, events, removed, lock, callVars>>
      BY <1>3 DEF Discard, Commit
    <3> QED
      BY <1>1, <3>1, <3>2 DEF TypeOK
  <2> QED
    BY <1>3, <2>1, OthersKeep DEF Discard, Commit, Settled
<1>4. CASE EndSession \/ BindSession \/ EndTask
  <2>1. TypeOK'
    BY <1>1, <1>4 DEF EndSession, BindSession, EndTask, TypeOK
  <2> QED
    BY <1>1, <1>4, <2>1, OthersKeep DEF EndSession, BindSession, EndTask, LandedIsDirty, Free
<1>5. CASE Checkpoint \/ RequestReview \/ Invalidate \/ \E outcome \in {"passed", "failed"} : Verdict(outcome)
  <2>1. TypeOK'
    BY <1>1, <1>5, HandoffAssumption DEF Checkpoint, RequestReview, Invalidate, Verdict, TypeOK, Status
  <2> QED
    BY <1>1, <1>5, <2>1, OthersKeep DEF Checkpoint, RequestReview, Invalidate, Verdict, LandedIsDirty, Free
<1>6. ASSUME NEW h \in Handoff, Prepare(h) PROVE CodexInvariant'
  <2>1. [task |-> TaskNow, head |-> head] \in Contract
    BY <1>1 DEF TypeOK, Contract, TaskNow, Fingerprint
  <2>2. TypeOK'
    BY <1>1, <1>6, <2>1 DEF Prepare, TypeOK
  <2> QED
    BY <1>1, <1>6, <2>2, OthersKeep DEF Prepare, LandedIsDirty, Free, TypeOK
<1> QED
  BY <1>2, <1>3, <1>4, <1>5, <1>6 DEF Others

LEMMA CodexNext == CodexInvariant /\ [Next]_vars => CodexInvariant'
<1> SUFFICES ASSUME CodexInvariant, [Next]_vars PROVE CodexInvariant'
  OBVIOUS
<1>1. CASE UNCHANGED vars
  BY <1>1, OthersKeep DEF vars, primaryVars, taskVars, handoffVars, callVars, CodexInvariant,
     TypeOK, LandedIsDirty
<1>2. ASSUME NEW c \in Call, Progress(c) \/ CodexWrites(c) \/ Die(c) PROVE CodexInvariant'
  BY <1>2, ClaimKeeps, WorkingKeeps, PromotingKeeps, FailingKeeps, ApplyKeeps, PendingKeeps,
     ReportKeeps, RemoveKeeps DEF Progress
<1> QED
  BY <1>1, <1>2, AuthorizeKeeps, OtherStepsKeep DEF Next

\* A holder of the rows has compared the task, and nobody else can write it.
LEMMA InvariantIsExclusive == CodexInvariant => WindowIsExclusive
BY DEF CodexInvariant, CallOK, HolderIsAlone, WindowIsExclusive, Holding, Job

\* The states of codex_handoff.py are typed, whoever interferes.
THEOREM CodexTypeCorrect == Spec => []TypeOK
<1>1. CodexInvariant => TypeOK
  BY DEF CodexInvariant
<1> QED
  BY <1>1, CodexInit, CodexNext, PTL DEF Spec

\* What codex_handoff.py reports as executed has written nothing out of its
\* scope, although processes of Codex may write after the check of the scope.
THEOREM ExecutedStaysInScope == Spec => []ExecutedIsInScope
<1>1. CodexInvariant => ExecutedIsInScope
  BY DEF CodexInvariant
<1> QED
  BY <1>1, CodexInit, CodexNext, PTL DEF Spec

\* One call executes a contract of codex_handoff.py, with one outcome, and the
\* worktree is removed only when that is on record, for any number of calls.
THEOREM HandoffsHaveOneOutcome == Spec => []OneOutcome
<1>1. CodexInvariant => OneOutcome
  BY DEF CodexInvariant
<1> QED
  BY <1>1, CodexInit, CodexNext, PTL DEF Spec

\* The task of a promotion is neither passed, ended nor rewritten while
\* codex_handoff.py writes into the primary workspace.
THEOREM PromotionsAreExclusive == Spec => []WindowIsExclusive
<1> QED
  BY InvariantIsExclusive, CodexInit, CodexNext, PTL DEF Spec

----------------------------------------------------------------------------
(* The hand-off as contracted work: the refinement of ContractedWork.      *)

\* A claim is filed only under a hand-off that has a contract.
RecordIsPrepared == \A h \in Handoff : prepared[h] = None => events[h] = {}

ContractInvariant == CodexInvariant /\ RecordIsPrepared

LEMMA RecordStep == ContractInvariant /\ CodexInvariant' /\ [Next]_vars => RecordIsPrepared'
<1> SUFFICES ASSUME ContractInvariant, CodexInvariant', [Next]_vars PROVE RecordIsPrepared'
  OBVIOUS
<1> USE DEF ContractInvariant
<1>1. CASE UNCHANGED <<prepared, events>>
  BY <1>1 DEF RecordIsPrepared
<1>2. ASSUME NEW h \in Handoff, Prepare(h) PROVE RecordIsPrepared'
  <2>1. /\ prepared[h] = None /\ events' = events
        /\ \A i \in Handoff : i # h => prepared'[i] = prepared[i]
    BY <1>2 DEF Prepare, CodexInvariant, TypeOK
  <2> QED
    BY <2>1 DEF RecordIsPrepared
<1>3. ASSUME NEW c \in Call, Claim(c) \/ Report(c) \/ RemoveTree(c) PROVE RecordIsPrepared'
  <2>1. /\ pc[c] # "idle" /\ prepared' = prepared /\ Job(c) \in Handoff
        /\ \A h \in Handoff : h # Job(c) => events'[h] = events[h]
    <3>1. pc[c] # "idle"
      BY <1>3 DEF Claim, Report, MayReport, RemoveTree, MayRemove
    <3>2. prepared' = prepared
      BY <1>3 DEF Claim, Report, RemoveTree, handoffVars
    <3>3. \/ events' = events
          \/ \E event : events' = [events EXCEPT ![Job(c)] = @ \cup {event}]
      BY <1>3 DEF Claim, Report, RemoveTree, Job
    <3>4. \A h \in Handoff : h # Job(c) => events'[h] = events[h]
      BY <3>3 DEF CodexInvariant, TypeOK
    <3> QED
      BY <3>1, <3>2, <3>4, CallsAreTyped DEF CodexInvariant
  <2>2. prepared[Job(c)] # None
    BY <2>1 DEF CodexInvariant, CallOK, JobIsPrepared
  <2> QED
    BY <2>1, <2>2 DEF RecordIsPrepared
<1>4. ASSUME NEW c \in Call, Progress(c) \/ CodexWrites(c) \/ Die(c)
      PROVE  Claim(c) \/ Report(c) \/ RemoveTree(c) \/ UNCHANGED <<prepared, events>>
  BY <1>4 DEF Progress, CodexWrites, Die, Provision, ProbePasses, CheckIntegrity, CheckScope,
     GeneratePatch, CodexFails, Refused, LockTask, GuardPrimary, ApplyCheck, Apply, VerifyPrimary,
     CommitPromotion, RollBack, Repair, handoffVars
<1>5. (\E c \in Call, h \in Handoff : Authorize(c, h)) \/ Others => UNCHANGED <<prepared, events>>
  BY DEF Authorize, Others, Edit, Discard, Commit, EndSession, BindSession, EndTask, Checkpoint,
     RequestReview, Invalidate, Verdict, handoffVars
<1>6. UNCHANGED vars => UNCHANGED <<prepared, events>>
  BY DEF vars, handoffVars
<1> QED
  BY <1>1, <1>2, <1>3, <1>4, <1>5, <1>6 DEF Next

\* How far the work of a call at a place is, and that of a hand-off no call is at.
StageAt(place) ==
    IF place \in Window THEN "entering" ELSE IF place = "removing" THEN "done" ELSE "taken"

StageLeft(h) ==
    IF "EXECUTED" \in events[h] THEN "done"
    ELSE IF "FAILED" \in events[h] THEN "failed"
    ELSE IF "STARTED" \in events[h] THEN "taken"
    ELSE IF prepared[h] # None THEN "open" ELSE "none"

\* A call that has claimed a hand-off is its only worker, and its place the stage.
WorkIsSeen ==
    /\ Stages = [h \in Handoff |-> StageOf(h)] /\ DOMAIN Workers = Handoff
    /\ \A c \in Call : pc[c] \in Claimed =>
          Job(c) \in Handoff /\ Workers[Job(c)] = c /\ Stages[Job(c)] = StageAt(pc[c])
    /\ \A h \in Handoff : (\A c \in Call : pc[c] \in Claimed => Job(c) # h) =>
          Workers[h] = None /\ Stages[h] = StageLeft(h)

LEMMA SeenNow == CodexInvariant => WorkIsSeen
<1> SUFFICES ASSUME CodexInvariant PROVE WorkIsSeen
  OBVIOUS
<1>1. Window \subseteq Claimed \ {"idle", "removing"} /\ "idle" \notin Claimed
  BY DEF Window, Claimed
<1>2. ASSUME NEW c \in Call, pc[c] \in Claimed
      PROVE  Job(c) \in Handoff /\ Workers[Job(c)] = c /\ Stages[Job(c)] = StageAt(pc[c])
  <2>1. Job(c) \in Handoff
    BY <1>1, <1>2, CallsAreTyped DEF CodexInvariant
  <2>2. \A d \in Call : pc[d] \in Claimed /\ Job(d) = Job(c) => d = c
    BY <1>2 DEF CodexInvariant, OneOutcome, Job
  <2>3. WorkersOf(Job(c)) = {c}
    BY <1>2, <2>2 DEF WorkersOf, Job
  <2>4. Workers[Job(c)] = c
    BY <2>1, <2>3 DEF Workers, WorkerOf
  <2>5. IsEntering(Job(c)) <=> pc[c] \in Window
    BY <1>1, <1>2, <2>2 DEF IsEntering, Job
  <2>6. CallOK(c)
    BY DEF CodexInvariant
  <2>7. StageOf(Job(c)) = StageAt(pc[c])
    BY <1>1, <1>2, <2>5, <2>6 DEF StageOf, StageAt, CallOK, ClaimIsOnRecord
  <2> QED
    BY <2>1, <2>4, <2>7 DEF Stages
<1>3. ASSUME NEW h \in Handoff, \A c \in Call : pc[c] \in Claimed => Job(c) # h
      PROVE  Workers[h] = None /\ Stages[h] = StageLeft(h)
  <2>1. WorkersOf(h) = {} /\ ~IsEntering(h)
    BY <1>1, <1>3 DEF WorkersOf, IsEntering, Job
  <2> QED
    BY <2>1 DEF Workers, WorkerOf, Stages, StageOf, StageLeft
<1> QED
  BY <1>2, <1>3 DEF WorkIsSeen, Stages, Workers

LEMMA SeenNext == CodexInvariant' => WorkIsSeen'
BY SeenNow, PTL

\* Who brings work in holds the rows of the task.
LEMMA EnteringHolds ==
    ASSUME CodexInvariant, NEW h \in Handoff, Stages[h] = "entering"
    PROVE  \E c \in Call : pc[c] \in Window /\ lock = c
<1>1. IsEntering(h)
  BY DEF Stages, StageOf
<1> QED
  BY <1>1 DEF IsEntering, CodexInvariant, CallOK, HolderIsAlone, Holding

LEMMA NobodyEnters ==
    ASSUME CodexInvariant, lock = None \/ (\E c \in Call : lock = c /\ pc[c] \notin Window)
    PROVE  Contracts!Entering = {}
BY EnteringHolds, HandoffAssumption DEF Contracts!Entering

----------------------------------------------------------------------------
(* What a step of one call changes of the work. *)

\* A step of call c, about hand-off j or about none.
StepOf(c, j) ==
    /\ \A d \in Call : d # c => pc'[d] = pc[d] /\ local'[d] = local[d]
    /\ \A h \in Handoff \ {j} : events'[h] = events[h]
    /\ prepared' = prepared

LEMMA ElsewhereStays ==
    ASSUME CodexInvariant, CodexInvariant', NEW c \in Call, NEW j, StepOf(c, j),
           pc[c] \in Claimed => Job(c) = j, pc'[c] \in Claimed => Job(c)' = j
    PROVE  /\ \A h \in Handoff \ {j} : Stages'[h] = Stages[h] /\ Workers'[h] = Workers[h]
           /\ Agreed' = Agreed
<1>1. WorkIsSeen /\ WorkIsSeen'
  BY SeenNow, SeenNext
<1>2. ASSUME NEW h \in Handoff \ {j} PROVE Stages'[h] = Stages[h] /\ Workers'[h] = Workers[h]
  <2>1. CASE \E d \in Call : pc[d] \in Claimed /\ Job(d) = h
    <3>1. PICK d \in Call : pc[d] \in Claimed /\ Job(d) = h
      BY <2>1
    <3>2. d # c
      BY <1>2, <3>1
    <3>3. pc'[d] = pc[d] /\ Job(d)' = Job(d)
      BY <3>2 DEF StepOf, Job
    <3>4. Workers[h] = d /\ Stages[h] = StageAt(pc[d])
      BY <1>1, <3>1 DEF WorkIsSeen
    <3>5. Workers'[h] = d /\ Stages'[h] = StageAt(pc[d])
      BY <1>1, <3>1, <3>3 DEF WorkIsSeen, StageAt
    <3> QED
      BY <3>4, <3>5
  <2>2. CASE \A d \in Call : pc[d] \in Claimed => Job(d) # h
    <3>1. \A d \in Call : pc'[d] \in Claimed => Job(d)' # h
      BY <1>2, <2>2 DEF StepOf, Job
    <3>2. StageLeft(h)' = StageLeft(h)
      BY <1>2 DEF StepOf, StageLeft
    <3> QED
      BY <1>1, <1>2, <2>2, <3>1, <3>2 DEF WorkIsSeen
  <2> QED
    BY <2>1, <2>2
<1> QED
  BY <1>2 DEF StepOf, Agreed

\* A call that has claimed a hand-off and keeps it moves its stage, at most.
LEMMA WorkerMoves ==
    ASSUME CodexInvariant, CodexInvariant', NEW c \in Call, NEW j, StepOf(c, j),
           pc[c] \in Claimed, Job(c) = j, pc'[c] \in Claimed, Job(c)' = j
    PROVE  /\ j \in Handoff /\ Workers[j] = c /\ Stages[j] = StageAt(pc[c])
           /\ Stages' = [Stages EXCEPT ![j] = StageAt(pc'[c])]
           /\ Workers' = Workers /\ Agreed' = Agreed
<1>1. WorkIsSeen /\ WorkIsSeen'
  BY SeenNow, SeenNext
<1>2. j \in Handoff /\ Workers[j] = c /\ Stages[j] = StageAt(pc[c])
  BY <1>1 DEF WorkIsSeen
<1>3. Workers'[j] = c /\ Stages'[j] = StageAt(pc'[c])
  BY <1>1 DEF WorkIsSeen, StageAt
<1>4. /\ \A h \in Handoff \ {j} : Stages'[h] = Stages[h] /\ Workers'[h] = Workers[h]
      /\ Agreed' = Agreed
  BY ElsewhereStays
<1> QED
  BY <1>2, <1>3, <1>4 DEF Stages, Workers

\* A call that leaves its hand-off leaves it at the stage that is on record.
LEMMA WorkerGoes ==
    ASSUME CodexInvariant, CodexInvariant', NEW c \in Call, NEW j, StepOf(c, j),
           pc[c] \in Claimed, Job(c) = j, pc'[c] \notin Claimed
    PROVE  /\ j \in Handoff /\ Workers[j] = c /\ c # None /\ Stages[j] = StageAt(pc[c])
           /\ Stages' = [Stages EXCEPT ![j] = StageLeft(j)']
           /\ Workers' = [Workers EXCEPT ![j] = None] /\ Agreed' = Agreed
<1>1. WorkIsSeen /\ WorkIsSeen'
  BY SeenNow, SeenNext
<1>2. j \in Handoff /\ Workers[j] = c /\ Stages[j] = StageAt(pc[c]) /\ c # None
  BY <1>1, HandoffAssumption DEF WorkIsSeen
<1>3. \A d \in Call : d # c /\ pc[d] \in Claimed => Job(d) # j
  BY DEF CodexInvariant, OneOutcome, Job
<1>4. \A d \in Call : pc'[d] \in Claimed => Job(d)' # j
  BY <1>3 DEF StepOf, Job
<1>5. Workers'[j] = None /\ Stages'[j] = StageLeft(j)'
  BY <1>1, <1>2, <1>4 DEF WorkIsSeen
<1>6. /\ \A h \in Handoff \ {j} : Stages'[h] = Stages[h] /\ Workers'[h] = Workers[h]
      /\ Agreed' = Agreed
  BY ElsewhereStays
<1> QED
  BY <1>2, <1>5, <1>6 DEF Stages, Workers

\* The rest of what the abstract work consists of.
Around == <<landed, removed, taskVars>>

LEMMA AroundIsSeen ==
    ASSUME UNCHANGED Around
    PROVE  UNCHANGED <<landed, removed, TaskNow, task = "ended" \/ vstatus = "passed">>
BY DEF Around, taskVars, TaskNow

\* Where a call goes on within a stage, or has claimed nothing, nothing is seen.
LEMMA WorkStutters ==
    ASSUME CodexInvariant, CodexInvariant', NEW c \in Call, StepOf(c, None), UNCHANGED Around,
           \/ pc[c] \notin Claimed /\ pc'[c] \notin Claimed
           \/ /\ pc[c] \in Claimed /\ pc'[c] \in Claimed /\ Job(c)' = Job(c)
              /\ StageAt(pc'[c]) = StageAt(pc[c])
    PROVE  UNCHANGED Contracts!vars
<1>1. PICK j : j = Job(c)
  OBVIOUS
<1>2. Stages' = Stages /\ Workers' = Workers /\ Agreed' = Agreed
  <2>1. CASE pc[c] \notin Claimed /\ pc'[c] \notin Claimed
    <3>1. /\ \A h \in Handoff \ {None} : Stages'[h] = Stages[h] /\ Workers'[h] = Workers[h]
          /\ Agreed' = Agreed
      BY <2>1, ElsewhereStays
    <3> QED
      BY <3>1, HandoffAssumption DEF Stages, Workers
  <2>2. CASE pc[c] \in Claimed /\ pc'[c] \in Claimed /\ Job(c)' = j /\ StageAt(pc'[c]) = StageAt(pc[c])
    <3>1. StepOf(c, j)
      BY HandoffAssumption DEF StepOf
    <3>2. /\ j \in Handoff /\ Workers[j] = c /\ Stages[j] = StageAt(pc[c])
          /\ Stages' = [Stages EXCEPT ![j] = StageAt(pc'[c])]
          /\ Workers' = Workers /\ Agreed' = Agreed
      BY <1>1, <2>2, <3>1, WorkerMoves
    <3> QED
      BY <2>2, <3>2 DEF Stages
  <2> QED
    BY <1>1, <2>1, <2>2
<1> QED
  BY <1>2, AroundIsSeen DEF Contracts!vars

----------------------------------------------------------------------------
(* Each step, seen as a step of the contracted work. *)

Refines == Contracts!Next \/ UNCHANGED Contracts!vars

\* What a place says of the stage of the work.
LEMMA StagesOfPlaces ==
    /\ "idle" \notin Claimed /\ "claiming" \notin Claimed /\ Window \subseteq Claimed
    /\ \A place \in Claimed \ ({"removing"} \cup Window) : StageAt(place) = "taken"
    /\ \A place \in Window : StageAt(place) = "entering"
    /\ StageAt("removing") = "done" /\ "removing" \in Claimed
    /\ {"claimed", "patched", "guarding", "repairing", "reporting"} \cup Working
         \subseteq Claimed \ ({"removing"} \cup Window)
BY DEF Claimed, Window, StageAt, Working

\* A call that moves, and leaves the record as it is.
LEMMA MovesOnly ==
    ASSUME CodexInvariant, NEW c \in Call, NEW l, UNCHANGED <<prepared, events>>,
           \A d \in Call : d # c => pc'[d] = pc[d],
           local' = [local EXCEPT ![c] = l] \/ local' = local
    PROVE  /\ \A j : StepOf(c, j)
           /\ local' = local => Job(c)' = Job(c)
           /\ local' = [local EXCEPT ![c] = l] => Job(c)' = l.job
BY DEF StepOf, CodexInvariant, TypeOK, Job

\* Within the work on a hand-off: nothing of it is seen.
LEMMA WorkingRefines ==
    ASSUME CodexInvariant, CodexInvariant', NEW c \in Call,
           \/ Provision(c) \/ ProbePasses(c) \/ CheckIntegrity(c) \/ CodexWrites(c)
           \/ CheckScope(c) \/ GeneratePatch(c) \/ CodexFails(c) \/ Refused(c) \/ LockTask(c)
    PROVE  Refines
<1>1. /\ UNCHANGED Around /\ UNCHANGED <<prepared, events>>
      /\ pc' \in {[pc EXCEPT ![c] = place] : place \in {"probing", "running", "measured", "scoped", "patched",
                     "reporting", "guarding"}} \/ pc' = pc
  BY DEF Provision, ProbePasses, CheckIntegrity, CodexWrites, CheckScope, GeneratePatch, CodexFails,
     Refused, LockTask, Fail, Goto, Around, handoffVars
<1>2. /\ pc[c] \in {"claimed", "patched"} \cup Working
      /\ pc'[c] \in {"patched", "reporting", "guarding"} \cup Working
  <2>1. pc[c] \in {"claimed", "patched"} \cup Working
    BY DEF Provision, ProbePasses, CheckIntegrity, CodexWrites, CheckScope, GeneratePatch, CodexFails,
       Refused, LockTask, Working
  <2> QED
    BY <1>1, <2>1 DEF CodexInvariant, TypeOK, Working, CodexWrites, Provision, ProbePasses, CheckIntegrity,
       CheckScope, GeneratePatch, CodexFails, Refused, LockTask, Fail, Goto
<1>3. Job(c)' = Job(c) /\ \A d \in Call : d # c => local'[d] = local[d]
  <2>1. Failing(c)[c].job = Job(c) /\ Failing(c) = [local EXCEPT ![c] = Failing(c)[c]]
    BY FailedIsAMove DEF CodexInvariant, TypeOK, Failing, Job, NoLocal, Fresh
  <2> QED
    BY <2>1 DEF Provision, ProbePasses, CheckIntegrity, CodexWrites, CheckScope, GeneratePatch, CodexFails,
       Refused, LockTask, Fail, CodexInvariant, TypeOK, Job, Local
<1>4. StepOf(c, None)
  BY <1>1, <1>3 DEF StepOf, CodexInvariant, TypeOK
<1>5. UNCHANGED Contracts!vars
  BY <1>1, <1>2, <1>3, <1>4, StagesOfPlaces, WorkStutters
<1> QED
  BY <1>5 DEF Refines

LEMMA AuthorizeRefines ==
    ASSUME CodexInvariant, CodexInvariant', NEW c \in Call, NEW h \in Handoff, Authorize(c, h)
    PROVE  Refines
<1>1. /\ UNCHANGED Around /\ StepOf(c, None)
      /\ pc[c] = "idle" /\ pc'[c] = "claiming"
  BY DEF Authorize, Goto, Around, handoffVars, StepOf, CodexInvariant, TypeOK
<1>2. UNCHANGED Contracts!vars
  BY <1>1, StagesOfPlaces, WorkStutters
<1> QED
  BY <1>2 DEF Refines

\* The claim takes the work, or finds it taken.
LEMMA ClaimRefines ==
    ASSUME ContractInvariant, CodexInvariant', NEW c \in Call, Claim(c)
    PROVE  Refines
<1> USE DEF ContractInvariant
<1>1. /\ pc[c] = "claiming" /\ UNCHANGED Around /\ prepared' = prepared
      /\ \A d \in Call : d # c => pc'[d] = pc[d] /\ local'[d] = local[d]
  BY DEF Claim, Leave, Goto, Around, CodexInvariant, TypeOK
<1>2. CASE ~Unclaimed(Job(c))
  <2>1. events' = events /\ pc'[c] = "idle"
    BY <1>2 DEF Claim, Leave, Goto, Job, CodexInvariant, TypeOK
  <2>2. UNCHANGED Contracts!vars
    BY <1>1, <2>1, StagesOfPlaces, WorkStutters DEF StepOf
  <2> QED
    BY <2>2 DEF Refines
<1>3. CASE Unclaimed(Job(c))
  <2>1. PICK j \in Handoff : j = Job(c)
    BY <1>1, CallsAreTyped DEF CodexInvariant
  <2>2. /\ events' = [events EXCEPT ![j] = @ \cup {"STARTED"}]
        /\ pc'[c] = "claimed" /\ local' = local
    BY <1>3, <2>1 DEF Claim, Goto, Job, CodexInvariant, TypeOK
  <2>3. StepOf(c, j) /\ Job(c)' = j
    BY <1>1, <2>1, <2>2 DEF StepOf, Job, CodexInvariant, TypeOK
  <2>4. /\ \A h \in Handoff \ {j} : Stages'[h] = Stages[h] /\ Workers'[h] = Workers[h]
        /\ Agreed' = Agreed
    BY <1>1, <2>3, ElsewhereStays, StagesOfPlaces
  <2>5. WorkIsSeen /\ WorkIsSeen'
    BY SeenNow, SeenNext
  <2>6. \A d \in Call : pc[d] \in Claimed => Job(d) # j
    BY <1>3, <2>1 DEF Unclaimed, CodexInvariant, CallOK, ClaimIsOnRecord
  <2>7. Workers[j] = None /\ Stages[j] = "open"
    <3>1. StageLeft(j) = "open"
      BY <1>1, <1>3, <2>1 DEF StageLeft, Unclaimed, CodexInvariant, CallOK, JobIsPrepared
    <3> QED
      BY <2>5, <2>6, <3>1 DEF WorkIsSeen
  <2>8. Workers'[j] = c /\ Stages'[j] = "taken"
    BY <2>2, <2>3, <2>5, StagesOfPlaces DEF WorkIsSeen
  <2>9. \A h \in Handoff : Workers[h] # c
    <3> SUFFICES ASSUME NEW h \in Handoff, Workers[h] = c PROVE FALSE
      OBVIOUS
    <3>1. CASE \E d \in Call : pc[d] \in Claimed /\ Job(d) = h
      <4>1. PICK d \in Call : pc[d] \in Claimed /\ Job(d) = h
        BY <3>1
      <4>2. Workers[h] = d
        BY <2>5, <4>1 DEF WorkIsSeen
      <4> QED
        BY <1>1, <4>1, <4>2, StagesOfPlaces
    <3>2. CASE \A d \in Call : pc[d] \in Claimed => Job(d) # h
      BY <2>5, <3>2, HandoffAssumption DEF WorkIsSeen
    <3> QED
      BY <3>1, <3>2
  <2>10. /\ Stages' = [Stages EXCEPT ![j] = "taken"] /\ Workers' = [Workers EXCEPT ![j] = c]
    <3>1. Stages' = [Stages EXCEPT ![j] = "taken"]
      BY <2>4, <2>8 DEF Stages
    <3>2. Workers' = [Workers EXCEPT ![j] = c]
      BY <2>4, <2>8 DEF Workers
    <3> QED
      BY <3>1, <3>2
  <2>11. Contracts!Take(c, j)
    BY <1>1, <2>4, <2>7, <2>9, <2>10, AroundIsSeen DEF Contracts!Take, Contracts!Moves
  <2> QED
    BY <2>11 DEF Refines, Contracts!Next
<1> QED
  BY <1>2, <1>3

\* The guard of the primary is where bringing in begins.
LEMMA GuardRefines ==
    ASSUME CodexInvariant, CodexInvariant', NEW c \in Call, GuardPrimary(c)
    PROVE  Refines
<1>1. PICK j : j = Job(c)
  OBVIOUS
<1>2. /\ pc[c] = "guarding" /\ lock = c /\ task # "ended" /\ TaskNow = prepared[j].task
      /\ prepared[j] # None /\ j \in Handoff
  BY <1>1, CallsAreTyped DEF GuardPrimary, CodexInvariant, CallOK, HolderIsAlone, JobIsPrepared, Holding
<1>3. UNCHANGED Around /\ UNCHANGED <<prepared, events>>
  BY DEF GuardPrimary, Around, handoffVars
<1>4. Failing(c)[c].job = j /\ Failing(c) = [local EXCEPT ![c] = Failing(c)[c]]
  BY <1>1, FailedIsAMove DEF CodexInvariant, TypeOK, Failing, Job, NoLocal, Fresh
<1>5. CASE ~Promotable(c)
  <2>1. pc'[c] = "reporting" /\ StepOf(c, None) /\ Job(c)' = j
    BY <1>1, <1>3, <1>4, <1>5 DEF GuardPrimary, Fail, Goto, StepOf, CodexInvariant, TypeOK, Job
  <2>2. UNCHANGED Contracts!vars
    BY <1>1, <1>2, <1>3, <2>1, StagesOfPlaces, WorkStutters
  <2> QED
    BY <2>2 DEF Refines
<1>6. CASE Promotable(c)
  <2>1. pc'[c] = "marked" /\ StepOf(c, j) /\ Job(c)' = j /\ vstatus # "passed"
    BY <1>1, <1>3, <1>6 DEF GuardPrimary, Promotable, Goto, StepOf, CodexInvariant, TypeOK, Job
  <2>2. "marked" \in Window /\ "guarding" \notin Window
    BY DEF Window
  <2>3. /\ Workers[j] = c /\ Stages[j] = "taken"
        /\ Stages' = [Stages EXCEPT ![j] = "entering"]
        /\ Workers' = Workers /\ Agreed' = Agreed
    BY <1>1, <1>2, <2>1, <2>2, StagesOfPlaces, WorkerMoves
  <2>4. Contracts!Entering = {}
    BY <1>2, <2>2, NobodyEnters
  <2>5. Agreed[j] = TaskNow /\ c # None
    BY <1>2, HandoffAssumption DEF Agreed
  <2>6. Contracts!Enter(j)
    BY <1>2, <1>3, <2>1, <2>3, <2>4, <2>5, AroundIsSeen DEF Contracts!Enter, Contracts!Moves
  <2> QED
    BY <1>2, <2>6 DEF Refines, Contracts!Next
<1> QED
  BY <1>5, <1>6

\* Within the promotion only git apply is seen.
LEMMA WindowRefines ==
    ASSUME CodexInvariant, CodexInvariant', NEW c \in Call, ApplyCheck(c) \/ VerifyPrimary(c) \/ Apply(c)
    PROVE  Refines
<1>1. PICK j : j = Job(c)
  OBVIOUS
<1>2. Failing(c)[c].job = j /\ Failing(c) = [local EXCEPT ![c] = Failing(c)[c]]
  BY <1>1, FailedIsAMove DEF CodexInvariant, TypeOK, Failing, Job, NoLocal, Fresh
<1>3. /\ pc[c] \in Window /\ UNCHANGED <<prepared, events, removed, taskVars>>
      /\ \E place \in Window : pc' = [pc EXCEPT ![c] = place]
      /\ local' = local \/ local' = Failing(c)
  BY DEF ApplyCheck, VerifyPrimary, Apply, Decide, Goto, Window, handoffVars
<1>4. pc'[c] \in Window /\ Job(c)' = j /\ \A i : StepOf(c, i)
  BY <1>1, <1>2, <1>3 DEF StepOf, CodexInvariant, TypeOK, Job
<1>5. CASE landed' = landed
  <2>1. UNCHANGED Contracts!vars
    BY <1>1, <1>3, <1>4, <1>5, StagesOfPlaces, WorkStutters DEF Around
  <2> QED
    BY <2>1 DEF Refines
<1>6. CASE Apply(c)
  <2>1. PICK part \in SUBSET local[c].patch : landed' = [landed EXCEPT ![j] = @ \cup part]
    BY <1>1, <1>6 DEF Apply, Job
  <2>2. part \in SUBSET Path
    BY <2>1, CallsAreTyped DEF CodexInvariant, Local
  <2>3. /\ j \in Handoff /\ Stages[j] = "entering"
        /\ Stages' = [Stages EXCEPT ![j] = "entering"]
        /\ Workers' = Workers /\ Agreed' = Agreed
    BY <1>1, <1>3, <1>4, StagesOfPlaces, WorkerMoves
  <2>4. Stages' = Stages
    BY <2>3 DEF Stages
  <2>5. UNCHANGED <<TaskNow, task = "ended" \/ vstatus = "passed">>
    BY <1>3 DEF taskVars, TaskNow
  <2>6. Contracts!Write(j)
    BY <1>3, <2>1, <2>2, <2>3, <2>4, <2>5 DEF Contracts!Write
  <2> QED
    BY <2>3, <2>6 DEF Refines, Contracts!Next
<1> QED
  BY <1>5, <1>6 DEF ApplyCheck, VerifyPrimary, handoffVars

\* The promotion is over when the rows are given up, with pending written or not.
LEMMA LeavingWindowRefines ==
    ASSUME CodexInvariant, CodexInvariant', NEW c \in Call, CommitPromotion(c) \/ RollBack(c)
    PROVE  Refines
<1>1. PICK j : j = Job(c)
  OBVIOUS
<1>2. Failing(c)[c].job = j /\ Failing(c) = [local EXCEPT ![c] = Failing(c)[c]]
  BY <1>1, FailedIsAMove DEF CodexInvariant, TypeOK, Failing, Job, NoLocal, Fresh
<1>3. /\ pc[c] \in Window /\ UNCHANGED <<prepared, events, landed, removed, task>>
      /\ \E place \in {"reporting", "repairing"} : pc' = [pc EXCEPT ![c] = place]
      /\ local' = local \/ local' = Failing(c)
      /\ vstatus' = vstatus \/ vstatus' = "pending"
  BY DEF CommitPromotion, RollBack, Goto, Window, handoffVars, taskVars
<1>4. pc'[c] \in {"reporting", "repairing"} /\ Job(c)' = j /\ StepOf(c, j)
  BY <1>1, <1>2, <1>3 DEF StepOf, CodexInvariant, TypeOK, Job
<1>5. vstatus # "passed" /\ vstatus' # "passed"
  BY <1>3 DEF CodexInvariant, CallOK, HolderIsAlone
<1>6. /\ j \in Handoff /\ Stages[j] = "entering"
      /\ Stages' = [Stages EXCEPT ![j] = "taken"]
      /\ Workers' = Workers /\ Agreed' = Agreed
  BY <1>1, <1>3, <1>4, StagesOfPlaces, WorkerMoves
<1>7. Contracts!Exit(j)
  BY <1>3, <1>5, <1>6 DEF Contracts!Exit, Contracts!Moves
<1> QED
  BY <1>6, <1>7 DEF Refines, Contracts!Next

\* The repair writes pending while nobody brings anything in.
LEMMA RepairRefines ==
    ASSUME CodexInvariant, CodexInvariant', NEW c \in Call, Repair(c)
    PROVE  Refines
<1>1. PICK j : j = Job(c)
  OBVIOUS
<1>2. /\ pc[c] = "repairing" /\ pc'[c] = "reporting" /\ local' = local
      /\ UNCHANGED <<prepared, events, landed, removed, task, doc, review>>
      /\ vstatus' = vstatus \/ lock = None
      /\ StepOf(c, j) /\ StepOf(c, None)
  BY DEF Repair, Free, Goto, handoffVars, StepOf, CodexInvariant, TypeOK
<1>3. CASE vstatus' = vstatus
  <2>1. UNCHANGED Contracts!vars
    BY <1>2, <1>3, StagesOfPlaces, WorkStutters DEF Around, taskVars, Job
  <2> QED
    BY <2>1 DEF Refines
<1>4. CASE lock = None
  <2>1. /\ j \in Handoff /\ Stages[j] = "taken"
        /\ Stages' = [Stages EXCEPT ![j] = "taken"]
        /\ Workers' = Workers /\ Agreed' = Agreed
    BY <1>1, <1>2, StagesOfPlaces, WorkerMoves DEF Job
  <2>2. Stages' = Stages
    BY <2>1 DEF Stages
  <2>3. Contracts!Change
    BY <1>2, <1>4, <2>1, <2>2, NobodyEnters DEF Contracts!Change
  <2> QED
    BY <2>3 DEF Refines, Contracts!Next
<1> QED
  BY <1>2, <1>3, <1>4

\* The outcome is put on record once, and what succeeded is in scope.
LEMMA ReportRefines ==
    ASSUME CodexInvariant, CodexInvariant', NEW c \in Call, Report(c)
    PROVE  Refines
<1>1. PICK j \in Handoff : j = Job(c)
  BY CallsAreTyped DEF Report, MayReport, CodexInvariant
<1>2. /\ pc[c] = "reporting" /\ UNCHANGED Around /\ prepared' = prepared
      /\ \A d \in Call : d # c => pc'[d] = pc[d] /\ local'[d] = local[d]
      /\ \A h \in Handoff \ {j} : events'[h] = events[h]
      /\ events'[j] = events[j] \cup {IF local[c].good THEN "EXECUTED" ELSE "FAILED"}
  BY <1>1 DEF Report, MayReport, Leave, Goto, Around, CodexInvariant, TypeOK, Job
<1>3. StepOf(c, j)
  BY <1>2 DEF StepOf
<1>4. CASE local[c].good
  <2>1. pc'[c] = "removing" /\ Job(c)' = j
    BY <1>1, <1>4 DEF Report, Goto, Job, CodexInvariant, TypeOK
  <2>2. /\ Workers[j] = c /\ Stages[j] = "taken"
        /\ Stages' = [Stages EXCEPT ![j] = "done"]
        /\ Workers' = Workers /\ Agreed' = Agreed
    BY <1>1, <1>2, <1>3, <2>1, StagesOfPlaces, WorkerMoves
  <2>3. landed[j] \subseteq Scope[j] /\ c # None
    BY <1>1, <1>2, <1>4, HandoffAssumption DEF CodexInvariant, CallOK, VerifiedInScope
  <2>4. Contracts!Succeed(j)
    BY <1>2, <2>2, <2>3, AroundIsSeen DEF Contracts!Succeed, Contracts!Moves
  <2> QED
    BY <2>4 DEF Refines, Contracts!Next
<1>5. CASE ~local[c].good
  <2>1. pc'[c] = "idle"
    BY <1>5 DEF Report, Leave, Goto, CodexInvariant, TypeOK
  <2>2. StageLeft(j)' = "failed"
    <3>1. "EXECUTED" \notin events[j] /\ "FAILED" \in events'[j] /\ events'[j] = events[j] \cup {"FAILED"}
      BY <1>1, <1>2, <1>5, StagesOfPlaces DEF CodexInvariant, CallOK, ClaimIsOnRecord
    <3> QED
      BY <3>1 DEF StageLeft
  <2>3. /\ Workers[j] = c /\ c # None /\ Stages[j] = "taken"
        /\ Stages' = [Stages EXCEPT ![j] = "failed"]
        /\ Workers' = [Workers EXCEPT ![j] = None] /\ Agreed' = Agreed
    BY <1>1, <1>2, <1>3, <2>1, <2>2, StagesOfPlaces, WorkerGoes
  <2>4. Contracts!Fail(j)
    BY <1>2, <2>3, AroundIsSeen DEF Contracts!Fail, Contracts!Moves
  <2> QED
    BY <2>4 DEF Refines, Contracts!Next
<1> QED
  BY <1>4, <1>5

\* The worktree goes, or stays when its removal fails; the work is done.
LEMMA RemoveRefines ==
    ASSUME CodexInvariant, CodexInvariant', NEW c \in Call, RemoveTree(c)
    PROVE  Refines
<1>1. PICK j \in Handoff : j = Job(c)
  BY CallsAreTyped DEF RemoveTree, MayRemove, CodexInvariant
<1>2. /\ pc[c] = "removing" /\ pc'[c] = "idle"
      /\ UNCHANGED <<taskVars, prepared, landed>>
      /\ \A d \in Call : d # c => pc'[d] = pc[d] /\ local'[d] = local[d]
      /\ \/ removed' = removed \cup {j} /\ events' = events
         \/ removed' = removed /\ events' = [events EXCEPT ![j] = @ \cup {"CLEANUP_FAILED"}]
  BY <1>1 DEF RemoveTree, MayRemove, Leave, Goto, CodexInvariant, TypeOK, Job
<1>3. /\ \A h \in Handoff \ {j} : events'[h] = events[h]
      /\ events[j] \subseteq events'[j]
  BY <1>2 DEF CodexInvariant, TypeOK
<1>4. StepOf(c, j)
  BY <1>2, <1>3 DEF StepOf
<1>5. StageLeft(j)' = "done"
  <2>1. "EXECUTED" \in events'[j]
    BY <1>1, <1>2, <1>3 DEF CodexInvariant, CallOK, ClaimIsOnRecord
  <2> QED
    BY <2>1 DEF StageLeft
<1>6. /\ Workers[j] = c /\ c # None /\ Stages[j] = "done"
      /\ Stages' = [Stages EXCEPT ![j] = "done"]
      /\ Workers' = [Workers EXCEPT ![j] = None] /\ Agreed' = Agreed
  BY <1>1, <1>2, <1>4, <1>5, StagesOfPlaces, WorkerGoes
<1>7. UNCHANGED <<TaskNow, task = "ended" \/ vstatus = "passed">>
  BY <1>2 DEF taskVars, TaskNow
<1>8. CASE removed' = removed \cup {j}
  <2>1. Stages' = Stages
    BY <1>6 DEF Stages
  <2>2. Contracts!Discard(j)
    BY <1>2, <1>6, <1>7, <1>8, <2>1 DEF Contracts!Discard
  <2> QED
    BY <2>2 DEF Refines, Contracts!Next
<1>9. CASE removed' = removed
  <2>1. Stages' = [Stages EXCEPT ![j] = IF @ = "entering" THEN "taken" ELSE @]
    BY <1>6 DEF Stages
  <2>2. Contracts!Lose(j)
    BY <1>2, <1>6, <1>7, <1>9, <2>1 DEF Contracts!Lose
  <2> QED
    BY <2>2 DEF Refines, Contracts!Next
<1> QED
  BY <1>2, <1>8, <1>9

\* A call that dies loses the work it had, at the stage it was.
LEMMA DieRefines ==
    ASSUME CodexInvariant, CodexInvariant', NEW c \in Call, Die(c)
    PROVE  Refines
<1>1. PICK j \in Handoff : j = Job(c)
  BY CallsAreTyped DEF Die, CodexInvariant
<1>2. /\ pc'[c] = "idle" /\ UNCHANGED <<prepared, events>> /\ UNCHANGED Around
      /\ StepOf(c, j) /\ StepOf(c, None)
  BY DEF Die, Leave, Goto, Around, handoffVars, StepOf, CodexInvariant, TypeOK
<1>3. CASE pc[c] \notin Claimed
  <2>1. UNCHANGED Contracts!vars
    BY <1>2, <1>3, StagesOfPlaces, WorkStutters
  <2> QED
    BY <2>1 DEF Refines
<1>4. CASE pc[c] \in Claimed
  <2>1. /\ Workers[j] = c /\ c # None /\ Stages[j] = StageAt(pc[c])
        /\ Stages' = [Stages EXCEPT ![j] = StageLeft(j)']
        /\ Workers' = [Workers EXCEPT ![j] = None] /\ Agreed' = Agreed
    BY <1>1, <1>2, <1>4, StagesOfPlaces, WorkerGoes
  <2>2. StageLeft(j)' = IF Stages[j] = "entering" THEN "taken" ELSE Stages[j]
    <3>1. StageLeft(j)' = StageLeft(j)
      BY <1>2 DEF StageLeft
    <3>2. StageLeft(j) = IF pc[c] = "removing" THEN "done" ELSE "taken"
      BY <1>1, <1>4 DEF StageLeft, CodexInvariant, CallOK, ClaimIsOnRecord
    <3>3. "removing" \notin Window
      BY DEF Window
    <3> QED
      BY <2>1, <3>1, <3>2, <3>3 DEF StageAt
  <2>3. Contracts!Lose(j)
    BY <1>2, <2>1, <2>2, AroundIsSeen DEF Contracts!Lose
  <2> QED
    BY <2>3 DEF Refines, Contracts!Next
<1> QED
  BY <1>3, <1>4

\* Developer, chairman and validator change the subject or what was brought in.
LEMMA OthersRefine ==
    ASSUME CodexInvariant, Others
    PROVE  Refines
<1>1. UNCHANGED <<prepared, events, removed, pc, local>>
  BY DEF Others, Edit, Discard, Commit, EndSession, BindSession, EndTask, Checkpoint, RequestReview,
     Invalidate, Verdict, handoffVars, callVars
<1>2. Stages' = Stages /\ Workers' = Workers /\ Agreed' = Agreed
  BY <1>1 DEF Stages, StageOf, IsEntering, Workers, WorkerOf, WorkersOf, Agreed
<1>3. CASE \E p \in Path : Edit(p)
  <2>1. UNCHANGED Contracts!vars
    BY <1>1, <1>2, <1>3, AroundIsSeen DEF Edit, handoffVars, Around, Contracts!vars
  <2> QED
    BY <2>1 DEF Refines
<1>4. CASE Discard \/ Commit
  <2>1. UNCHANGED taskVars /\ landed' = [h \in Handoff |-> {}]
    BY <1>4 DEF Discard, Commit, Settled
  <2>2. UNCHANGED <<TaskNow, task = "ended" \/ vstatus = "passed">>
    BY <2>1 DEF taskVars, TaskNow
  <2>3. Contracts!Withdraw
    BY <1>1, <1>2, <2>1, <2>2 DEF Contracts!Withdraw
  <2> QED
    BY <2>3 DEF Refines, Contracts!Next
<1>5. CASE EndSession
  <2>1. UNCHANGED <<landed, TaskNow, task = "ended" \/ vstatus = "passed">>
    BY <1>5 DEF EndSession, handoffVars, TaskNow
  <2>2. UNCHANGED Contracts!vars
    BY <1>1, <1>2, <2>1 DEF Contracts!vars
  <2> QED
    BY <2>2 DEF Refines
<1>6. CASE \/ BindSession \/ EndTask \/ Checkpoint \/ RequestReview \/ Invalidate
           \/ \E outcome \in {"passed", "failed"} : Verdict(outcome)
  <2>1. lock = None /\ landed' = landed
    BY <1>6 DEF BindSession, EndTask, Checkpoint, RequestReview, Invalidate, Verdict, Free, handoffVars
  <2>2. Contracts!Change
    BY <1>1, <1>2, <2>1, NobodyEnters DEF Contracts!Change
  <2> QED
    BY <2>2 DEF Refines, Contracts!Next
<1> QED
  BY <1>3, <1>4, <1>5, <1>6 DEF Others

\* The contract is about the task as it is when it is frozen.
LEMMA PrepareRefines ==
    ASSUME ContractInvariant, CodexInvariant', NEW h \in Handoff, Prepare(h)
    PROVE  Refines
<1> USE DEF ContractInvariant
<1> DEFINE contract == [task |-> TaskNow, head |-> head]
<1>1. /\ prepared[h] = None /\ prepared' = [prepared EXCEPT ![h] = contract]
      /\ UNCHANGED <<taskVars, events, landed, removed, pc, local>>
  BY DEF Prepare, callVars
<1>2. contract # None /\ contract.task = TaskNow
  BY HandoffAssumption DEF CodexInvariant, TypeOK, Contract, TaskNow, Fingerprint
<1> HIDE DEF contract
<1>3. events[h] = {} /\ \A c \in Call : pc[c] \in Claimed => Job(c) # h
  BY <1>1 DEF RecordIsPrepared, CodexInvariant, CallOK, JobIsPrepared, Claimed, Window
<1>4. /\ \A i \in Handoff \ {h} : prepared'[i] = prepared[i]
      /\ prepared'[h] = contract
  BY <1>1 DEF CodexInvariant, TypeOK
<1>5. Workers' = Workers /\ \A i \in Handoff : IsEntering(i)' = IsEntering(i)
  BY <1>1 DEF Workers, WorkerOf, WorkersOf, IsEntering
<1>6. Stages[h] = "none" /\ Stages' = [Stages EXCEPT ![h] = "open"]
  <2>1. ~IsEntering(h)
    BY <1>3 DEF IsEntering, Job, Claimed
  <2>2. StageOf(h) = "none" /\ StageOf(h)' = "open"
    BY <1>1, <1>2, <1>3, <1>4, <1>5, <2>1 DEF StageOf
  <2>3. \A i \in Handoff \ {h} : StageOf(i)' = StageOf(i)
    BY <1>1, <1>4, <1>5 DEF StageOf
  <2> QED
    BY <2>2, <2>3 DEF Stages
<1>7. Agreed' = [Agreed EXCEPT ![h] = TaskNow]
  <2>1. \A i \in Handoff \ {h} : Agreed'[i] = Agreed[i]
    BY <1>4 DEF Agreed
  <2>2. Agreed'[h] = TaskNow
    BY <1>2, <1>4 DEF Agreed
  <2> QED
    BY <2>1, <2>2 DEF Agreed
<1>8. UNCHANGED <<TaskNow, task = "ended" \/ vstatus = "passed">>
  BY <1>1 DEF taskVars, TaskNow
<1>9. Contracts!Open(h)
  BY <1>1, <1>5, <1>6, <1>7, <1>8 DEF Contracts!Open, Contracts!Moves
<1> QED
  BY <1>9 DEF Refines, Contracts!Next

LEMMA StepRefines ==
    ContractInvariant /\ CodexInvariant' /\ [Next]_vars => [Contracts!Next]_(Contracts!vars)
<1> SUFFICES ASSUME ContractInvariant, CodexInvariant', [Next]_vars PROVE Refines
  BY DEF Refines
<1>1. CASE UNCHANGED vars
  <2>1. UNCHANGED <<prepared, events, pc, local>> /\ UNCHANGED Around
    BY <1>1 DEF vars, handoffVars, callVars, Around
  <2>2. Stages' = Stages /\ Workers' = Workers /\ Agreed' = Agreed
    BY <2>1 DEF Stages, StageOf, IsEntering, Workers, WorkerOf, WorkersOf, Agreed
  <2> QED
    BY <2>1, <2>2, AroundIsSeen DEF Refines, Contracts!vars
<1>2. ASSUME NEW c \in Call, Progress(c) \/ CodexWrites(c) \/ Die(c) PROVE Refines
  BY <1>2, WorkingRefines, ClaimRefines, GuardRefines, WindowRefines, LeavingWindowRefines,
     RepairRefines, ReportRefines, RemoveRefines, DieRefines DEF Progress, ContractInvariant
<1> QED
  BY <1>1, <1>2, AuthorizeRefines, OthersRefine, PrepareRefines DEF Next, ContractInvariant

LEMMA InitRefines == Init => RecordIsPrepared /\ Contracts!Init
<1> SUFFICES ASSUME Init PROVE RecordIsPrepared /\ Contracts!Init
  OBVIOUS
<1>1. \A h \in Handoff : StageOf(h) = "none" /\ WorkersOf(h) = {} /\ prepared[h] = None
  BY DEF Init, StageOf, IsEntering, WorkersOf, Window, Claimed
<1>2. RecordIsPrepared
  BY DEF Init, RecordIsPrepared
<1> QED
  BY <1>1, <1>2 DEF Init, Contracts!Init, Stages, Workers, WorkerOf, Agreed

\* Whatever calls run, fail, die or meet, and whatever the others do to the task:
\* the hand-offs of codex_handoff.py behave as contracted work, each taken once and
\* brought in alone while the task is as agreed.
THEOREM ImplementsContractedWork == Spec => IsContractedWork
<1>1. Init => ContractInvariant /\ Contracts!Init
  BY CodexInit, InitRefines DEF ContractInvariant
<1>2. ContractInvariant /\ [Next]_vars => ContractInvariant'
  BY CodexNext, RecordStep DEF ContractInvariant
<1>3. ContractInvariant => CodexInvariant
  BY DEF ContractInvariant
<1> QED
  BY <1>1, <1>2, <1>3, StepRefines, PTL DEF Spec, IsContractedWork, Contracts!Spec
=============================================================================
