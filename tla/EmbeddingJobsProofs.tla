------------------------ MODULE EmbeddingJobsProofs ------------------------
(***************************************************************************)
(* Proofs, for every value of the constants, of the safety properties of   *)
(* EmbeddingJobs.                                                          *)
(***************************************************************************)
EXTENDS EmbeddingJobs, TLAPS

----------------------------------------------------------------------------
(* Type correctness.                                                         *)

Statuses == {"none", "pending", "running", "completed", "failed", "skipped"}

LEMMA InitTyped == Init => TypeOK
  BY EmbeddingAssumption DEF Init, TypeOK, NoLease, Job

LEMMA ReleasedType ==
  ASSUME NEW j \in Job
  PROVE  /\ Released(j) \in {"pending", "failed"}
         /\ Released(j) = "pending" <=> CanRetry(j)
  BY DEF Released

\* What a claim does once it has chosen its jobs.
Claimed(w, stale, retired, batch) ==
    /\ \A j \in stale : status[j] = "running"
    /\ \A j \in retired : ~Eligible(j[1])
    /\ \A j \in batch : CanRetry(j)
    /\ \A j \in retired \cup batch :
         IF j \in stale THEN Released(j) = "pending" ELSE status[j] = "pending"
    /\ status' = [j \in Job |-> IF j \in batch THEN "running"
                                ELSE IF j \in retired THEN "skipped"
                                ELSE IF j \in stale THEN Released(j) ELSE status[j]]
    /\ attempts' = [j \in Job |-> IF j \in batch THEN attempts[j] + 1 ELSE attempts[j]]
    /\ lease' = [lease EXCEPT ![w] =
          [c \in Chunk |-> IF <<c, model[w]>> \in batch THEN attempts[<<c, model[w]>>] + 1 ELSE 0]]
    /\ phase' = [phase EXCEPT ![w] = IF batch = {} THEN "idle" ELSE "encoding"]

LEMMA ClaimStep ==
  ASSUME NEW w \in Worker, Claim(w)
  PROVE  \E stale, retired, batch \in SUBSET Job : Claimed(w, stale, retired, batch)
<1>1. PICK stale \in SUBSET {j \in Job : status[j] = "running"} :
        LET now == [j \in Job |-> IF j \in stale THEN Released(j) ELSE status[j]]
            mine == {j \in Job : j[2] = model[w] /\ now[j] = "pending"}
        IN  \E retired \in SUBSET {j \in mine : ~Eligible(j[1])},
               batch \in SUBSET {j \in mine : j[1] \in seen[w] /\ CanRetry(j)} :
              /\ status' = [j \in Job |-> IF j \in batch THEN "running"
                                          ELSE IF j \in retired THEN "skipped" ELSE now[j]]
              /\ attempts' = [j \in Job |-> IF j \in batch THEN attempts[j] + 1 ELSE attempts[j]]
              /\ lease' = [lease EXCEPT ![w] =
                    [c \in Chunk |-> IF <<c, model[w]>> \in batch THEN attempts[<<c, model[w]>>] + 1 ELSE 0]]
              /\ phase' = [phase EXCEPT ![w] = IF batch = {} THEN "idle" ELSE "encoding"]
  BY DEF Claim
<1> DEFINE now == [j \in Job |-> IF j \in stale THEN Released(j) ELSE status[j]]
           mine == {j \in Job : j[2] = model[w] /\ now[j] = "pending"}
<1>2. PICK retired \in SUBSET {j \in mine : ~Eligible(j[1])},
           batch \in SUBSET {j \in mine : j[1] \in seen[w] /\ CanRetry(j)} :
              /\ status' = [j \in Job |-> IF j \in batch THEN "running"
                                          ELSE IF j \in retired THEN "skipped" ELSE now[j]]
              /\ attempts' = [j \in Job |-> IF j \in batch THEN attempts[j] + 1 ELSE attempts[j]]
              /\ lease' = [lease EXCEPT ![w] =
                    [c \in Chunk |-> IF <<c, model[w]>> \in batch THEN attempts[<<c, model[w]>>] + 1 ELSE 0]]
              /\ phase' = [phase EXCEPT ![w] = IF batch = {} THEN "idle" ELSE "encoding"]
  BY <1>1
<1>3. status' = [j \in Job |-> IF j \in batch THEN "running"
                               ELSE IF j \in retired THEN "skipped"
                               ELSE IF j \in stale THEN Released(j) ELSE status[j]]
  BY <1>2
<1>4. \A j \in retired \cup batch :
        j \in Job /\ IF j \in stale THEN Released(j) = "pending" ELSE status[j] = "pending"
  OBVIOUS
<1> HIDE DEF now, mine
<1>5. stale \in SUBSET Job /\ retired \in SUBSET Job /\ batch \in SUBSET Job
  BY DEF mine
<1>6. Claimed(w, stale, retired, batch)
  BY <1>2, <1>3, <1>4 DEF Claimed, mine
<1> QED
  BY <1>5, <1>6

LEMMA StepTyped == TypeOK /\ [Next]_vars => TypeOK'
<1> SUFFICES ASSUME TypeOK, [Next]_vars PROVE TypeOK'
  OBVIOUS
<1> USE EmbeddingAssumption DEF TypeOK, ownerVars, jobVars, workerVars
<1>1. ASSUME NEW m \in Model \cup {None}, Configure(m) PROVE TypeOK'
  BY <1>1 DEF Configure
<1>2. CASE StartOnboarding
  BY <1>2 DEF StartOnboarding
<1>3. ASSUME NEW c \in Chunk, NEW m \in Model \cup {None}, AddChunk(c, m) PROVE TypeOK'
  BY <1>3 DEF AddChunk
<1>4. ASSUME NEW s \in Source, RevokeSource(s) PROVE TypeOK'
  BY <1>4 DEF RevokeSource
<1>5. ASSUME NEW w \in Worker, StartRun(w) \/ ReadMissing(w) \/ ReadBatch(w) \/ CheckConfig(w)
      PROVE  TypeOK'
  <2>1. CASE StartRun(w)
    BY <2>1 DEF StartRun
  <2>2. CASE ReadMissing(w)
    BY <2>2 DEF ReadMissing
  <2>3. CASE ReadBatch(w)
    BY <2>3 DEF ReadBatch
  <2>4. CASE CheckConfig(w)
    BY <2>4 DEF CheckConfig
  <2> QED
    BY <1>5, <2>1, <2>2, <2>3, <2>4
<1>6. ASSUME NEW w \in Worker, QueueMissing(w) PROVE TypeOK'
  BY <1>6 DEF QueueMissing
<1>7. ASSUME NEW w \in Worker, Claim(w) PROVE TypeOK'
  <2>1. PICK stale, retired, batch \in SUBSET Job : Claimed(w, stale, retired, batch)
    BY <1>7, ClaimStep
  <2>2. status' \in [Job -> Statuses]
    BY <2>1, ReleasedType DEF Claimed, Statuses
  <2>3. ASSUME NEW j \in batch PROVE attempts[j] + 1 \in 0..MaxAttempts
    <3>1. attempts[j] \in 0..MaxAttempts /\ attempts[j] < MaxAttempts
      BY <2>1, <2>3 DEF Claimed, CanRetry
    <3> QED
      BY <3>1, EmbeddingAssumption
  <2>4. attempts' \in [Job -> 0..MaxAttempts]
    BY <2>1, <2>3 DEF Claimed
  <2>5. lease' \in [Worker -> [Chunk -> 0..MaxAttempts]]
    BY <2>1, <2>3 DEF Claimed
  <2>6. phase' \in [Worker -> {"idle", "reading", "queueing", "claiming", "locking", "encoding", "publishing"}]
    BY <2>1 DEF Claimed
  <2>7. /\ UNCHANGED <<config, read, ownerVars, embedded, model>>
        /\ seen' = [seen EXCEPT ![w] = {}]
    BY <1>7 DEF Claim
  <2> QED
    BY <2>2, <2>4, <2>5, <2>6, <2>7 DEF Statuses
<1>8. ASSUME NEW w \in Worker, Publish(w) PROVE TypeOK'
  <2>1. status' \in [Job -> Statuses]
    BY <1>8 DEF Publish, Statuses
  <2>2. embedded' \in [Chunk -> Model \cup {None}]
    BY <1>8 DEF Publish
  <2>3. UNCHANGED attempts /\ EndRun(w)
    BY <1>8 DEF Publish
  <2> QED
    BY <2>1, <2>2, <2>3 DEF EndRun, NoLease, Statuses
<1>9. ASSUME NEW w \in Worker, Fail(w) PROVE TypeOK'
  <2>1. status' \in [Job -> Statuses]
    BY <1>9, ReleasedType DEF Fail, Statuses
  <2> QED
    BY <1>9, <2>1 DEF Fail, EndRun, NoLease, Statuses
<1>10. ASSUME NEW w \in Worker, Crash(w) PROVE TypeOK'
  BY <1>10 DEF Crash, NoLease
<1>11. CASE UNCHANGED vars
  BY <1>11 DEF vars
<1> QED
  BY <1>1, <1>2, <1>3, <1>4, <1>5, <1>6, <1>7, <1>8, <1>9, <1>10, <1>11 DEF Next, Owner, Run

\* Every reachable state is well typed: in particular no job is ever claimed
\* more than MaxAttempts times between two requeues.
THEOREM TypeCorrect == Spec => []TypeOK
  BY InitTyped, StepTyped, PTL DEF Spec

----------------------------------------------------------------------------
(* The two tables the invariant relates change in few steps.                 *)

LEMMA JobSteps ==
  ASSUME [Next]_vars
  PROVE  \/ UNCHANGED <<active, embedded, status, attempts>>
         \/ \E c \in Chunk, m \in Model \cup {None} : AddChunk(c, m)
         \/ \E s \in Source : RevokeSource(s)
         \/ \E w \in Worker : QueueMissing(w) \/ Claim(w) \/ Publish(w) \/ Fail(w)
  BY DEF Next, Owner, Run, vars, ownerVars, jobVars, workerVars, Configure, StartOnboarding,
         StartRun, ReadMissing, ReadBatch, CheckConfig, Crash

LEMMA JobParts == \A j \in Job : j[1] \in Chunk /\ j[2] \in Model /\ j = <<j[1], j[2]>>
  BY DEF Job

LEMMA LeasedRuns ==
  ASSUME NEW w \in Worker, NEW j \in Leased(w)
  PROVE  j \in Job /\ status[j] = "running"
  BY JobParts DEF Leased, HoldsLease

\* A claim, as it looks to one job.
LEMMA ClaimedJob ==
  ASSUME NEW w \in Worker, Claim(w), NEW j \in Job
  PROVE  \/ status'[j] = status[j] /\ attempts'[j] = attempts[j]
         \/ status[j] = "running" /\ status'[j] = Released(j) /\ attempts'[j] = attempts[j]
         \/ /\ status[j] = "pending" \/ (status[j] = "running" /\ CanRetry(j))
            /\ \/ ~Eligible(j[1]) /\ status'[j] = "skipped" /\ attempts'[j] = attempts[j]
               \/ status'[j] = "running" /\ attempts'[j] = attempts[j] + 1
<1>1. PICK stale, retired, batch \in SUBSET Job : Claimed(w, stale, retired, batch)
  BY ClaimStep
<1>2. j \in retired \cup batch => status[j] = "pending" \/ (status[j] = "running" /\ CanRetry(j))
  BY <1>1, ReleasedType DEF Claimed
<1>3. CASE j \in batch
  BY <1>1, <1>2, <1>3 DEF Claimed
<1>4. CASE j \in retired \ batch
  BY <1>1, <1>2, <1>4 DEF Claimed
<1>5. CASE j \notin retired \cup batch
  BY <1>1, <1>5 DEF Claimed
<1> QED
  BY <1>3, <1>4, <1>5

----------------------------------------------------------------------------
(* Preservation of each part of the invariant.                               *)

LEMMA InitInvariant == Init => InductiveInvariant
  BY InitTyped, EmbeddingAssumption
     DEF Init, InductiveInvariant, RowsAreOfChunks, RevokedIsCleared,
         NeverStranded, VectorsHaveJobs, CanRetry, Job

LEMMA RevokedStep ==
  ASSUME InductiveInvariant, [Next]_vars
  PROVE  RevokedIsCleared'
<1> SUFFICES ASSUME NEW c \in Chunk, SourceOf[c] \notin active'
             PROVE  /\ embedded'[c] = None
                    /\ \A m \in Model : status'[<<c, m>>] # "completed"
  BY DEF RevokedIsCleared
<1> DEFINE Cleared == /\ embedded'[c] = None
                      /\ \A m \in Model : status'[<<c, m>>] # "completed"
<1> USE EmbeddingAssumption DEF InductiveInvariant
<1>0. \A m \in Model : <<c, m>> \in Job
  BY DEF Job
<1>1. CASE UNCHANGED <<active, embedded, status, attempts>>
  BY <1>1 DEF RevokedIsCleared
<1>2. ASSUME NEW d \in Chunk, NEW n \in Model \cup {None}, AddChunk(d, n) PROVE Cleared
  <2>1. SourceOf[c] \notin active /\ c # d /\ embedded'[c] = embedded[c]
    BY <1>2 DEF AddChunk
  <2>2. \A m \in Model : status'[<<c, m>>] = status[<<c, m>>]
    BY <1>0, <1>2, <2>1 DEF AddChunk
  <2> QED
    BY <2>1, <2>2 DEF RevokedIsCleared
<1>3. ASSUME NEW s \in Source, RevokeSource(s) PROVE Cleared
  <2>1. CASE SourceOf[c] = s
    <3>1. embedded'[c] = None
      BY <1>3, <2>1 DEF RevokeSource
    <3>2. \A m \in Model : status'[<<c, m>>] # "completed"
      BY <1>0, <1>3, <2>1 DEF RevokeSource, LiveJob
    <3> QED
      BY <3>1, <3>2
  <2>2. CASE SourceOf[c] # s
    <3>1. SourceOf[c] \notin active /\ embedded'[c] = embedded[c]
      BY <1>3, <2>2 DEF RevokeSource, TypeOK
    <3>2. \A m \in Model : status'[<<c, m>>] = status[<<c, m>>]
      BY <1>0, <1>3, <2>2 DEF RevokeSource
    <3> QED
      BY <3>1, <3>2 DEF RevokedIsCleared
  <2> QED
    BY <2>1, <2>2
<1>4. ASSUME NEW w \in Worker, QueueMissing(w) PROVE Cleared
  <2>1. SourceOf[c] \notin active /\ embedded'[c] = embedded[c]
    BY <1>4 DEF QueueMissing, ownerVars
  <2>2. \A m \in Model : status'[<<c, m>>] \in {status[<<c, m>>], "pending"}
    BY <1>0, <1>4 DEF QueueMissing
  <2> QED
    BY <2>1, <2>2 DEF RevokedIsCleared
<1>5. ASSUME NEW w \in Worker, Claim(w) PROVE Cleared
  <2>1. SourceOf[c] \notin active /\ embedded'[c] = embedded[c]
    BY <1>5 DEF Claim, ownerVars
  <2>2. ASSUME NEW m \in Model PROVE status'[<<c, m>>] # "completed"
    <3>1. status[<<c, m>>] # "completed"
      BY <2>1 DEF RevokedIsCleared
    <3> QED
      BY <1>0, <1>5, <3>1, ClaimedJob, ReleasedType
  <2> QED
    BY <2>1, <2>2 DEF RevokedIsCleared
<1>6. ASSUME NEW w \in Worker, Publish(w) PROVE Cleared
  <2>1. SourceOf[c] \notin active
    BY <1>6 DEF Publish, EndRun, ownerVars
  <2>2. c \notin Publishable(w)
    BY <2>1 DEF Publishable, Eligible
  <2>3. embedded'[c] = embedded[c]
    BY <1>6, <2>2 DEF Publish
  <2>4. \A m \in Model : status'[<<c, m>>] \in {status[<<c, m>>], "skipped"}
    BY <1>0, <1>6, <2>2 DEF Publish
  <2> QED
    BY <2>1, <2>3, <2>4 DEF RevokedIsCleared
<1>7. ASSUME NEW w \in Worker, Fail(w) PROVE Cleared
  <2>1. SourceOf[c] \notin active /\ embedded' = embedded
    BY <1>7 DEF Fail, EndRun, ownerVars
  <2>2. \A m \in Model : status'[<<c, m>>] \in {status[<<c, m>>], Released(<<c, m>>)}
    BY <1>0, <1>7 DEF Fail
  <2> QED
    BY <1>0, <2>1, <2>2, ReleasedType DEF RevokedIsCleared
<1> QED
  BY JobSteps, <1>1, <1>2, <1>3, <1>4, <1>5, <1>6, <1>7

LEMMA StrandedStep ==
  ASSUME InductiveInvariant, [Next]_vars
  PROVE  NeverStranded'
<1> DEFINE Sound(j) == /\ status'[j] = "pending" => attempts'[j] < MaxAttempts
                       /\ status'[j] = "running" => attempts'[j] > 0
                       /\ status'[j] = "failed" => ~(attempts'[j] < MaxAttempts)
                       /\ status'[j] = "skipped" => SourceOf[j[1]] \notin active'
<1> SUFFICES ASSUME NEW j \in Job PROVE Sound(j)
  BY DEF NeverStranded, CanRetry
<1>0. /\ status[j] = "pending" => attempts[j] < MaxAttempts
      /\ status[j] = "running" => attempts[j] > 0
      /\ status[j] = "failed" => ~(attempts[j] < MaxAttempts)
      /\ status[j] = "skipped" => SourceOf[j[1]] \notin active
      /\ attempts[j] \in 0..MaxAttempts /\ MaxAttempts \in Nat \ {0}
      /\ j[1] \in Chunk /\ j[2] \in Model /\ j = <<j[1], j[2]>>
  BY EmbeddingAssumption, JobParts DEF InductiveInvariant, NeverStranded, CanRetry, TypeOK
<1>1. CASE UNCHANGED <<active, embedded, status, attempts>>
  BY <1>0, <1>1
<1>2. ASSUME NEW c \in Chunk, NEW m \in Model \cup {None}, AddChunk(c, m) PROVE Sound(j)
  <2>1. active' = active /\ attempts' = attempts
    BY <1>2 DEF AddChunk
  <2>2. CASE j # <<c, m>>
    <3>1. status'[j] = status[j]
      BY <1>2, <2>2 DEF AddChunk
    <3> QED
      BY <1>0, <2>1, <3>1
  <2>3. CASE j = <<c, m>>
    <3>1. status'[j] = "pending"
      BY <1>2, <2>3 DEF AddChunk
    <3>2. j[1] \notin present
      BY <1>2, <2>3 DEF AddChunk
    <3>3. attempts[j] = 0
      BY <3>2 DEF InductiveInvariant, RowsAreOfChunks
    <3> QED
      BY <1>0, <2>1, <3>1, <3>3
  <2> QED
    BY <2>2, <2>3
<1>3. ASSUME NEW s \in Source, RevokeSource(s) PROVE Sound(j)
  <2>1. attempts' = attempts /\ active' \subseteq active
    BY <1>3 DEF RevokeSource
  <2>2. CASE status'[j] = status[j]
    BY <1>0, <2>1, <2>2
  <2>3. CASE status'[j] # status[j]
    <3>1. status'[j] = "skipped" /\ SourceOf[j[1]] \notin active'
      BY <1>3, <2>3 DEF RevokeSource, InductiveInvariant, TypeOK
    <3> QED
      BY <3>1
  <2> QED
    BY <2>2, <2>3
<1>4. ASSUME NEW w \in Worker, QueueMissing(w) PROVE Sound(j)
  <2>1. active' = active
    BY <1>4 DEF QueueMissing, ownerVars
  <2>2. \/ status'[j] = status[j] /\ attempts'[j] = attempts[j]
        \/ status'[j] = "pending" /\ attempts'[j] = 0
    BY <1>4 DEF QueueMissing
  <2> QED
    BY <1>0, <2>1, <2>2
<1>5. ASSUME NEW w \in Worker, Claim(w) PROVE Sound(j)
  <2>1. active' = active /\ present' = present
    BY <1>5 DEF Claim, ownerVars
  <2>2. CASE status'[j] = status[j] /\ attempts'[j] = attempts[j]
    BY <1>0, <2>1, <2>2
  <2>3. CASE status'[j] = Released(j) /\ attempts'[j] = attempts[j]
    BY <2>3 DEF Released, CanRetry
  <2>4. CASE /\ status[j] = "pending" \/ (status[j] = "running" /\ CanRetry(j))
             /\ ~Eligible(j[1]) /\ status'[j] = "skipped" /\ attempts'[j] = attempts[j]
    <3>1. j[1] \in present
      BY <2>4 DEF InductiveInvariant, RowsAreOfChunks
    <3> QED
      BY <2>1, <2>4, <3>1 DEF Eligible
  <2>5. CASE status'[j] = "running" /\ attempts'[j] = attempts[j] + 1
    BY <1>0, <2>5
  <2> QED
    BY <1>5, <2>2, <2>3, <2>4, <2>5, ClaimedJob
<1>6. ASSUME NEW w \in Worker, Publish(w) PROVE Sound(j)
  <2>1. attempts' = attempts /\ active' = active
    BY <1>6 DEF Publish, EndRun, ownerVars
  <2>2. CASE j \notin Leased(w)
    BY <1>0, <1>6, <2>1, <2>2 DEF Publish
  <2>3. CASE j \in Leased(w)
    <3>1. status[j] = "running"
      BY <2>3, LeasedRuns
    <3>2. j[1] \in present
      BY <3>1 DEF InductiveInvariant, RowsAreOfChunks
    <3>3. j[1] \in Publishable(w) \/ SourceOf[j[1]] \notin active
      BY <1>0, <2>3, <3>2 DEF Publishable, Eligible, Leased
    <3>4. status'[j] = IF j[1] \in Publishable(w) THEN "completed" ELSE "skipped"
      BY <1>6, <2>3 DEF Publish
    <3> QED
      BY <2>1, <3>3, <3>4
  <2> QED
    BY <2>2, <2>3
<1>7. ASSUME NEW w \in Worker, Fail(w) PROVE Sound(j)
  <2>1. attempts' = attempts /\ active' = active
    BY <1>7 DEF Fail, EndRun, ownerVars
  <2>2. status'[j] = status[j] \/ status'[j] = Released(j)
    BY <1>7 DEF Fail
  <2> QED
    BY <1>0, <2>1, <2>2 DEF Released, CanRetry
<1> QED
  BY JobSteps, <1>1, <1>2, <1>3, <1>4, <1>5, <1>6, <1>7

LEMMA RowsStep ==
  ASSUME InductiveInvariant, [Next]_vars
  PROVE  RowsAreOfChunks'
<1> USE EmbeddingAssumption, JobParts DEF InductiveInvariant, RowsAreOfChunks, TypeOK
<1>1. ASSUME NEW w \in Worker PROVE seen'[w] \subseteq present'
  <2>1. present \subseteq present'
    BY DEF Next, Owner, Run, vars, ownerVars, Configure, StartOnboarding, AddChunk, RevokeSource,
           StartRun, ReadMissing, QueueMissing, ReadBatch, Claim, CheckConfig, Publish, Fail, EndRun, Crash
  <2>2. CASE UNCHANGED seen
    BY <2>1, <2>2
  <2>3. ASSUME NEW v \in Worker, ReadMissing(v) \/ ReadBatch(v) PROVE seen'[w] \subseteq present'
    <3>1. CASE ReadMissing(v)
      BY <3>1 DEF ReadMissing, Eligible, ownerVars
    <3>2. CASE ReadBatch(v)
      BY <3>2 DEF ReadBatch, Eligible, ownerVars
    <3> QED
      BY <2>3, <3>1, <3>2
  <2>4. ASSUME NEW v \in Worker, QueueMissing(v) \/ Claim(v) \/ Crash(v)
        PROVE  seen'[w] \subseteq present'
    <3>1. seen'[w] \subseteq seen[w]
      BY <2>4 DEF QueueMissing, Claim, Crash
    <3> QED
      BY <2>1, <3>1
  <2> QED
    BY <2>2, <2>3, <2>4
       DEF Next, Owner, Run, vars, workerVars, Configure, StartOnboarding, AddChunk, RevokeSource,
           StartRun, CheckConfig, Publish, Fail, EndRun
<1>2. ASSUME NEW j \in Job
      PROVE  /\ status'[j] = "none" => attempts'[j] = 0
             /\ status'[j] # "none" => j[1] \in present'
  <2> DEFINE Row == /\ status'[j] = "none" => attempts'[j] = 0
                    /\ status'[j] # "none" => j[1] \in present'
  <2>0. present \subseteq present'
    BY DEF Next, Owner, Run, vars, ownerVars, Configure, StartOnboarding, AddChunk, RevokeSource,
           StartRun, ReadMissing, QueueMissing, ReadBatch, Claim, CheckConfig, Publish, Fail, EndRun, Crash
  <2>1. CASE UNCHANGED <<active, embedded, status, attempts>>
    BY <2>0, <2>1
  <2>2. ASSUME NEW c \in Chunk, NEW m \in Model \cup {None}, AddChunk(c, m) PROVE Row
    BY <2>2 DEF AddChunk
  <2>3. ASSUME NEW s \in Source, RevokeSource(s) PROVE Row
    BY <2>0, <2>3 DEF RevokeSource, LiveJob
  <2>4. ASSUME NEW w \in Worker, QueueMissing(w) PROVE Row
    BY <2>0, <2>4 DEF QueueMissing
  <2>5. ASSUME NEW w \in Worker, Claim(w) PROVE Row
    <3>1. Released(j) # "none"
      BY ReleasedType
    <3> QED
      BY <2>0, <2>5, <3>1, ClaimedJob
  <2>6. ASSUME NEW w \in Worker, Publish(w) \/ Fail(w) PROVE Row
    <3>1. attempts' = attempts
      BY <2>6 DEF Publish, Fail
    <3>2. status'[j] # status[j] => status[j] = "running" /\ status'[j] # "none"
      <4>1. j \in Leased(w) => status[j] = "running"
        BY LeasedRuns
      <4>2. j \notin Leased(w) => status'[j] = status[j]
        BY <2>6 DEF Publish, Fail
      <4>3. j \in Leased(w) => status'[j] \in {"completed", "skipped", Released(j)}
        BY <2>6 DEF Publish, Fail
      <4> QED
        BY <4>1, <4>2, <4>3, ReleasedType
    <3> QED
      BY <2>0, <3>1, <3>2
  <2> QED
    BY JobSteps, <2>1, <2>2, <2>3, <2>4, <2>5, <2>6
<1> QED
  BY <1>1, <1>2

LEMMA VectorsStep ==
  ASSUME InductiveInvariant, [Next]_vars
  PROVE  VectorsHaveJobs'
<1> DEFINE Agree(c, m) == /\ status'[<<c, m>>] = "completed" => embedded'[c] # None
                          /\ embedded'[c] = m => status'[<<c, m>>] \notin {"none", "skipped"}
<1> SUFFICES ASSUME NEW c \in Chunk, NEW m \in Model PROVE Agree(c, m)
  BY DEF VectorsHaveJobs
<1> DEFINE j == <<c, m>>
<1>0. /\ status[j] = "completed" => embedded[c] # None
      /\ embedded[c] = m => status[j] \notin {"none", "skipped"}
      /\ j \in Job /\ j[1] = c /\ j[2] = m /\ m # None
  BY EmbeddingAssumption DEF InductiveInvariant, VectorsHaveJobs, Job
<1>1. CASE UNCHANGED <<active, embedded, status, attempts>>
  BY <1>0, <1>1
<1>2. ASSUME NEW d \in Chunk, NEW n \in Model \cup {None}, AddChunk(d, n) PROVE Agree(c, m)
  <2>1. embedded' = embedded /\ status'[j] \in {status[j], "pending"}
    BY <1>0, <1>2 DEF AddChunk
  <2> QED
    BY <1>0, <2>1
<1>3. ASSUME NEW s \in Source, RevokeSource(s) PROVE Agree(c, m)
  <2>1. CASE SourceOf[c] = s
    <3>1. embedded'[c] = None
      BY <1>3, <2>1 DEF RevokeSource
    <3>2. status'[j] # "completed"
      BY <1>0, <1>3, <2>1 DEF RevokeSource, LiveJob
    <3> QED
      BY <1>0, <3>1, <3>2
  <2>2. CASE SourceOf[c] # s
    <3>1. embedded'[c] = embedded[c] /\ status'[j] = status[j]
      BY <1>0, <1>3, <2>2 DEF RevokeSource, InductiveInvariant, TypeOK
    <3> QED
      BY <1>0, <3>1
  <2> QED
    BY <2>1, <2>2
<1>4. ASSUME NEW w \in Worker, QueueMissing(w) PROVE Agree(c, m)
  <2>1. embedded' = embedded /\ status'[j] \in {status[j], "pending"}
    BY <1>0, <1>4 DEF QueueMissing
  <2> QED
    BY <1>0, <2>1
<1>5. ASSUME NEW w \in Worker, Claim(w) PROVE Agree(c, m)
  <2>1. embedded' = embedded
    BY <1>5 DEF Claim
  <2>2. CASE status'[j] \in {status[j], Released(j), "running"}
    BY <1>0, <2>1, <2>2, ReleasedType
  <2>3. CASE status[j] \in {"pending", "running"} /\ ~Eligible(c)
    <3>1. c \in present
      BY <1>0, <2>3 DEF InductiveInvariant, RowsAreOfChunks
    <3>2. embedded[c] = None
      BY <2>3, <3>1 DEF Eligible, InductiveInvariant, RevokedIsCleared
    <3>3. status'[j] # "completed"
      BY <1>0, <1>5, <2>3, ClaimedJob, ReleasedType
    <3> QED
      BY <1>0, <2>1, <3>2, <3>3
  <2> QED
    BY <1>0, <1>5, <2>2, <2>3, ClaimedJob
<1>6. ASSUME NEW w \in Worker, Publish(w) PROVE Agree(c, m)
  <2>0. /\ status'[j] = IF j \notin Leased(w) THEN status[j]
                        ELSE IF c \in Publishable(w) THEN "completed" ELSE "skipped"
        /\ embedded'[c] = IF c \in Publishable(w) THEN model[w] ELSE embedded[c]
    BY <1>0, <1>6 DEF Publish
  <2>1. CASE j \in Leased(w) /\ c \in Publishable(w)
    <3>1. m = model[w]
      BY <1>0, <2>1 DEF Leased
    <3> QED
      BY <1>0, <2>0, <2>1, <3>1
  <2>2. CASE j \in Leased(w) /\ c \notin Publishable(w)
    <3>1. c \in present
      BY <1>0, <2>2, LeasedRuns DEF InductiveInvariant, RowsAreOfChunks
    <3>2. SourceOf[c] \notin active
      BY <1>0, <2>2, <3>1 DEF Publishable, Eligible, Leased
    <3>3. embedded[c] = None
      BY <3>2 DEF InductiveInvariant, RevokedIsCleared
    <3> QED
      BY <1>0, <2>0, <2>2, <3>3
  <2>3. CASE j \notin Leased(w) /\ c \in Publishable(w)
    <3>1. model[w] # m
      BY <1>0, <2>3 DEF Leased, Publishable
    <3>2. model[w] # None
      BY <2>3, EmbeddingAssumption DEF Publishable, Leased, Job
    <3> QED
      BY <1>0, <2>0, <2>3, <3>1, <3>2
  <2>4. CASE j \notin Leased(w) /\ c \notin Publishable(w)
    BY <1>0, <2>0, <2>4
  <2> QED
    BY <2>1, <2>2, <2>3, <2>4
<1>7. ASSUME NEW w \in Worker, Fail(w) PROVE Agree(c, m)
  <2>1. embedded' = embedded /\ status'[j] \in {status[j], Released(j)}
    BY <1>0, <1>7 DEF Fail
  <2> QED
    BY <1>0, <2>1, ReleasedType
<1> QED
  BY JobSteps, <1>1, <1>2, <1>3, <1>4, <1>5, <1>6, <1>7

\* The four parts, preserved together by every step.
THEOREM InvariantHolds == Spec => []InductiveInvariant
<1>1. InductiveInvariant /\ [Next]_vars => InductiveInvariant'
  <2> SUFFICES ASSUME InductiveInvariant, [Next]_vars PROVE InductiveInvariant'
    OBVIOUS
  <2>1. TypeOK'
    BY StepTyped DEF InductiveInvariant
  <2> QED
    BY <2>1, RowsStep, RevokedStep, StrandedStep, VectorsStep DEF InductiveInvariant
<1> QED
  BY <1>1, InitInvariant, PTL DEF Spec

\* What was under way when a source was revoked never restores a vector of its
\* chunks, nor completes one of their jobs.
THEOREM RevokedStayCleared == Spec => []RevokedIsCleared
<1>1. InductiveInvariant => RevokedIsCleared
  BY DEF InductiveInvariant
<1> QED
  BY <1>1, InvariantHolds, PTL

\* No job is ever in a state that neither a claim, nor a release, nor a requeue
\* leads out of, unless it had all its attempts or lost its source.
THEOREM JobsAreNeverStranded == Spec => []NeverStranded
<1>1. InductiveInvariant => NeverStranded
  BY DEF InductiveInvariant
<1> QED
  BY <1>1, InvariantHolds, PTL

\* Completed jobs have vectors, and vectors have jobs of their model.
THEOREM VectorsKeepTheirJobs == Spec => []VectorsHaveJobs
<1>1. InductiveInvariant => VectorsHaveJobs
  BY DEF InductiveInvariant
<1> QED
  BY <1>1, InvariantHolds, PTL

\* A failed job stays failed, with its attempts, until its source is revoked.
THEOREM FailedStaysFailed == Spec => FailedIsFinal
<1> DEFINE Final(j) == \/ status'[j] = "failed" /\ attempts'[j] = attempts[j]
                       \/ status'[j] = "skipped" /\ SourceOf[j[1]] \notin active'
           Finals == \A j \in Job : status[j] = "failed" => Final(j)
<1>1. ASSUME InductiveInvariant, [Next]_vars PROVE [Finals]_vars
  <2> SUFFICES ASSUME NEW j \in Job, status[j] = "failed" PROVE Final(j)
    OBVIOUS
  <2> USE <1>1
  <2>1. CASE UNCHANGED <<active, embedded, status, attempts>>
    BY <2>1
  <2>2. ASSUME NEW c \in Chunk, NEW m \in Model \cup {None}, AddChunk(c, m) PROVE Final(j)
    <3>1. j[1] \in present
      BY DEF InductiveInvariant, RowsAreOfChunks
    <3>2. j # <<c, m>>
      BY <2>2, <3>1 DEF AddChunk
    <3> QED
      BY <2>2, <3>2 DEF AddChunk
  <2>3. ASSUME NEW s \in Source, RevokeSource(s) PROVE Final(j)
    BY <2>3 DEF RevokeSource, LiveJob
  <2>4. ASSUME NEW w \in Worker, QueueMissing(w) PROVE Final(j)
    BY <2>4 DEF QueueMissing, Requeued
  <2>5. ASSUME NEW w \in Worker, Claim(w) PROVE Final(j)
    BY <2>5, ClaimedJob
  <2>6. ASSUME NEW w \in Worker, Publish(w) \/ Fail(w) PROVE Final(j)
    <3>1. j \notin Leased(w)
      BY LeasedRuns
    <3> QED
      BY <2>6, <3>1 DEF Publish, Fail
  <2> QED
    BY JobSteps, <2>1, <2>2, <2>3, <2>4, <2>5, <2>6
<1> QED
  BY <1>1, InvariantHolds, PTL DEF Spec, FailedIsFinal
=============================================================================
