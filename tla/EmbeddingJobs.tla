--------------------------- MODULE EmbeddingJobs ---------------------------
(***************************************************************************)
(* The queue of embedding jobs: chunks of sources, one job per chunk and   *)
(* model, workers that queue what is missing, claim a batch, encode it     *)
(* outside any transaction and publish the vectors under a lease (the      *)
(* attempt they claimed), while sources are ingested and revoked and the   *)
(* configured model changes.                                               *)
(*                                                                         *)
(* Source: embeddings.py, embedding_lifecycle.py, sources.py, onboarding.py. *)
(* A transaction is one action, with three exceptions of two actions each.  *)
(* queue_missing and the claim choose chunks in the snapshot of a statement *)
(* but update the newest rows of their jobs; a publication reads the        *)
(* configuration file before its fence takes the locks.  Time is not       *)
(* modelled: any running job may have become stale, also one whose worker   *)
(* is only slow.                                                           *)
(***************************************************************************)
EXTENDS Integers

CONSTANTS
    Source, Chunk,
    SourceOf,      \* the source a chunk belongs to
    Model,         \* embedding models the configuration may name
    Worker,        \* processes that call run_pending, again and again
    MaxAttempts,   \* MAX_ATTEMPTS, 3 in the code
    None

ASSUME EmbeddingAssumption ==
    /\ SourceOf \in [Chunk -> Source]
    /\ MaxAttempts \in Nat \ {0}
    /\ None \notin Model

Job == Chunk \X Model

VARIABLES
    config,    \* the configured model; None when embeddings are disabled
    read,      \* configurations an onboarding that may still run has read
    active,    \* sources that are not revoked
    present,   \* chunks with a row
    embedded,  \* the model of the vector a chunk has, or None
    status, attempts,        \* rows of embedding_jobs; "none" is no row
    phase, model, seen,      \* a worker's place in run_pending, the model it
    lease      \* read, its snapshot, and the attempts it claimed (0 for none)

ownerVars == <<active, present>>
jobVars == <<status, attempts>>
workerVars == <<phase, model, seen, lease>>
vars == <<config, read, ownerVars, embedded, jobVars, workerVars>>

TypeOK ==
    /\ config \in Model \cup {None}
    /\ read \in SUBSET (Model \cup {None})
    /\ active \in SUBSET Source
    /\ present \in SUBSET Chunk
    /\ embedded \in [Chunk -> Model \cup {None}]
    /\ status \in [Job -> {"none", "pending", "running", "completed", "failed", "skipped"}]
    /\ attempts \in [Job -> 0..MaxAttempts]
    /\ phase \in [Worker -> {"idle", "reading", "queueing", "claiming", "locking", "encoding", "publishing"}]
    /\ model \in [Worker -> Model \cup {None}]
    /\ seen \in [Worker -> SUBSET Chunk]
    /\ lease \in [Worker -> [Chunk -> 0..MaxAttempts]]

NoLease == [c \in Chunk |-> 0]

Init ==
    /\ config \in Model \cup {None}
    /\ read = {}
    /\ active = Source
    /\ present = {}
    /\ embedded = [c \in Chunk |-> None]
    /\ status = [j \in Job |-> "none"]
    /\ attempts = [j \in Job |-> 0]
    /\ phase = [w \in Worker |-> "idle"]
    /\ model = [w \in Worker |-> None]
    /\ seen = [w \in Worker |-> {}]
    /\ lease = [w \in Worker |-> NoLease]

----------------------------------------------------------------------------
Eligible(c) == c \in present /\ SourceOf[c] \in active

\* Mutant of CanRetry: one attempt too many.
CanRetryOnceMore(j) == attempts[j] <= MaxAttempts

CanRetry(j) == attempts[j] < MaxAttempts

\* Mutant of Released: a job always goes back to the queue.
AlwaysPending(j) == "pending"

\* Where a running job goes when its attempt failed or went stale.
Released(j) == IF CanRetry(j) THEN "pending" ELSE "failed"

\* ON CONFLICT ... WHERE status IN ('completed','skipped').
Requeued(j) == status[j] \in {"none", "completed", "skipped"}

\* Mutants of LiveJob: a running or a completed job survives the revocation.
LiveUnlessRunning(j) == status[j] \in {"pending", "completed", "failed"}
LiveUnlessCompleted(j) == status[j] \in {"pending", "running", "failed"}

\* _LIVE_JOB_STATUSES.
LiveJob(j) == status[j] \in {"pending", "running", "completed", "failed"}

\* The lease a publication or a failure report is checked against.
HoldsLease(w, c) ==
    /\ lease[w][c] # 0
    /\ status[<<c, model[w]>>] = "running"
    /\ attempts[<<c, model[w]>>] = lease[w][c]

Leased(w) == {j \in Job : j[2] = model[w] /\ HoldsLease(w, j[1])}

\* Mutant of Publishable: the lease alone is looked at.
PublishableUngated(w) == {c \in Chunk : <<c, model[w]>> \in Leased(w)}

\* The chunks whose vectors the fence lets through.
Publishable(w) == {c \in Chunk : <<c, model[w]>> \in Leased(w) /\ Eligible(c)}

----------------------------------------------------------------------------
(* The owner of the chunks and of the configuration. *)

Configure(m) ==
    /\ m # config
    /\ config' = m
    /\ UNCHANGED <<read, ownerVars, embedded, jobVars, workerVars>>

\* inventory loads the configuration once, for all the files of the folder.
StartOnboarding ==
    /\ read' = read \cup {config}
    /\ UNCHANGED <<config, ownerVars, embedded, jobVars, workerVars>>

\* add_chunks_in_conn, with the configuration the onboarding has read.
AddChunk(c, m) ==
    /\ m \in read
    /\ c \notin present /\ SourceOf[c] \in active
    /\ present' = present \cup {c}
    /\ status' = [j \in Job |-> IF j = <<c, m>> THEN "pending" ELSE status[j]]
    /\ UNCHANGED <<config, read, active, embedded, attempts, workerVars>>

\* What revoke_source does to the source, its chunks and their jobs, in the one
\* transaction that also revokes what was derived from it.
RevokeSource(s) ==
    /\ s \in active
    /\ active' = active \ {s}
    /\ status' = [j \in Job |-> IF SourceOf[j[1]] = s /\ LiveJob(j) THEN "skipped" ELSE status[j]]
    /\ embedded' = [c \in Chunk |-> IF SourceOf[c] = s THEN None ELSE embedded[c]]
    /\ UNCHANGED <<config, read, present, attempts, workerVars>>

----------------------------------------------------------------------------
(* One call of run_pending. *)

StartRun(w) ==
    /\ phase[w] = "idle" /\ config # None
    /\ phase' = [phase EXCEPT ![w] = "reading"]
    /\ model' = [model EXCEPT ![w] = config]
    /\ UNCHANGED <<config, read, ownerVars, embedded, jobVars, seen, lease>>

\* The SELECT of queue_missing.
ReadMissing(w) ==
    /\ phase[w] = "reading"
    /\ seen' = [seen EXCEPT ![w] = {c \in Chunk : Eligible(c) /\ embedded[c] # model[w]}]
    /\ phase' = [phase EXCEPT ![w] = "queueing"]
    /\ UNCHANGED <<config, read, ownerVars, embedded, jobVars, model, lease>>

\* Its INSERT ... ON CONFLICT DO UPDATE.
QueueMissing(w) ==
    LET queued == {j \in Job : j[1] \in seen[w] /\ j[2] = model[w] /\ Requeued(j)} IN
    /\ phase[w] = "queueing"
    /\ status' = [j \in Job |-> IF j \in queued THEN "pending" ELSE status[j]]
    /\ attempts' = [j \in Job |-> IF j \in queued THEN 0 ELSE attempts[j]]
    /\ phase' = [phase EXCEPT ![w] = "claiming"]
    /\ seen' = [seen EXCEPT ![w] = {}]
    /\ UNCHANGED <<config, read, ownerVars, embedded, model, lease>>

\* The snapshot of the claim's last SELECT.  The running jobs are those its
\* own transaction may have released.  The owners are read, not locked.
ReadBatch(w) ==
    /\ phase[w] = "claiming"
    /\ seen' = [seen EXCEPT ![w] =
          {c \in Chunk : Eligible(c) /\ status[<<c, model[w]>>] \in {"pending", "running"}}]
    /\ phase' = [phase EXCEPT ![w] = "locking"]
    /\ UNCHANGED <<config, read, ownerVars, embedded, jobVars, model, lease>>

\* Stale jobs of any model are released; of the worker's model, ineligible
\* pending jobs are skipped and a batch is claimed, if its jobs are pending
\* still.  Rows others have locked are left out, so both are any subset.
Claim(w) ==
    /\ phase[w] = "locking"
    /\ \E stale \in SUBSET {j \in Job : status[j] = "running"} :
         LET now == [j \in Job |-> IF j \in stale THEN Released(j) ELSE status[j]]
             mine == {j \in Job : j[2] = model[w] /\ now[j] = "pending"}
         IN  \E retired \in SUBSET {j \in mine : ~Eligible(j[1])},
                batch \in SUBSET {j \in mine : j[1] \in seen[w] /\ CanRetry(j)} :
               /\ status' = [j \in Job |-> IF j \in batch THEN "running"
                                           ELSE IF j \in retired THEN "skipped" ELSE now[j]]
               /\ attempts' = [j \in Job |-> IF j \in batch THEN attempts[j] + 1 ELSE attempts[j]]
               /\ lease' = [lease EXCEPT ![w] =
                     [c \in Chunk |-> IF <<c, model[w]>> \in batch THEN attempts[<<c, model[w]>>] + 1 ELSE 0]]
               /\ phase' = [phase EXCEPT ![w] = IF batch = {} THEN "idle" ELSE "encoding"]
    /\ seen' = [seen EXCEPT ![w] = {}]
    /\ UNCHANGED <<config, read, ownerVars, embedded, model>>

\* The vectors are there and the configuration is still the one of the run.
CheckConfig(w) ==
    /\ phase[w] = "encoding"
    /\ config = model[w]
    /\ phase' = [phase EXCEPT ![w] = "publishing"]
    /\ UNCHANGED <<config, read, ownerVars, embedded, jobVars, model, seen, lease>>

EndRun(w) ==
    /\ phase' = [phase EXCEPT ![w] = "idle"]
    /\ lease' = [lease EXCEPT ![w] = NoLease]
    /\ UNCHANGED <<config, read, ownerVars, model, seen>>

\* The fence locks sources, chunks and jobs, and looks at all of them again.
Publish(w) ==
    /\ phase[w] = "publishing"
    /\ status' = [j \in Job |-> IF j \notin Leased(w) THEN status[j]
                                ELSE IF j[1] \in Publishable(w) THEN "completed" ELSE "skipped"]
    /\ embedded' = [c \in Chunk |-> IF c \in Publishable(w) THEN model[w] ELSE embedded[c]]
    /\ EndRun(w)
    /\ UNCHANGED attempts

\* Loading, encoding or publishing raised, or the configuration has changed.
Fail(w) ==
    /\ phase[w] \in {"encoding", "publishing"}
    /\ status' = [j \in Job |-> IF j \in Leased(w) THEN Released(j) ELSE status[j]]
    /\ EndRun(w)
    /\ UNCHANGED <<embedded, attempts>>

\* The process ends between two transactions.
Crash(w) ==
    /\ phase[w] # "idle"
    /\ phase' = [phase EXCEPT ![w] = "idle"]
    /\ seen' = [seen EXCEPT ![w] = {}]
    /\ lease' = [lease EXCEPT ![w] = NoLease]
    /\ UNCHANGED <<config, read, ownerVars, embedded, jobVars, model>>

Owner ==
    \/ \E m \in Model \cup {None} : Configure(m)
    \/ StartOnboarding
    \/ \E c \in Chunk, m \in Model \cup {None} : AddChunk(c, m)
    \/ \E s \in Source : RevokeSource(s)

Run(w) ==
    \/ StartRun(w) \/ ReadMissing(w) \/ QueueMissing(w) \/ ReadBatch(w) \/ Claim(w)
    \/ CheckConfig(w) \/ Publish(w) \/ Fail(w) \/ Crash(w)

Next == Owner \/ \E w \in Worker : Run(w)

Spec == Init /\ [][Next]_vars

----------------------------------------------------------------------------
(* Properties. *)

\* A revocation is not undone by what was under way: a revoked source's chunks
\* have no vector and no completed job, although stale snapshots may queue a
\* job again and have it claimed and encoded.
RevokedIsCleared ==
    \A c \in Chunk : SourceOf[c] \notin active =>
        /\ embedded[c] = None
        /\ \A m \in Model : status[<<c, m>>] # "completed"

\* No job is stuck: a pending one can be claimed, a running one released, a
\* failed one had all its attempts and a skipped one has lost its source.  Every
\* other state of a chunk without the configured vector is queued again.
NeverStranded ==
    \A j \in Job :
        /\ status[j] = "pending" => CanRetry(j)
        /\ status[j] = "running" => attempts[j] > 0
        /\ status[j] = "failed" => ~CanRetry(j)
        /\ status[j] = "skipped" => SourceOf[j[1]] \notin active

\* Jobs and vectors agree: a completed job's chunk has a vector, and a vector
\* of a model has a job of that model that was not skipped.
VectorsHaveJobs ==
    \A c \in Chunk, m \in Model :
        /\ status[<<c, m>>] = "completed" => embedded[c] # None
        /\ embedded[c] = m => status[<<c, m>>] \notin {"none", "skipped"}

\* docs/KNOWN-LIMITATIONS.md: "a `failed` job is not automatically revived".
\* Neither a late worker, nor a snapshot, nor another model's run moves it;
\* the revocation of its source does.
FailedIsFinal ==
    [][\A j \in Job : status[j] = "failed" =>
          \/ status'[j] = "failed" /\ attempts'[j] = attempts[j]
          \/ status'[j] = "skipped" /\ SourceOf[j[1]] \notin active']_vars

\* Rows are of chunks that exist, and start without attempts.
RowsAreOfChunks ==
    /\ \A j \in Job : /\ status[j] = "none" => attempts[j] = 0
                      /\ status[j] # "none" => j[1] \in present
    /\ \A w \in Worker : seen[w] \subseteq present

\* What every reachable state satisfies: kept by each step from any state that
\* satisfies it.
InductiveInvariant ==
    TypeOK /\ RowsAreOfChunks /\ RevokedIsCleared /\ NeverStranded /\ VectorsHaveJobs

=============================================================================
