----------------------------- MODULE Procedures -----------------------------
(***************************************************************************)
(* One reusable procedure of vres_os: its versions, the one version that   *)
(* is preferred, and the four ways in which the preference moves.          *)
(*                                                                         *)
(*   - the user accepts a new baseline (procedures.accept_baseline);       *)
(*   - the user decides a candidate that the evaluation or the executor    *)
(*     registered (procedures.decide_candidate);                           *)
(*   - a replay of baseline and candidate, validated by an independent     *)
(*     agent and attested, promotes a candidate of a project               *)
(*     (replay.promote_attested);                                          *)
(*   - the same replay with an approval of exactly this promotion promotes *)
(*     a candidate of the company (replay.promote_company_attested).       *)
(*                                                                         *)
(* An approval is the record of a turn the user really said; it is read    *)
(* and spent in a later transaction, and every call can be retried.  The   *)
(* replay runs for minutes: the user can change their mind meanwhile.      *)
(*                                                                         *)
(* Left out: what a method computes and what a run costs (whether a        *)
(* candidate gains is a choice), feedback, and reading procedures.         *)
(***************************************************************************)
EXTENDS Integers, Sequences

CONSTANTS
    Methods,        \* what a version does
    Contracts,      \* the protected input, invariant, validation and output contracts
    MaxWords,       \* bound: turns of the user
    MaxVersions,    \* bound: versions of the procedure
    MaxReplays      \* bound: replays prepared

VARIABLES
    company,        \* the procedure belongs to the company and not to a project
    versions,       \* vres.procedure_versions, with their optimization_candidates row
    preferred,      \* vres.procedures.preferred_version, 0 before the first one
    said,           \* the persisted user instructions
    granted,        \* granted[n]: the subject turn n was recorded to approve
    replays,        \* replays of a baseline and a candidate, by stage
    history         \* ghost: every change of the preference, with the turn it rests on

procedureVars ==
    <<company, versions, preferred, said, granted, replays, history>>

NoGrant == <<>>
NoTurn  == 0

VersionStatuses == {"candidate", "preferred", "superseded", "rejected"}
Decisions == {"none", "pending", "requires_user", "rejected", "user_promoted",
              "user_rejected", "auto_promoted", "company_promoted"}
Stages == {"prepared", "validated", "checked", "attested"}

ProcedureTypeOK ==
    /\ company \in BOOLEAN
    /\ versions \in Seq([status : VersionStatuses, method : Methods, contract : Contracts,
                         base : Nat, approval : Nat, scope : Nat, decision : Decisions,
                         run : {"none", "started", "done"}, replay : Nat])
    /\ preferred \in 0 .. Len(versions)
    /\ said \in Seq({"yes", "no"})
    /\ DOMAIN granted = DOMAIN said
    /\ replays \in Seq([base : Nat, cand : Nat, stage : Stages, at : Nat])
    /\ history \in Seq([version : Nat, word : Nat])

ProcedureInit ==
    /\ company \in BOOLEAN
    /\ versions = <<>>
    /\ preferred = 0
    /\ said = <<>>
    /\ granted = <<>>
    /\ replays = <<>>
    /\ history = <<>>

----------------------------------------------------------------------------
(* The user's turns and the approvals made of them *)

\* what an approval names: in a project the acceptance of a baseline names only the
\* procedure, in the company the whole contract
AcceptSubject(m, c) == IF company THEN <<"accept", m, c>> ELSE <<"accept">>
DecideSubject(v)    == <<"decide", v>>
RejectSubject(v)    == <<"reject", v>>
RegisterSubject(m)  == <<"register", preferred, Len(versions) + 1, m>>
PromoteSubject(r)   == <<"promote", r>>

\* company procedures have no approval type for a decision on a candidate, project
\* procedures none for registering or promoting one
Subjects ==
    {AcceptSubject(m, c) : m \in Methods, c \in Contracts}
      \cup IF company
           THEN {RegisterSubject(m) : m \in Methods}
                  \cup {PromoteSubject(r) : r \in DOMAIN replays}
           ELSE {DecideSubject(v) : v \in DOMAIN versions}
                  \cup {RejectSubject(v) : v \in DOMAIN versions}

UserSays ==
    /\ Len(said) < MaxWords
    /\ \E text \in {"yes", "no"} : said' = Append(said, text)
    /\ granted' = Append(granted, NoGrant)
    /\ UNCHANGED <<company, versions, preferred, replays, history>>

\* The turn is the latest one when the call reads it: by the time it holds the turn's
\* lock the user may have spoken again.
RecordApproval ==
    /\ \E turn \in DOMAIN said, subject \in Subjects :
          /\ said[turn] = IF subject[1] = "reject" THEN "no" ELSE "yes"
          /\ granted[turn] = NoGrant
          /\ granted' = [granted EXCEPT ![turn] = subject]
    /\ UNCHANGED <<company, versions, preferred, said, replays, history>>

Approves(turn, subject) == granted[turn] = subject

----------------------------------------------------------------------------
(* Baselines and candidates *)

Version(status, m, c, approval, scope, decision) ==
    [status |-> status, method |-> m, contract |-> c, base |-> preferred,
     approval |-> approval, scope |-> scope, decision |-> decision,
     run |-> "none", replay |-> 0]

Room == Len(versions) < MaxVersions

\* every preferred version of vs is superseded
Superseding(vs) ==
    [v \in DOMAIN vs |-> IF vs[v].status = "preferred"
                         THEN [vs[v] EXCEPT !.status = "superseded"] ELSE vs[v]]

\* Mutant of Prefer: the number is taken after the row has been counted.
PreferNext(v, word) ==
    /\ preferred' = v + 1
    /\ history' = Append(history, [version |-> v, word |-> word])

Prefer(v, word) ==
    /\ preferred' = v
    /\ history' = Append(history, [version |-> v, word |-> word])

\* Mutant of Unspent: a retry of an acceptance is not recognised.
UnspentAlways(turn) == TRUE

\* no version was accepted with this turn
Unspent(turn) == \A v \in DOMAIN versions : versions[v].approval # turn

AcceptBaseline ==
    /\ Room
    /\ \E turn \in DOMAIN said, m \in Methods, c \in Contracts :
          /\ Approves(turn, AcceptSubject(m, c))
          /\ Unspent(turn)
          /\ versions' = Append(Superseding(versions),
                                Version("preferred", m, c, turn,
                                        IF company THEN turn ELSE NoTurn, "none"))
          /\ Prefer(Len(versions) + 1, turn)
    /\ UNCHANGED <<company, said, granted, replays>>

\* An evaluation never promotes: the measurements are the agent's own.  A change of
\* the protected contract, or a gain, waits for the user; the rest is rejected.
EvaluateCandidate ==
    /\ Room
    /\ preferred # 0
    /\ \E m \in Methods, c \in Contracts, gain \in BOOLEAN :
          LET asks == c # versions[preferred].contract \/ gain IN
          versions' = Append(versions,
                        IF asks THEN Version("candidate", m, c, NoTurn, NoTurn, "requires_user")
                                ELSE Version("rejected", m, c, NoTurn, NoTurn, "rejected"))
    /\ UNCHANGED <<company, preferred, said, granted, replays, history>>

Registered(m) == \E v \in DOMAIN versions :
                    /\ versions[v].base = preferred
                    /\ versions[v].method = m
                    /\ versions[v].decision \in Decisions \ {"none", "requires_user", "rejected"}

RegisterCandidate ==
    /\ Room
    /\ preferred # 0
    /\ \E m \in Methods \ {versions[preferred].method}, turn \in 0 .. Len(said) :
          /\ IF company THEN turn # NoTurn /\ Approves(turn, RegisterSubject(m))
                        ELSE turn = NoTurn
          /\ ~Registered(m)
          /\ versions' = Append(versions, Version("candidate", m, versions[preferred].contract,
                                                  NoTurn, turn, "pending"))
    /\ UNCHANGED <<company, preferred, said, granted, replays, history>>

Undecided(v) == versions[v].status \in {"candidate", "rejected"}

DecideAccept ==
    /\ \E v \in DOMAIN versions, turn \in DOMAIN said :
          /\ Approves(turn, DecideSubject(v))
          /\ versions[v].approval # turn
          /\ Undecided(v)
          /\ versions' = [Superseding(versions) EXCEPT ![v].status = "preferred",
                                                       ![v].approval = turn,
                                                       ![v].decision = "user_promoted"]
          /\ Prefer(v, turn)
    /\ UNCHANGED <<company, said, granted, replays>>

DecideReject ==
    /\ \E v \in DOMAIN versions, turn \in DOMAIN said :
          /\ Approves(turn, RejectSubject(v))
          /\ versions[v].approval # turn
          /\ Undecided(v)
          /\ versions' = [versions EXCEPT ![v].status = "rejected", ![v].approval = turn,
                                          ![v].decision = "user_rejected"]
    /\ UNCHANGED <<company, preferred, said, granted, replays, history>>

----------------------------------------------------------------------------
(* Execution and replay *)

\* The status is read here; the run is recorded when the worker process has ended.
Execute ==
    /\ \E v \in DOMAIN versions :
          /\ versions[v].run = "none"
          /\ versions[v].status \in {"preferred", "candidate"}
          /\ versions' = [versions EXCEPT ![v].run = "started"]
    /\ UNCHANGED <<company, preferred, said, granted, replays, history>>

RecordRuntimeRun ==
    /\ \E v \in DOMAIN versions :
          /\ versions[v].run = "started"
          /\ versions' = [versions EXCEPT ![v].run = "done"]
    /\ UNCHANGED <<company, preferred, said, granted, replays, history>>

Pair(b, c) ==
    /\ b # c
    /\ versions[b].run = "done"
    /\ versions[c].run = "done"
    /\ versions[b].contract = versions[c].contract

\* Mutant of Fresh: only the baseline is looked at again.
FreshBaseline(r) == preferred = replays[r].base

\* the baseline is still the preferred version and the candidate still a candidate
Fresh(r) == /\ preferred = replays[r].base
            /\ versions[replays[r].cand].status = "candidate"

PrepareReplay ==
    /\ Len(replays) < MaxReplays
    /\ \E c \in DOMAIN versions :
          /\ preferred # 0
          /\ Pair(preferred, c)
          /\ versions[c].status = "candidate"
          /\ replays' = Append(replays, [base |-> preferred, cand |-> c,
                                         stage |-> "prepared", at |-> Len(history)])
    /\ UNCHANGED <<company, versions, preferred, said, granted, history>>

Stage(r, from, to) ==
    /\ replays[r].stage = from
    /\ replays' = [replays EXCEPT ![r].stage = to]

\* the independent validator found the outputs equivalent and no regression
ReplayPasses ==
    /\ \E r \in DOMAIN replays : Stage(r, "prepared", "validated")
    /\ UNCHANGED <<company, versions, preferred, said, granted, history>>

\* attest reads versions and preference without a lock and writes afterwards
AttestReads ==
    /\ \E r \in DOMAIN replays : Fresh(r) /\ Stage(r, "validated", "checked")
    /\ UNCHANGED <<company, versions, preferred, said, granted, history>>

AttestWrites ==
    /\ \E r \in DOMAIN replays :
          /\ Stage(r, "checked", "attested")
          /\ versions' = [versions EXCEPT ![replays[r].cand].replay = r]
    /\ UNCHANGED <<company, preferred, said, granted, history>>

Promotable(r) == replays[r].stage = "attested" /\ Fresh(r)

PromoteAttested ==
    /\ ~company
    /\ \E r \in DOMAIN replays :
          LET new == replays[r].cand IN
          /\ Promotable(r)
          /\ versions' = [versions EXCEPT ![preferred].status = "superseded",
                                          ![new].status = "preferred",
                                          ![new].decision = "auto_promoted",
                                          ![new].replay = r]
          /\ Prefer(new, NoTurn)
    /\ UNCHANGED <<company, said, granted, replays>>

PromoteCompanyAttested ==
    /\ company
    /\ \E r \in DOMAIN replays, turn \in DOMAIN said :
          LET new == replays[r].cand IN
          /\ Promotable(r)
          /\ versions[new].decision = "pending"
          /\ versions[new].scope # NoTurn
          /\ versions[new].replay = r
          /\ Approves(turn, PromoteSubject(r))
          /\ versions' = [versions EXCEPT ![preferred].status = "superseded",
                                          ![new].status = "preferred",
                                          ![new].decision = "company_promoted",
                                          ![new].approval = turn, ![new].scope = turn]
          /\ Prefer(new, turn)
    /\ UNCHANGED <<company, said, granted, replays>>

ProcedureNext ==
    \/ UserSays \/ RecordApproval
    \/ AcceptBaseline \/ EvaluateCandidate \/ RegisterCandidate
    \/ DecideAccept \/ DecideReject
    \/ Execute \/ RecordRuntimeRun
    \/ PrepareReplay \/ ReplayPasses \/ AttestReads \/ AttestWrites
    \/ PromoteAttested \/ PromoteCompanyAttested

ProcedureSpec == ProcedureInit /\ [][ProcedureNext]_procedureVars

----------------------------------------------------------------------------
(* Properties *)

\* One word of the user moves the preference at most once: however often a call is
\* retried, and whatever was accepted, rejected or superseded in between, an approval
\* that has been spent never brings an old version back.
OneWordOneChange ==
    \A i, j \in DOMAIN history :
        history[i].word = history[j].word /\ history[i].word # NoTurn => i = j

\* A replay yields to the user: it promotes a candidate only if the preference has not
\* moved at all since the replay was prepared (not even away and back), and the user
\* has not rejected that candidate.
ReplayYieldsToUser ==
    [][\A v \in DOMAIN versions :
          (/\ versions'[v].decision \in {"auto_promoted", "company_promoted"}
           /\ versions[v].decision # versions'[v].decision)
          => /\ versions[v].decision # "user_rejected"
             /\ replays[versions'[v].replay].at = Len(history)]_procedureVars
=============================================================================
