--------------------------- MODULE ServicesProofs ---------------------------
(***************************************************************************)
(* The services that stand by themselves: procedures, the broker of        *)
(* credentials and the reply guard, for any values of their constants; and *)
(* the run of all seven services in one behaviour, which is a behaviour of *)
(* each of them, so that what is proved of one holds in it.                *)
(***************************************************************************)
EXTENDS MCServices, KnowledgeProofs, SessionsProofs, GovernanceTxnProofs

----------------------------------------------------------------------------
(* Procedures.  A word is spent once the version it settled is settled:    *)
(* preferred, or superseded by a later one.  Settled versions stay so and  *)
(* keep their approval (SettledStay), which is what stops an approval from *)
(* moving the preference again although versions that are not settled may  *)
(* be approved anew.  A replay that has been overtaken stays overtaken,    *)
(* because its baseline is settled and only other versions can become      *)
(* preferred (ReplaysAreOvertaken).                                        *)

VersionRecord == [status : VersionStatuses, method : Methods, contract : Contracts,
                  base : Nat, approval : Nat, scope : Nat, decision : Decisions,
                  run : {"none", "started", "done"}, replay : Nat]
ReplayRecord == [base : Nat, cand : Nat, stage : Stages, at : Nat]

\* What a turn can be recorded to approve, for whatever the procedure has come to.
Grants == {NoGrant, <<"accept">>} \cup ({"accept"} \X Methods \X Contracts)
            \cup ({"decide", "reject", "promote"} \X Nat)
            \cup ({"register"} \X Nat \X Nat \X Methods)

SettledStatus == {"preferred", "superseded"}
IsSettled(v) == v \in DOMAIN versions /\ versions[v].status \in SettledStatus

\* The acceptance, decision or promotion that the word was recorded to approve.
AcceptsWith(w) == /\ \E m \in Methods, c \in Contracts : granted[w] = AcceptSubject(m, c)
                  /\ \E v \in DOMAIN versions : IsSettled(v) /\ versions[v].approval = w
DecidesWith(w) == \E v \in DOMAIN versions : granted[w] = DecideSubject(v) /\ IsSettled(v)
PromotesWith(w) == \E r \in DOMAIN replays : granted[w] = PromoteSubject(r) /\ IsSettled(replays[r].cand)

SpentWord(w) == w \in DOMAIN said /\ (AcceptsWith(w) \/ DecidesWith(w) \/ PromotesWith(w))

PreferredIsOne == \A v \in DOMAIN versions : versions[v].status = "preferred" <=> v = preferred

WordsAreSpent == \A i \in DOMAIN history : history[i].word # NoTurn => SpentWord(history[i].word)

RejectedStays == \A v \in DOMAIN versions :
                    versions[v].decision = "user_rejected" => versions[v].status = "rejected"

ReplaysAreOvertaken ==
    \A r \in DOMAIN replays :
        /\ replays[r].cand \in DOMAIN versions
        /\ IsSettled(replays[r].base)
        /\ replays[r].at <= Len(history)
        /\ replays[r].at < Len(history) => replays[r].base # preferred

ProcedureInvariant ==
    /\ ProcedureTypeOK
    /\ granted \in Seq(Grants)
    /\ PreferredIsOne
    /\ WordsAreSpent
    /\ OneWordOneChange
    /\ RejectedStays
    /\ ReplaysAreOvertaken

----------------------------------------------------------------------------
(* Sequences that grow at the end, or change in one place. *)

LEMMA AppendedTo ==
    ASSUME NEW S, NEW s \in Seq(S), NEW e \in S
    PROVE  /\ Append(s, e) \in Seq(S)
           /\ Len(Append(s, e)) = Len(s) + 1
           /\ DOMAIN Append(s, e) = DOMAIN s \cup {Len(s) + 1}
           /\ \A i \in DOMAIN s : Append(s, e)[i] = s[i]
           /\ Append(s, e)[Len(s) + 1] = e
OBVIOUS

LEMMA ChangedAt ==
    ASSUME NEW S, NEW s \in Seq(S), NEW i \in DOMAIN s, NEW e \in S
    PROVE  /\ [s EXCEPT ![i] = e] \in Seq(S)
           /\ Len([s EXCEPT ![i] = e]) = Len(s)
           /\ DOMAIN [s EXCEPT ![i] = e] = DOMAIN s
           /\ [s EXCEPT ![i] = e][i] = e
           /\ \A j \in DOMAIN s \ {i} : [s EXCEPT ![i] = e][j] = s[j]
BY ExceptSeq

----------------------------------------------------------------------------
(* What is approved. *)

\* No two kinds of subject coincide, and decisions and promotions name what they are about.
LEMMA SubjectsDiffer ==
    /\ \A m \in Methods, c \in Contracts :
          /\ AcceptSubject(m, c) # NoGrant
          /\ \A n \in Nat : AcceptSubject(m, c) # DecideSubject(n) /\ AcceptSubject(m, c) # PromoteSubject(n)
    /\ \A n, k \in Nat :
          /\ DecideSubject(n) # NoGrant /\ PromoteSubject(n) # NoGrant
          /\ DecideSubject(n) # PromoteSubject(k)
          /\ DecideSubject(n) = DecideSubject(k) => n = k
          /\ PromoteSubject(n) = PromoteSubject(k) => n = k
<1>1. \A m \in Methods, c \in Contracts :
          /\ AcceptSubject(m, c) # NoGrant
          /\ \A n \in Nat : AcceptSubject(m, c) # DecideSubject(n) /\ AcceptSubject(m, c) # PromoteSubject(n)
  <2> SUFFICES ASSUME NEW m \in Methods, NEW c \in Contracts, NEW n \in Nat
               PROVE  /\ AcceptSubject(m, c) # NoGrant
                      /\ AcceptSubject(m, c) # DecideSubject(n)
                      /\ AcceptSubject(m, c) # PromoteSubject(n)
    OBVIOUS
  <2>1. AcceptSubject(m, c)[1] = "accept" /\ DecideSubject(n)[1] = "decide" /\ PromoteSubject(n)[1] = "promote"
    BY DEF AcceptSubject, DecideSubject, PromoteSubject
  <2>2. AcceptSubject(m, c) # NoGrant
    BY DEF AcceptSubject, NoGrant
  <2> QED
    BY <2>1, <2>2
<1>2. ASSUME NEW n \in Nat, NEW k \in Nat
      PROVE  /\ DecideSubject(n) # NoGrant /\ PromoteSubject(n) # NoGrant
             /\ DecideSubject(n) # PromoteSubject(k)
             /\ DecideSubject(n) = DecideSubject(k) => n = k
             /\ PromoteSubject(n) = PromoteSubject(k) => n = k
  BY DEF DecideSubject, PromoteSubject, NoGrant
<1> QED
  BY <1>1, <1>2

LEMMA ProcedureIsTyped ==
    ASSUME ProcedureTypeOK
    PROVE  /\ versions \in Seq(VersionRecord) /\ replays \in Seq(ReplayRecord)
           /\ Len(versions) \in Nat /\ DOMAIN versions = 1..Len(versions)
           /\ \A v \in DOMAIN versions : versions[v] \in VersionRecord
           /\ preferred \in Nat /\ (preferred # 0 => preferred \in DOMAIN versions)
           /\ Len(said) \in Nat /\ DOMAIN said = 1..Len(said)
           /\ Len(replays) \in Nat /\ DOMAIN replays = 1..Len(replays)
           /\ \A r \in DOMAIN replays : replays[r] \in ReplayRecord /\ replays[r].at \in Nat
           /\ Len(history) \in Nat /\ DOMAIN history = 1..Len(history)
<1>1. versions \in Seq(VersionRecord) /\ replays \in Seq(ReplayRecord)
  BY DEF ProcedureTypeOK, VersionRecord, ReplayRecord
<1>2. /\ Len(versions) \in Nat /\ DOMAIN versions = 1..Len(versions)
      /\ \A v \in DOMAIN versions : versions[v] \in VersionRecord
  BY <1>1
<1>3. /\ Len(replays) \in Nat /\ DOMAIN replays = 1..Len(replays)
      /\ \A r \in DOMAIN replays : replays[r] \in ReplayRecord
  BY <1>1
<1>4. \A r \in ReplayRecord : r.at \in Nat
  BY DEF ReplayRecord
<1>5. preferred \in Nat /\ (preferred # 0 => preferred \in DOMAIN versions)
  BY <1>2 DEF ProcedureTypeOK
<1>6. /\ Len(said) \in Nat /\ DOMAIN said = 1..Len(said)
      /\ Len(history) \in Nat /\ DOMAIN history = 1..Len(history)
  BY DEF ProcedureTypeOK
<1> QED
  BY <1>1, <1>2, <1>3, <1>4, <1>5, <1>6

LEMMA SubjectsAreTyped ==
    ASSUME ProcedureTypeOK, NEW subject \in Subjects
    PROVE  subject \in Grants
<1> USE DEF ProcedureTypeOK
<1>1. CASE \E m \in Methods, c \in Contracts : subject = AcceptSubject(m, c)
  BY <1>1 DEF AcceptSubject, Grants
<1>2. CASE \E m \in Methods : subject = RegisterSubject(m)
  BY <1>2 DEF RegisterSubject, Grants
<1>3. CASE \E r \in DOMAIN replays : subject = PromoteSubject(r)
  <2>1. PICK r \in DOMAIN replays : subject = PromoteSubject(r)
    BY <1>3
  <2>2. r \in Nat
    BY ProcedureIsTyped
  <2>3. subject \in {"decide", "reject", "promote"} \X Nat
    BY <2>1, <2>2 DEF PromoteSubject
  <2> QED
    BY <2>3 DEF Grants
<1>4. CASE \E v \in DOMAIN versions : subject = DecideSubject(v) \/ subject = RejectSubject(v)
  <2>1. PICK v \in DOMAIN versions : subject = DecideSubject(v) \/ subject = RejectSubject(v)
    BY <1>4
  <2>2. v \in Nat
    BY ProcedureIsTyped
  <2>3. subject \in {"decide", "reject", "promote"} \X Nat
    BY <2>1, <2>2 DEF DecideSubject, RejectSubject
  <2> QED
    BY <2>3 DEF Grants
<1> QED
  BY <1>1, <1>2, <1>3, <1>4 DEF Subjects

----------------------------------------------------------------------------
(* What every step keeps. *)

\* No version is lost, and one that is settled stays so with its approval.
SettledStay ==
    \A v \in DOMAIN versions :
        /\ v \in DOMAIN versions'
        /\ IsSettled(v) => /\ versions'[v].status \in SettledStatus
                           /\ versions'[v].approval = versions[v].approval

\* What has been said and approved stays.
SaidStays ==
    /\ company' = company
    /\ \A w \in DOMAIN said : w \in DOMAIN said' /\ (granted[w] # NoGrant => granted'[w] = granted[w])

ReplaysStay ==
    \A r \in DOMAIN replays : /\ r \in DOMAIN replays'
                              /\ replays'[r].base = replays[r].base
                              /\ replays'[r].cand = replays[r].cand
                              /\ replays'[r].at = replays[r].at

LEMMA SpentStays ==
    ASSUME ProcedureInvariant, SettledStay, SaidStays, ReplaysStay, NEW w, SpentWord(w)
    PROVE  SpentWord(w)'
<1> USE DEF ProcedureInvariant, ProcedureTypeOK
<1>1. \A v \in DOMAIN versions : v \in Nat
  BY ProcedureIsTyped
<1>2. \A r \in DOMAIN replays : r \in Nat
  BY ProcedureIsTyped
<1>3. \A v : IsSettled(v) => IsSettled(v)' /\ versions'[v].approval = versions[v].approval
  BY DEF SettledStay, IsSettled
<1>4. \A m, c : AcceptSubject(m, c)' = AcceptSubject(m, c)
  BY DEF AcceptSubject, SaidStays
<1>5. w \in DOMAIN said'
  BY DEF SpentWord, SaidStays
<1>6. CASE AcceptsWith(w)
  <2>1. PICK m \in Methods, c \in Contracts : granted[w] = AcceptSubject(m, c)
    BY <1>6 DEF AcceptsWith
  <2>2. PICK v \in DOMAIN versions : IsSettled(v) /\ versions[v].approval = w
    BY <1>6 DEF AcceptsWith
  <2>3. granted'[w] = granted[w]
    BY <2>1, SubjectsDiffer DEF SaidStays, SpentWord
  <2>4. v \in DOMAIN versions' /\ IsSettled(v)' /\ versions'[v].approval = w
    BY <1>3, <2>2 DEF IsSettled
  <2>5. AcceptsWith(w)'
    BY <2>1, <2>3, <2>4, <1>4 DEF AcceptsWith
  <2> QED
    BY <1>5, <2>5 DEF SpentWord
<1>7. CASE DecidesWith(w)
  <2>1. PICK v \in DOMAIN versions : granted[w] = DecideSubject(v) /\ IsSettled(v)
    BY <1>7 DEF DecidesWith
  <2>2. granted'[w] = granted[w]
    BY <1>1, <2>1, SubjectsDiffer DEF SaidStays, SpentWord
  <2>3. v \in DOMAIN versions' /\ IsSettled(v)'
    BY <1>3, <2>1 DEF IsSettled
  <2>4. DecidesWith(w)'
    BY <2>1, <2>2, <2>3 DEF DecidesWith, DecideSubject
  <2> QED
    BY <1>5, <2>4 DEF SpentWord
<1>8. CASE PromotesWith(w)
  <2>1. PICK r \in DOMAIN replays : granted[w] = PromoteSubject(r) /\ IsSettled(replays[r].cand)
    BY <1>8 DEF PromotesWith
  <2>2. granted'[w] = granted[w]
    BY <1>2, <2>1, SubjectsDiffer DEF SaidStays, SpentWord
  <2>3. r \in DOMAIN replays' /\ IsSettled(replays[r].cand)'
    BY <1>3, <2>1 DEF ReplaysStay, IsSettled
  <2>4. PromotesWith(w)'
    <3>1. replays'[r].cand = replays[r].cand
      BY DEF ReplaysStay
    <3>2. replays'[r].cand \in DOMAIN versions' /\ versions'[replays'[r].cand].status \in SettledStatus
      BY <2>3, <3>1 DEF IsSettled
    <3> QED
      BY <2>1, <2>2, <2>3, <3>2 DEF PromotesWith, PromoteSubject, IsSettled
  <2> QED
    BY <1>5, <2>4 DEF SpentWord
<1> QED
  BY <1>6, <1>7, <1>8 DEF SpentWord

\* A step that leaves the preference alone: versions and replays may join, but none that
\* is preferred, none is superseded, and a new replay is one of the preferred version.
QuietStep ==
    /\ UNCHANGED <<preferred, history>>
    /\ SaidStays /\ SettledStay /\ ReplaysStay
    /\ \A v \in DOMAIN versions' :
          /\ versions'[v].status = "preferred" <=> v \in DOMAIN versions /\ versions[v].status = "preferred"
          /\ versions'[v].decision = "user_rejected" => versions'[v].status = "rejected"
    /\ \A r \in DOMAIN replays' \ DOMAIN replays :
          /\ replays'[r].cand \in DOMAIN versions'
          /\ preferred # 0 /\ replays'[r].base = preferred
          /\ replays'[r].at = Len(history)

LEMMA QuietStepKeeps ==
    ASSUME ProcedureInvariant, ProcedureTypeOK', granted' \in Seq(Grants), QuietStep
    PROVE  ProcedureInvariant'
<1> USE DEF ProcedureInvariant
<1>1. PreferredIsOne'
  <2>1. 0 \notin DOMAIN versions'
    BY DEF ProcedureTypeOK
  <2>2. preferred' = preferred /\ (preferred # 0 => preferred \in DOMAIN versions)
    BY ProcedureIsTyped DEF QuietStep
  <2>3. preferred \in DOMAIN versions => preferred \in DOMAIN versions'
    BY DEF QuietStep, SettledStay
  <2> QED
    BY <2>1, <2>2, <2>3 DEF PreferredIsOne, QuietStep
<1>2. WordsAreSpent'
  BY SpentStays DEF WordsAreSpent, QuietStep
<1>3. OneWordOneChange'
  BY DEF OneWordOneChange, QuietStep
<1>4. RejectedStays'
  BY DEF RejectedStays, QuietStep
<1>5. ReplaysAreOvertaken'
  <2> SUFFICES ASSUME NEW r \in DOMAIN replays'
               PROVE  /\ replays'[r].cand \in DOMAIN versions'
                      /\ replays'[r].base \in DOMAIN versions'
                      /\ versions'[replays'[r].base].status \in SettledStatus
                      /\ replays'[r].at <= Len(history)
                      /\ replays'[r].at < Len(history) => replays'[r].base # preferred
    BY DEF ReplaysAreOvertaken, QuietStep, IsSettled
  <2>1. CASE r \in DOMAIN replays
    <3>1. /\ replays'[r].base = replays[r].base /\ replays'[r].cand = replays[r].cand
          /\ replays'[r].at = replays[r].at
      BY <2>1 DEF QuietStep, ReplaysStay
    <3>2. /\ replays[r].cand \in DOMAIN versions /\ IsSettled(replays[r].base)
          /\ replays[r].at <= Len(history)
          /\ replays[r].at < Len(history) => replays[r].base # preferred
      BY <2>1 DEF ReplaysAreOvertaken
    <3> QED
      BY <3>1, <3>2 DEF QuietStep, SettledStay, IsSettled
  <2>2. CASE r \notin DOMAIN replays
    <3>1. IsSettled(preferred)
      BY <2>2, ProcedureIsTyped DEF QuietStep, PreferredIsOne, IsSettled, SettledStatus
    <3>2. IsSettled(preferred)'
      BY <3>1 DEF QuietStep, SettledStay, IsSettled
    <3>3. Len(history) \in Nat
      BY ProcedureIsTyped
    <3>4. /\ replays'[r].cand \in DOMAIN versions' /\ replays'[r].base = preferred
          /\ replays'[r].at = Len(history) /\ preferred' = preferred
      BY <2>2 DEF QuietStep
    <3> QED
      BY <3>2, <3>3, <3>4 DEF IsSettled
  <2> QED
    BY <2>1, <2>2
<1> QED
  BY <1>1, <1>2, <1>3, <1>4, <1>5

\* A step that makes v, which was not settled, the preferred version: the others keep
\* their status, but for the last one preferred.
PreferStep(v, word) ==
    /\ Prefer(v, word)
    /\ UNCHANGED <<company, said, granted, replays>>
    /\ ~IsSettled(v)
    /\ v \in DOMAIN versions' /\ versions'[v].status = "preferred"
    /\ \A u \in DOMAIN versions : u \in DOMAIN versions'
    /\ \A u \in DOMAIN versions' \ {v} :
          /\ u \in DOMAIN versions
          /\ versions'[u].approval = versions[u].approval
          /\ versions'[u].decision = versions[u].decision
          /\ versions'[u].status = IF u = preferred THEN "superseded" ELSE versions[u].status
    /\ versions'[v].decision # "user_rejected"

LEMMA PreferKeeps ==
    ASSUME ProcedureInvariant, ProcedureTypeOK', NEW v, NEW word, PreferStep(v, word),
           word # NoTurn => ~SpentWord(word) /\ SpentWord(word)'
    PROVE  ProcedureInvariant'
<1> USE DEF ProcedureInvariant
<1>1. SaidStays /\ ReplaysStay
  BY DEF PreferStep, SaidStays, ReplaysStay, ProcedureTypeOK
<1>2. SettledStay
  BY DEF PreferStep, SettledStay, IsSettled, SettledStatus
<1>3. PreferredIsOne'
  <2>1. preferred' = v
    BY DEF PreferStep, Prefer
  <2> QED
    BY <2>1 DEF PreferStep, PreferredIsOne
<1>4. /\ history' \in Seq([version : Nat, word : Nat])
      /\ Len(history) \in Nat /\ Len(history') = Len(history) + 1
      /\ DOMAIN history' = DOMAIN history \cup {Len(history) + 1}
      /\ \A i \in DOMAIN history : history'[i] = history[i]
      /\ history'[Len(history) + 1].word = word
  <2>1. [version |-> v, word |-> word] \in [version : Nat, word : Nat]
    <3>1. history' = Append(history, [version |-> v, word |-> word])
      BY DEF PreferStep, Prefer
    <3> QED
      BY <3>1, ProcedureIsTyped DEF ProcedureTypeOK
  <2> DEFINE change == [version |-> v, word |-> word]
  <2>2. change \in [version : Nat, word : Nat] /\ change.word = word /\ history' = Append(history, change)
    BY <2>1 DEF PreferStep, Prefer
  <2>3. history \in Seq([version : Nat, word : Nat])
    BY DEF ProcedureTypeOK
  <2> HIDE DEF change
  <2> QED
    BY <2>2, <2>3, AppendedTo, ProcedureIsTyped
<1>5. WordsAreSpent'
  <2>1. \A w : \A i \in DOMAIN history : w = history[i].word /\ w # NoTurn => SpentWord(w)'
    <3>1. \A w : \A i \in DOMAIN history : w = history[i].word /\ w # NoTurn => SpentWord(w)
      BY DEF WordsAreSpent
    <3>2. ASSUME NEW w, SpentWord(w) PROVE SpentWord(w)'
      BY <1>1, <1>2, <3>2, SpentStays
    <3> QED
      BY <3>1, <3>2
  <2> QED
    BY <1>4, <2>1 DEF WordsAreSpent
<1>6. OneWordOneChange'
  <2>1. \A i \in DOMAIN history : history[i].word # NoTurn => history[i].word # word
    BY DEF WordsAreSpent
  <2> QED
    BY <1>4, <2>1 DEF OneWordOneChange
<1>7. RejectedStays'
  BY DEF RejectedStays, PreferStep, PreferredIsOne
<1>8. ReplaysAreOvertaken'
  <2>1. \A r \in DOMAIN replays : IsSettled(replays[r].base)'
    BY <1>2 DEF ReplaysAreOvertaken, PreferStep, SettledStay, IsSettled
  <2>2. preferred' = v /\ replays' = replays
    BY DEF PreferStep, Prefer
  <2>3. \A r \in DOMAIN replays : replays[r].at \in Nat
    BY ProcedureIsTyped
  <2> QED
    BY <1>4, <2>1, <2>2, <2>3, <1>2 DEF ReplaysAreOvertaken, PreferStep, IsSettled, SettledStay
<1> QED
  BY <1>3, <1>5, <1>6, <1>7, <1>8 DEF PreferStep

----------------------------------------------------------------------------
(* One step after the other.  The versions of a step are compared with those *)
(* before it one by one: one joins, or some fields of one or two change.   *)

LEMMA ProcedureStart == ProcedureInit => ProcedureInvariant
<1> SUFFICES ASSUME ProcedureInit PROVE ProcedureInvariant
  OBVIOUS
<1>1. ProcedureTypeOK /\ granted \in Seq(Grants)
  BY DEF ProcedureInit, ProcedureTypeOK
<1>2. PreferredIsOne /\ WordsAreSpent /\ OneWordOneChange /\ RejectedStays /\ ReplaysAreOvertaken
  BY DEF ProcedureInit, PreferredIsOne, WordsAreSpent, OneWordOneChange, RejectedStays, ReplaysAreOvertaken
<1> QED
  BY <1>1, <1>2 DEF ProcedureInvariant

LEMMA SayingKeeps ==
    ASSUME ProcedureInvariant, UserSays \/ RecordApproval
    PROVE  ProcedureInvariant'
<1> USE DEF ProcedureInvariant
<1>1. UNCHANGED <<company, versions, preferred, replays, history>>
  BY DEF UserSays, RecordApproval
<1>2. ProcedureTypeOK' /\ granted' \in Seq(Grants) /\ SaidStays
  <2>1. CASE UserSays
    <3>1. PICK text \in {"yes", "no"} : said' = Append(said, text)
      BY <2>1 DEF UserSays
    <3>2. granted' = Append(granted, NoGrant) /\ NoGrant \in Grants
      BY <2>1 DEF UserSays, Grants
    <3>3. DOMAIN granted = DOMAIN said /\ Len(granted) = Len(said)
      BY DEF ProcedureTypeOK
    <3> HIDE DEF NoGrant
    <3>4. /\ said' \in Seq({"yes", "no"}) /\ granted' \in Seq(Grants)
          /\ DOMAIN said' = DOMAIN said \cup {Len(said) + 1} /\ DOMAIN granted' = DOMAIN said'
          /\ \A w \in DOMAIN said : granted'[w] = granted[w]
      <4>1. said \in Seq({"yes", "no"})
        BY DEF ProcedureTypeOK
      <4>2. /\ said' \in Seq({"yes", "no"}) /\ DOMAIN said' = DOMAIN said \cup {Len(said) + 1}
        BY <3>1, <4>1, AppendedTo
      <4>3. /\ granted' \in Seq(Grants) /\ DOMAIN granted' = DOMAIN granted \cup {Len(granted) + 1}
            /\ \A w \in DOMAIN granted : granted'[w] = granted[w]
        BY <3>2, AppendedTo
      <4> QED
        BY <3>3, <4>2, <4>3
    <3> QED
      BY <1>1, <3>4 DEF ProcedureTypeOK, SaidStays
  <2>2. CASE RecordApproval
    <3>1. PICK word \in DOMAIN said, subject \in Subjects :
             granted[word] = NoGrant /\ granted' = [granted EXCEPT ![word] = subject]
      BY <2>2 DEF RecordApproval
    <3>2. subject \in Grants /\ word \in DOMAIN granted
      BY SubjectsAreTyped DEF ProcedureTypeOK
    <3>3. /\ granted' \in Seq(Grants) /\ DOMAIN granted' = DOMAIN granted
          /\ \A w \in DOMAIN granted \ {word} : granted'[w] = granted[w]
      BY <3>1, <3>2, ChangedAt
    <3>4. said' = said
      BY <2>2 DEF RecordApproval
    <3>5. DOMAIN granted = DOMAIN said
      BY DEF ProcedureTypeOK
    <3>6. ProcedureTypeOK'
      BY <1>1, <3>3, <3>4 DEF ProcedureTypeOK
    <3>7. SaidStays
      BY <1>1, <3>1, <3>3, <3>4, <3>5 DEF SaidStays
    <3> QED
      BY <3>3, <3>6, <3>7
  <2> QED
    BY <2>1, <2>2
<1>3. QuietStep
  BY <1>1, <1>2 DEF QuietStep, SettledStay, ReplaysStay, IsSettled, SettledStatus, RejectedStays
<1> QED
  BY <1>2, <1>3, QuietStepKeeps

\* A version that joins without being preferred.
LEMMA CandidateJoins ==
    ASSUME ProcedureInvariant, NEW rec \in VersionRecord, rec.status \in {"candidate", "rejected"},
           rec.decision # "user_rejected", versions' = Append(versions, rec),
           UNCHANGED <<company, preferred, said, granted, replays, history>>
    PROVE  ProcedureInvariant'
<1> USE DEF ProcedureInvariant
<1>1. /\ versions' \in Seq(VersionRecord) /\ Len(versions') = Len(versions) + 1
      /\ DOMAIN versions' = DOMAIN versions \cup {Len(versions) + 1}
      /\ \A v \in DOMAIN versions : versions'[v] = versions[v]
      /\ versions'[Len(versions) + 1] = rec /\ Len(versions) + 1 \notin DOMAIN versions
  BY ProcedureIsTyped, AppendedTo
<1>2. ProcedureTypeOK'
  <2>1. preferred \in 0..Len(versions')
    BY <1>1, ProcedureIsTyped DEF ProcedureTypeOK
  <2> QED
    BY <1>1, <2>1 DEF ProcedureTypeOK, VersionRecord
<1>3. SaidStays /\ SettledStay /\ ReplaysStay
  BY <1>1 DEF SaidStays, SettledStay, ReplaysStay, IsSettled
<1>4. QuietStep
  BY <1>1, <1>3 DEF QuietStep, RejectedStays
<1> QED
  BY <1>2, <1>4, QuietStepKeeps DEF ProcedureTypeOK

LEMMA VersionIsTyped ==
    ASSUME ProcedureTypeOK, NEW status \in VersionStatuses, NEW m \in Methods, NEW c \in Contracts,
           NEW approval \in Nat, NEW scope \in Nat, NEW decision \in Decisions
    PROVE  LET rec == Version(status, m, c, approval, scope, decision)
           IN  /\ rec \in VersionRecord /\ rec.status = status
               /\ rec.decision = decision /\ rec.approval = approval
<1>1. preferred \in Nat
  BY ProcedureIsTyped
<1> QED
  BY <1>1 DEF Version, VersionRecord

LEMMA CandidatesKeep ==
    ASSUME ProcedureInvariant, EvaluateCandidate \/ RegisterCandidate
    PROVE  ProcedureInvariant'
<1>0. ProcedureTypeOK
  BY DEF ProcedureInvariant
<1>1. CASE EvaluateCandidate
  <2>1. PICK m \in Methods, c \in Contracts, asks \in BOOLEAN :
           versions' = Append(versions,
                         IF asks THEN Version("candidate", m, c, NoTurn, NoTurn, "requires_user")
                                 ELSE Version("rejected", m, c, NoTurn, NoTurn, "rejected"))
    BY <1>1 DEF EvaluateCandidate
  <2>2. NoTurn \in Nat
    BY DEF NoTurn
  <2> DEFINE rec == IF asks THEN Version("candidate", m, c, NoTurn, NoTurn, "requires_user")
                            ELSE Version("rejected", m, c, NoTurn, NoTurn, "rejected")
  <2>3. rec \in VersionRecord /\ rec.status \in {"candidate", "rejected"} /\ rec.decision # "user_rejected"
    BY <1>0, <2>2, VersionIsTyped DEF VersionStatuses, Decisions
  <2> HIDE DEF rec
  <2>4. versions' = Append(versions, rec)
    BY <2>1 DEF rec
  <2> QED
    BY <1>1, <2>3, <2>4, CandidateJoins DEF EvaluateCandidate
<1>2. CASE RegisterCandidate
  <2>1. PICK m \in Methods, word \in 0..Len(said) :
           versions' = Append(versions, Version("candidate", m, versions[preferred].contract,
                                                NoTurn, word, "pending"))
    BY <1>2 DEF RegisterCandidate
  <2>2. NoTurn \in Nat /\ word \in Nat
    BY DEF NoTurn
  <2>3. versions[preferred].contract \in Contracts
    <3>1. versions[preferred] \in VersionRecord
      BY <1>0, <1>2, ProcedureIsTyped DEF RegisterCandidate
    <3> QED
      BY <3>1 DEF VersionRecord
  <2> DEFINE c == versions[preferred].contract
             rec == Version("candidate", m, c, NoTurn, word, "pending")
  <2> HIDE DEF c
  <2>4. rec \in VersionRecord /\ rec.status \in {"candidate", "rejected"} /\ rec.decision # "user_rejected"
    <3>1. c \in Contracts /\ "candidate" \in VersionStatuses /\ "pending" \in Decisions
      BY <2>3 DEF c, VersionStatuses, Decisions
    <3> QED
      BY <1>0, <2>2, <3>1, VersionIsTyped
  <2> HIDE DEF rec
  <2>5. versions' = Append(versions, rec)
    BY <2>1 DEF rec, c
  <2> QED
    BY <1>2, <2>4, <2>5, CandidateJoins DEF RegisterCandidate
<1> QED
  BY <1>1, <1>2

\* One version changes in place, and neither becomes preferred nor ceases to be settled.
LEMMA VersionChanges ==
    ASSUME ProcedureInvariant, NEW v \in DOMAIN versions, NEW rec \in VersionRecord,
           versions' = [versions EXCEPT ![v] = rec],
           rec.status = versions[v].status \/ (~IsSettled(v) /\ rec.status = "rejected"),
           IsSettled(v) => rec.approval = versions[v].approval,
           rec.decision = "user_rejected" => rec.status = "rejected",
           UNCHANGED <<company, preferred, said, granted, history>>,
           replays' \in Seq(ReplayRecord), DOMAIN replays' = DOMAIN replays, ReplaysStay
    PROVE  ProcedureInvariant'
<1> USE DEF ProcedureInvariant
<1>1. /\ versions' \in Seq(VersionRecord) /\ Len(versions') = Len(versions)
      /\ DOMAIN versions' = DOMAIN versions /\ versions'[v] = rec
      /\ \A u \in DOMAIN versions \ {v} : versions'[u] = versions[u]
  BY ProcedureIsTyped, ChangedAt
<1>2. ProcedureTypeOK'
  BY <1>1 DEF ProcedureTypeOK, VersionRecord, ReplayRecord
<1>3. SaidStays /\ SettledStay
  BY <1>1 DEF SaidStays, SettledStay, IsSettled, SettledStatus
<1>4. QuietStep
  BY <1>1, <1>3 DEF QuietStep, RejectedStays, IsSettled, SettledStatus
<1> QED
  BY <1>2, <1>4, QuietStepKeeps DEF ProcedureTypeOK

LEMMA DecisionsKeep ==
    ASSUME ProcedureInvariant, DecideReject
    PROVE  ProcedureInvariant'
<1> USE DEF ProcedureInvariant
<1>1. PICK v \in DOMAIN versions, word \in DOMAIN said :
         /\ Undecided(v)
         /\ versions' = [versions EXCEPT ![v].status = "rejected", ![v].approval = word,
                                         ![v].decision = "user_rejected"]
  BY DEF DecideReject
<1> DEFINE rec == [versions[v] EXCEPT !.status = "rejected", !.approval = word, !.decision = "user_rejected"]
<1>2. versions[v] \in VersionRecord /\ word \in Nat
  BY ProcedureIsTyped
<1>3. rec \in VersionRecord /\ rec.status = "rejected"
  BY <1>2 DEF VersionRecord, VersionStatuses, Decisions
<1>4. versions' = [versions EXCEPT ![v] = rec]
  BY <1>1
<1>5. ~IsSettled(v)
  BY <1>1 DEF Undecided, IsSettled, SettledStatus
<1> HIDE DEF rec
<1>6. ReplaysStay /\ replays' \in Seq(ReplayRecord) /\ DOMAIN replays' = DOMAIN replays
  BY ProcedureIsTyped DEF DecideReject, ReplaysStay
<1> QED
  BY <1>3, <1>4, <1>5, <1>6, VersionChanges DEF DecideReject

LEMMA RunsKeep ==
    ASSUME ProcedureInvariant, Execute \/ RecordRuntimeRun
    PROVE  ProcedureInvariant'
<1> USE DEF ProcedureInvariant
<1>1. PICK v \in DOMAIN versions, run \in {"started", "done"} :
         versions' = [versions EXCEPT ![v].run = run]
  BY DEF Execute, RecordRuntimeRun
<1> DEFINE rec == [versions[v] EXCEPT !.run = run]
<1>2. versions[v] \in VersionRecord
  BY ProcedureIsTyped
<1>3. /\ rec \in VersionRecord /\ rec.status = versions[v].status
      /\ rec.approval = versions[v].approval /\ rec.decision = versions[v].decision
  BY <1>2 DEF VersionRecord
<1>4. versions' = [versions EXCEPT ![v] = rec]
  BY <1>1
<1> HIDE DEF rec
<1>5. UNCHANGED <<company, preferred, said, granted, replays, history>>
  BY DEF Execute, RecordRuntimeRun
<1>6. ReplaysStay /\ replays' \in Seq(ReplayRecord) /\ DOMAIN replays' = DOMAIN replays
  BY <1>5, ProcedureIsTyped DEF ReplaysStay
<1>7. rec.decision = "user_rejected" => rec.status = "rejected"
  BY <1>3 DEF RejectedStays
<1>8. rec.status = versions[v].status \/ (~IsSettled(v) /\ rec.status = "rejected")
  BY <1>3
<1>9. IsSettled(v) => rec.approval = versions[v].approval
  BY <1>3
<1> QED
  BY <1>3, <1>4, <1>5, <1>6, <1>7, <1>8, <1>9, VersionChanges

\* A replay is prepared of the preferred version, or goes on to another stage.
LEMMA ReplaysKeep ==
    ASSUME ProcedureInvariant, PrepareReplay \/ ReplayPasses \/ AttestReads \/ AttestWrites
    PROVE  ProcedureInvariant'
<1> USE DEF ProcedureInvariant
<1>1. CASE PrepareReplay
  <2>1. PICK c \in DOMAIN versions :
           /\ preferred # 0
           /\ replays' = Append(replays, [base |-> preferred, cand |-> c,
                                          stage |-> "prepared", at |-> Len(history)])
    BY <1>1 DEF PrepareReplay
  <2> DEFINE rec == [base |-> preferred, cand |-> c, stage |-> "prepared", at |-> Len(history)]
  <2>2. /\ rec \in ReplayRecord /\ rec.base = preferred /\ rec.cand = c /\ rec.at = Len(history)
        /\ replays' = Append(replays, rec)
    BY <2>1, ProcedureIsTyped DEF ReplayRecord, Stages
  <2> HIDE DEF rec
  <2>3. /\ replays' \in Seq(ReplayRecord) /\ DOMAIN replays' = DOMAIN replays \cup {Len(replays) + 1}
        /\ \A r \in DOMAIN replays : replays'[r] = replays[r]
        /\ replays'[Len(replays) + 1] = rec
    BY <2>2, ProcedureIsTyped, AppendedTo
  <2>4. UNCHANGED <<company, versions, preferred, said, granted, history>>
    BY <1>1 DEF PrepareReplay
  <2>5. ProcedureTypeOK'
    BY <2>3, <2>4 DEF ProcedureTypeOK, ReplayRecord
  <2>6. SaidStays /\ SettledStay /\ ReplaysStay
    BY <2>3, <2>4 DEF SaidStays, SettledStay, ReplaysStay, IsSettled
  <2>7. QuietStep
    BY <2>1, <2>2, <2>3, <2>4, <2>6 DEF QuietStep, RejectedStays
  <2> QED
    BY <2>4, <2>5, <2>7, QuietStepKeeps
<1>2. ASSUME NEW r \in DOMAIN replays, NEW to \in Stages, replays' = [replays EXCEPT ![r].stage = to]
      PROVE  /\ replays' \in Seq(ReplayRecord) /\ DOMAIN replays' = DOMAIN replays /\ ReplaysStay
  <2> DEFINE rec == [replays[r] EXCEPT !.stage = to]
  <2>1. replays[r] \in ReplayRecord
    BY ProcedureIsTyped
  <2>2. /\ rec \in ReplayRecord /\ rec.base = replays[r].base /\ rec.cand = replays[r].cand
        /\ rec.at = replays[r].at
    BY <2>1 DEF ReplayRecord
  <2>3. replays' = [replays EXCEPT ![r] = rec]
    BY <1>2
  <2> HIDE DEF rec
  <2>4. /\ replays' \in Seq(ReplayRecord) /\ DOMAIN replays' = DOMAIN replays /\ replays'[r] = rec
        /\ \A q \in DOMAIN replays \ {r} : replays'[q] = replays[q]
    BY <2>2, <2>3, ProcedureIsTyped, ChangedAt
  <2> QED
    BY <2>2, <2>4 DEF ReplaysStay
<1>3. CASE ReplayPasses \/ AttestReads
  <2>1. /\ replays' \in Seq(ReplayRecord) /\ DOMAIN replays' = DOMAIN replays /\ ReplaysStay
    BY <1>2, <1>3 DEF ReplayPasses, AttestReads, Stage, Stages
  <2>2. UNCHANGED <<company, versions, preferred, said, granted, history>>
    BY <1>3 DEF ReplayPasses, AttestReads
  <2>3. ProcedureTypeOK'
    BY <2>1, <2>2 DEF ProcedureTypeOK, ReplayRecord
  <2>4. SaidStays /\ SettledStay
    BY <2>2 DEF SaidStays, SettledStay, IsSettled
  <2>5. QuietStep
    BY <2>1, <2>2, <2>4 DEF QuietStep, RejectedStays
  <2> QED
    BY <2>2, <2>3, <2>5, QuietStepKeeps
<1>4. CASE AttestWrites
  <2>1. PICK r \in DOMAIN replays :
           /\ replays' = [replays EXCEPT ![r].stage = "attested"]
           /\ versions' = [versions EXCEPT ![replays[r].cand].replay = r]
    BY <1>4 DEF AttestWrites, Stage
  <2>2. /\ replays' \in Seq(ReplayRecord) /\ DOMAIN replays' = DOMAIN replays /\ ReplaysStay
    BY <1>2, <2>1 DEF Stages
  <2> DEFINE v == replays[r].cand
             rec == [versions[v] EXCEPT !.replay = r]
  <2>3. v \in DOMAIN versions /\ r \in Nat
    BY ProcedureIsTyped DEF ReplaysAreOvertaken
  <2>4. versions[v] \in VersionRecord
    BY <2>3, ProcedureIsTyped
  <2>5. /\ rec \in VersionRecord /\ rec.status = versions[v].status
        /\ rec.approval = versions[v].approval /\ rec.decision = versions[v].decision
    BY <2>3, <2>4 DEF VersionRecord
  <2>6. versions' = [versions EXCEPT ![v] = rec]
    BY <2>1
  <2> HIDE DEF rec
  <2>7. rec.decision = "user_rejected" => rec.status = "rejected"
    BY <2>3, <2>5 DEF RejectedStays
  <2>8. UNCHANGED <<company, preferred, said, granted, history>>
    BY <1>4 DEF AttestWrites
  <2>9. rec.status = versions[v].status \/ (~IsSettled(v) /\ rec.status = "rejected")
    BY <2>5
  <2>10. IsSettled(v) => rec.approval = versions[v].approval
    BY <2>5
  <2> HIDE DEF v
  <2> QED
    BY <2>2, <2>3, <2>5, <2>6, <2>7, <2>8, <2>9, <2>10, VersionChanges
<1> QED
  BY <1>1, <1>3, <1>4

----------------------------------------------------------------------------
(* The four ways in which the preference moves. *)

LEMMA SupersededIsTyped ==
    ASSUME ProcedureInvariant
    PROVE  LET vs == Superseding(versions)
           IN  /\ vs \in Seq(VersionRecord) /\ Len(vs) = Len(versions) /\ DOMAIN vs = DOMAIN versions
               /\ \A v \in DOMAIN versions :
                     /\ vs[v] \in VersionRecord
                     /\ vs[v].approval = versions[v].approval
                     /\ vs[v].decision = versions[v].decision
                     /\ vs[v].status = IF v = preferred THEN "superseded" ELSE versions[v].status
<1> USE DEF ProcedureInvariant
<1> DEFINE vs == Superseding(versions)
           rec(v) == [versions[v] EXCEPT !.status = "superseded"]
<1>1. \A v \in DOMAIN versions :
         /\ rec(v) \in VersionRecord /\ rec(v).status = "superseded"
         /\ rec(v).approval = versions[v].approval /\ rec(v).decision = versions[v].decision
  <2> SUFFICES ASSUME NEW v \in DOMAIN versions
               PROVE  /\ rec(v) \in VersionRecord /\ rec(v).status = "superseded"
                      /\ rec(v).approval = versions[v].approval /\ rec(v).decision = versions[v].decision
    OBVIOUS
  <2>1. versions[v] \in VersionRecord
    BY ProcedureIsTyped
  <2> QED
    BY <2>1 DEF VersionRecord, VersionStatuses
<1>2. DOMAIN vs = DOMAIN versions /\ \A v \in DOMAIN versions : vs[v] = IF v = preferred THEN rec(v) ELSE versions[v]
  BY DEF Superseding, PreferredIsOne
<1>3. \A v \in DOMAIN versions : vs[v] \in VersionRecord
  BY <1>1, <1>2, ProcedureIsTyped
<1>4. vs = [v \in 1..Len(versions) |-> vs[v]]
  BY <1>2, ProcedureIsTyped DEF Superseding
<1> HIDE DEF vs, rec
<1>5. vs \in Seq(VersionRecord) /\ Len(vs) = Len(versions)
  BY <1>2, <1>3, <1>4, ProcedureIsTyped
<1> QED
  BY <1>1, <1>2, <1>3, <1>5 DEF vs

LEMMA PreferIsTyped ==
    ASSUME ProcedureTypeOK, versions' \in Seq(VersionRecord), NEW v \in DOMAIN versions', NEW word \in Nat,
           Prefer(v, word), UNCHANGED <<company, said, granted, replays>>
    PROVE  ProcedureTypeOK'
<1>1. [version |-> v, word |-> word] \in [version : Nat, word : Nat]
  OBVIOUS
<1>2. history' \in Seq([version : Nat, word : Nat])
  BY <1>1 DEF Prefer, ProcedureTypeOK
<1>3. preferred' \in 0..Len(versions')
  BY DEF Prefer
<1> QED
  BY <1>2, <1>3 DEF ProcedureTypeOK, VersionRecord

LEMMA AcceptKeeps ==
    ASSUME ProcedureInvariant, AcceptBaseline
    PROVE  ProcedureInvariant'
<1> USE DEF ProcedureInvariant
<1>0. PICK n \in Nat : n = Len(versions) + 1
  BY ProcedureIsTyped
<1> DEFINE vs == Superseding(versions)
<1>1. PICK word \in DOMAIN said, m \in Methods, c \in Contracts :
         /\ granted[word] = AcceptSubject(m, c)
         /\ Unspent(word)
         /\ versions' = Append(vs, Version("preferred", m, c, word, IF company THEN word ELSE NoTurn, "none"))
         /\ Prefer(n, word)
  BY <1>0 DEF AcceptBaseline, Approves
<1> DEFINE rec == Version("preferred", m, c, word, IF company THEN word ELSE NoTurn, "none")
<1>2. word \in Nat /\ word # NoTurn /\ (IF company THEN word ELSE NoTurn) \in Nat
  BY ProcedureIsTyped DEF NoTurn
<1>3. rec \in VersionRecord /\ rec.status = "preferred" /\ rec.decision = "none" /\ rec.approval = word
  <2>1. "preferred" \in VersionStatuses /\ "none" \in Decisions
    BY DEF VersionStatuses, Decisions
  <2> QED
    BY <1>2, <2>1, VersionIsTyped
<1>4. versions' = Append(vs, rec)
  BY <1>1
<1> HIDE DEF vs, rec
<1>5. /\ vs \in Seq(VersionRecord) /\ Len(vs) = Len(versions) /\ DOMAIN vs = DOMAIN versions
      /\ \A v \in DOMAIN versions :
            /\ vs[v].approval = versions[v].approval
            /\ vs[v].decision = versions[v].decision
            /\ vs[v].status = IF v = preferred THEN "superseded" ELSE versions[v].status
  BY SupersededIsTyped DEF vs
<1>6. /\ versions' \in Seq(VersionRecord) /\ DOMAIN versions' = DOMAIN versions \cup {n}
      /\ \A v \in DOMAIN versions : versions'[v] = vs[v]
      /\ versions'[n] = rec /\ n \notin DOMAIN versions
  BY <1>0, <1>3, <1>4, <1>5, AppendedTo, ProcedureIsTyped
<1>7. UNCHANGED <<company, said, granted, replays>>
  BY DEF AcceptBaseline
<1>8. ProcedureTypeOK'
  BY <1>1, <1>2, <1>6, <1>7, PreferIsTyped
<1>9. PreferStep(n, word)
  BY <1>1, <1>3, <1>5, <1>6, <1>7 DEF PreferStep, IsSettled
<1>10. ~SpentWord(word)
  <2>1. ~AcceptsWith(word)
    BY <1>1 DEF AcceptsWith, Unspent
  <2>2. ~DecidesWith(word) /\ ~PromotesWith(word)
    <3>1. DOMAIN versions \subseteq Nat /\ DOMAIN replays \subseteq Nat
      BY ProcedureIsTyped
    <3>2. \A k \in Nat : AcceptSubject(m, c) # DecideSubject(k) /\ AcceptSubject(m, c) # PromoteSubject(k)
      BY SubjectsDiffer
    <3> QED
      BY <1>1, <3>1, <3>2 DEF DecidesWith, PromotesWith
  <2> QED
    BY <2>1, <2>2 DEF SpentWord
<1>11. SpentWord(word)'
  <2>1. granted'[word] = AcceptSubject(m, c)' /\ word \in DOMAIN said'
    BY <1>1, <1>7 DEF AcceptSubject
  <2>2. n \in DOMAIN versions' /\ IsSettled(n)' /\ versions'[n].approval = word
    BY <1>3, <1>6 DEF IsSettled, SettledStatus
  <2> QED
    BY <2>1, <2>2 DEF SpentWord, AcceptsWith
<1> QED
  BY <1>8, <1>9, <1>10, <1>11, PreferKeeps

LEMMA DecideKeeps ==
    ASSUME ProcedureInvariant, DecideAccept
    PROVE  ProcedureInvariant'
<1> USE DEF ProcedureInvariant
<1> DEFINE vs == Superseding(versions)
<1>1. PICK v \in DOMAIN versions, word \in DOMAIN said :
         /\ granted[word] = DecideSubject(v)
         /\ Undecided(v)
         /\ versions' = [vs EXCEPT ![v].status = "preferred", ![v].approval = word,
                                   ![v].decision = "user_promoted"]
         /\ Prefer(v, word)
  BY DEF DecideAccept, Approves
<1> DEFINE rec == [vs[v] EXCEPT !.status = "preferred", !.approval = word, !.decision = "user_promoted"]
<1>2. versions' = [vs EXCEPT ![v] = rec]
  BY <1>1
<1>3. word \in Nat /\ v \in Nat
  BY ProcedureIsTyped
<1>4. /\ vs \in Seq(VersionRecord) /\ Len(vs) = Len(versions) /\ DOMAIN vs = DOMAIN versions
      /\ vs[v] \in VersionRecord
      /\ \A u \in DOMAIN versions :
            /\ vs[u].approval = versions[u].approval
            /\ vs[u].decision = versions[u].decision
            /\ vs[u].status = IF u = preferred THEN "superseded" ELSE versions[u].status
  BY SupersededIsTyped
<1> HIDE DEF vs
<1>5. rec \in VersionRecord /\ rec.status = "preferred" /\ rec.decision = "user_promoted"
  BY <1>3, <1>4 DEF VersionRecord, VersionStatuses, Decisions
<1> HIDE DEF rec
<1>6. /\ versions' \in Seq(VersionRecord) /\ DOMAIN versions' = DOMAIN versions /\ versions'[v] = rec
      /\ \A u \in DOMAIN versions \ {v} : versions'[u] = vs[u]
  BY <1>2, <1>4, <1>5, ChangedAt
<1>7. UNCHANGED <<company, said, granted, replays>>
  BY DEF DecideAccept
<1>8. ProcedureTypeOK'
  BY <1>1, <1>3, <1>6, <1>7, PreferIsTyped
<1>9. ~IsSettled(v)
  BY <1>1 DEF Undecided, IsSettled, SettledStatus
<1>10. PreferStep(v, word)
  BY <1>1, <1>4, <1>5, <1>6, <1>7, <1>9 DEF PreferStep
<1>11. ~SpentWord(word)
  <2>1. ~AcceptsWith(word) /\ ~PromotesWith(word)
    <3>1. DOMAIN replays \subseteq Nat
      BY ProcedureIsTyped
    <3>2. /\ \A m \in Methods, c \in Contracts : DecideSubject(v) # AcceptSubject(m, c)
          /\ \A n \in Nat : DecideSubject(v) # PromoteSubject(n)
      BY <1>3, SubjectsDiffer
    <3> QED
      BY <1>1, <3>1, <3>2 DEF AcceptsWith, PromotesWith
  <2>2. ~DecidesWith(word)
    <3>1. \A u \in DOMAIN versions : DecideSubject(v) = DecideSubject(u) => u = v
      BY <1>3, SubjectsDiffer, ProcedureIsTyped
    <3> QED
      BY <1>1, <1>9, <3>1 DEF DecidesWith
  <2> QED
    BY <2>1, <2>2 DEF SpentWord
<1>12. SpentWord(word)'
  <2>1. granted'[word] = DecideSubject(v) /\ word \in DOMAIN said'
    BY <1>1, <1>7
  <2>2. v \in DOMAIN versions' /\ IsSettled(v)'
    BY <1>5, <1>6 DEF IsSettled, SettledStatus
  <2> QED
    BY <2>1, <2>2 DEF SpentWord, DecidesWith, DecideSubject
<1> QED
  BY <1>8, <1>10, <1>11, <1>12, PreferKeeps

\* A replay that is still fresh makes its candidate the preferred version.
LEMMA FreshIsUnsettled ==
    ASSUME ProcedureInvariant, NEW r \in DOMAIN replays, Promotable(r)
    PROVE  /\ replays[r].cand \in DOMAIN versions /\ preferred \in DOMAIN versions
           /\ replays[r].cand # preferred /\ ~IsSettled(replays[r].cand)
           /\ versions[replays[r].cand].decision # "user_rejected"
           /\ replays[r].at = Len(history)
<1> USE DEF ProcedureInvariant
<1>1. replays[r].cand \in DOMAIN versions /\ versions[replays[r].cand].status = "candidate"
  BY DEF ReplaysAreOvertaken, Promotable, Fresh
<1>2. preferred = replays[r].base /\ IsSettled(preferred)
  BY DEF ReplaysAreOvertaken, Promotable, Fresh
<1>3. replays[r].at = Len(history)
  BY <1>2, ProcedureIsTyped DEF ReplaysAreOvertaken
<1> QED
  BY <1>1, <1>2, <1>3 DEF IsSettled, SettledStatus, RejectedStays

LEMMA PromotionIsStep ==
    ASSUME ProcedureInvariant, NEW r \in DOMAIN replays, Promotable(r), NEW new, new = replays[r].cand,
           NEW rec \in VersionRecord, rec.status = "preferred", rec.decision # "user_rejected",
           NEW word \in Nat, Prefer(new, word),
           versions' = [v \in DOMAIN versions |->
                           IF v = new THEN rec
                           ELSE IF v = preferred THEN [versions[v] EXCEPT !.status = "superseded"]
                           ELSE versions[v]],
           UNCHANGED <<company, said, granted, replays>>
    PROVE  ProcedureTypeOK' /\ PreferStep(new, word)
<1> USE DEF ProcedureInvariant
<1> DEFINE old == [versions[preferred] EXCEPT !.status = "superseded"]
<1>1. new \in DOMAIN versions /\ preferred \in DOMAIN versions /\ new # preferred /\ ~IsSettled(new)
  BY FreshIsUnsettled
<1>2. versions[preferred] \in VersionRecord
  BY <1>1, ProcedureIsTyped
<1>3. /\ old \in VersionRecord /\ old.status = "superseded"
      /\ old.approval = versions[preferred].approval /\ old.decision = versions[preferred].decision
  BY <1>2 DEF VersionRecord, VersionStatuses
<1>4. versions' = [v \in DOMAIN versions |->
                      IF v = new THEN rec ELSE IF v = preferred THEN old ELSE versions[v]]
  OBVIOUS
<1> HIDE DEF old
<1>5. /\ DOMAIN versions' = DOMAIN versions /\ versions'[new] = rec /\ versions'[preferred] = old
      /\ \A u \in DOMAIN versions \ {new, preferred} : versions'[u] = versions[u]
  BY <1>1, <1>4
<1>6. versions' \in Seq(VersionRecord)
  <2>1. \A v \in DOMAIN versions : versions'[v] \in VersionRecord
    BY <1>3, <1>5, ProcedureIsTyped
  <2>2. versions' = [v \in 1..Len(versions) |-> versions'[v]]
    BY <1>4, ProcedureIsTyped
  <2> QED
    BY <2>1, <2>2, ProcedureIsTyped
<1>7. ProcedureTypeOK'
  BY <1>1, <1>5, <1>6, PreferIsTyped
<1>8. \A u \in DOMAIN versions' \ {new} :
         /\ u \in DOMAIN versions
         /\ versions'[u].approval = versions[u].approval
         /\ versions'[u].decision = versions[u].decision
         /\ versions'[u].status = IF u = preferred THEN "superseded" ELSE versions[u].status
  BY <1>3, <1>5
<1> QED
  BY <1>1, <1>5, <1>7, <1>8 DEF PreferStep

LEMMA PromoteKeeps ==
    ASSUME ProcedureInvariant, PromoteAttested \/ PromoteCompanyAttested
    PROVE  ProcedureInvariant'
<1> USE DEF ProcedureInvariant
<1>1. CASE PromoteAttested
  <2>1. PICK r \in DOMAIN replays :
           /\ Promotable(r)
           /\ versions' = [versions EXCEPT ![preferred].status = "superseded",
                                           ![replays[r].cand].status = "preferred",
                                           ![replays[r].cand].decision = "auto_promoted",
                                           ![replays[r].cand].replay = r]
           /\ Prefer(replays[r].cand, NoTurn)
    BY <1>1 DEF PromoteAttested
  <2>2. PICK new : new = replays[r].cand
    OBVIOUS
  <2>3. new \in DOMAIN versions /\ preferred \in DOMAIN versions /\ new # preferred
    BY <2>1, <2>2, FreshIsUnsettled
  <2> DEFINE rec == [versions[new] EXCEPT !.status = "preferred", !.decision = "auto_promoted", !.replay = r]
  <2>4. versions[new] \in VersionRecord /\ r \in Nat
    BY <2>3, ProcedureIsTyped
  <2>5. rec \in VersionRecord /\ rec.status = "preferred" /\ rec.decision # "user_rejected"
    BY <2>4 DEF VersionRecord, VersionStatuses, Decisions
  <2>6. versions' = [v \in DOMAIN versions |->
                        IF v = new THEN rec
                        ELSE IF v = preferred THEN [versions[v] EXCEPT !.status = "superseded"]
                        ELSE versions[v]]
    BY <2>1, <2>2, <2>3
  <2>7. Prefer(new, NoTurn) /\ NoTurn \in Nat
    BY <2>1, <2>2 DEF NoTurn
  <2>8. UNCHANGED <<company, said, granted, replays>>
    BY <1>1 DEF PromoteAttested
  <2> HIDE DEF rec
  <2>9. ProcedureTypeOK' /\ PreferStep(new, NoTurn)
    BY <2>1, <2>2, <2>5, <2>6, <2>7, <2>8, PromotionIsStep
  <2> QED
    BY <2>9, PreferKeeps
<1>2. CASE PromoteCompanyAttested
  <2>1. PICK r \in DOMAIN replays, word \in DOMAIN said :
           /\ Promotable(r)
           /\ granted[word] = PromoteSubject(r)
           /\ versions' = [versions EXCEPT ![preferred].status = "superseded",
                                           ![replays[r].cand].status = "preferred",
                                           ![replays[r].cand].decision = "company_promoted",
                                           ![replays[r].cand].approval = word,
                                           ![replays[r].cand].scope = word]
           /\ Prefer(replays[r].cand, word)
    BY <1>2 DEF PromoteCompanyAttested, Approves
  <2>2. PICK new : new = replays[r].cand
    OBVIOUS
  <2>3. /\ new \in DOMAIN versions /\ preferred \in DOMAIN versions /\ new # preferred
        /\ ~IsSettled(new)
    BY <2>1, <2>2, FreshIsUnsettled
  <2> DEFINE rec == [versions[new] EXCEPT !.status = "preferred", !.decision = "company_promoted",
                                          !.approval = word, !.scope = word]
  <2>4. versions[new] \in VersionRecord /\ r \in Nat /\ word \in Nat
    BY <2>3, ProcedureIsTyped
  <2>5. rec \in VersionRecord /\ rec.status = "preferred" /\ rec.decision # "user_rejected"
    BY <2>4 DEF VersionRecord, VersionStatuses, Decisions
  <2>6. versions' = [v \in DOMAIN versions |->
                        IF v = new THEN rec
                        ELSE IF v = preferred THEN [versions[v] EXCEPT !.status = "superseded"]
                        ELSE versions[v]]
    BY <2>1, <2>2, <2>3
  <2>7. Prefer(new, word)
    BY <2>1, <2>2
  <2>8. UNCHANGED <<company, said, granted, replays>>
    BY <1>2 DEF PromoteCompanyAttested
  <2> HIDE DEF rec
  <2>9. ProcedureTypeOK' /\ PreferStep(new, word)
    BY <2>1, <2>2, <2>4, <2>5, <2>6, <2>7, <2>8, PromotionIsStep
  <2>10. ~SpentWord(word)
    <3>1. ~AcceptsWith(word) /\ ~DecidesWith(word)
      <4>1. DOMAIN versions \subseteq Nat
        BY ProcedureIsTyped
      <4>2. /\ \A m \in Methods, c \in Contracts : PromoteSubject(r) # AcceptSubject(m, c)
            /\ \A k \in Nat : PromoteSubject(r) # DecideSubject(k)
        BY <2>4, SubjectsDiffer
      <4> QED
        BY <2>1, <4>1, <4>2 DEF AcceptsWith, DecidesWith
    <3>2. ~PromotesWith(word)
      <4>1. \A q \in DOMAIN replays : PromoteSubject(r) = PromoteSubject(q) => q = r
        BY <2>4, SubjectsDiffer, ProcedureIsTyped
      <4> QED
        BY <2>1, <2>2, <2>3, <4>1 DEF PromotesWith
    <3> QED
      BY <3>1, <3>2 DEF SpentWord
  <2>11. SpentWord(word)'
    <3>1. granted'[word] = PromoteSubject(r) /\ word \in DOMAIN said' /\ r \in DOMAIN replays'
      BY <2>1, <2>8
    <3>2. replays'[r].cand \in DOMAIN versions' /\ versions'[replays'[r].cand].status = "preferred"
      BY <2>2, <2>3, <2>5, <2>6, <2>8
    <3> QED
      BY <3>1, <3>2 DEF SpentWord, PromotesWith, PromoteSubject, IsSettled, SettledStatus
  <2> QED
    BY <2>9, <2>10, <2>11, PreferKeeps
<1> QED
  BY <1>1, <1>2

LEMMA ProcedureStep == ProcedureInvariant /\ [ProcedureNext]_procedureVars => ProcedureInvariant'
<1> SUFFICES ASSUME ProcedureInvariant, [ProcedureNext]_procedureVars PROVE ProcedureInvariant'
  OBVIOUS
<1>1. CASE UNCHANGED procedureVars
  <2> USE <1>1 DEF ProcedureInvariant, procedureVars
  <2>1. ProcedureTypeOK' /\ granted' \in Seq(Grants)
    BY DEF ProcedureTypeOK
  <2>2. QuietStep
    BY DEF QuietStep, SaidStays, SettledStay, ReplaysStay, IsSettled, RejectedStays
  <2> QED
    BY <2>1, <2>2, QuietStepKeeps
<1>2. CASE ProcedureNext
  BY <1>2, SayingKeeps, AcceptKeeps, CandidatesKeep, DecideKeeps, DecisionsKeep, RunsKeep, ReplaysKeep,
     PromoteKeeps DEF ProcedureNext
<1> QED
  BY <1>1, <1>2

----------------------------------------------------------------------------
(* A promotion by replay, against the decisions before it. *)

PromotionYields ==
    \A v \in DOMAIN versions :
        (/\ versions'[v].decision \in {"auto_promoted", "company_promoted"}
         /\ versions[v].decision # versions'[v].decision)
        => /\ versions[v].decision # "user_rejected"
           /\ replays[versions'[v].replay].at = Len(history)

LEMMA OthersPromoteNothing ==
    ASSUME ProcedureInvariant, ProcedureNext, ~PromoteAttested, ~PromoteCompanyAttested
    PROVE  PromotionYields
<1> USE DEF ProcedureInvariant
<1>1. CASE versions' = versions
  BY <1>1 DEF PromotionYields
<1>2. ASSUME NEW rec, versions' = Append(versions, rec) \/ versions' = Append(Superseding(versions), rec)
      PROVE  \A v \in DOMAIN versions : versions'[v].decision = versions[v].decision
  BY <1>2, SupersededIsTyped, ProcedureIsTyped
<1>3. CASE AcceptBaseline \/ EvaluateCandidate \/ RegisterCandidate
  BY <1>2, <1>3 DEF AcceptBaseline, EvaluateCandidate, RegisterCandidate, PromotionYields
<1>4. CASE DecideAccept
  <2>1. PICK v \in DOMAIN versions, word \in DOMAIN said :
           versions' = [Superseding(versions) EXCEPT ![v].status = "preferred", ![v].approval = word,
                                                     ![v].decision = "user_promoted"]
    BY <1>4 DEF DecideAccept
  <2> QED
    BY <2>1, SupersededIsTyped, ProcedureIsTyped DEF PromotionYields, VersionRecord
<1>5. CASE DecideReject \/ Execute \/ RecordRuntimeRun
  <2>1. CASE DecideReject
    <3>1. PICK v \in DOMAIN versions, word \in DOMAIN said :
             versions' = [versions EXCEPT ![v].status = "rejected", ![v].approval = word,
                                          ![v].decision = "user_rejected"]
      BY <2>1 DEF DecideReject
    <3>2. versions[v] \in VersionRecord
      BY ProcedureIsTyped
    <3>3. versions'[v].decision = "user_rejected"
      BY <3>1, <3>2 DEF VersionRecord
    <3>4. \A u \in DOMAIN versions \ {v} : versions'[u] = versions[u]
      BY <3>1
    <3> QED
      BY <3>3, <3>4 DEF PromotionYields
  <2>2. CASE Execute \/ RecordRuntimeRun
    <3>1. PICK v \in DOMAIN versions, run \in {"started", "done"} :
             versions' = [versions EXCEPT ![v].run = run]
      BY <2>2 DEF Execute, RecordRuntimeRun
    <3>2. versions[v] \in VersionRecord
      BY ProcedureIsTyped
    <3>3. versions'[v].decision = versions[v].decision
      BY <3>1, <3>2 DEF VersionRecord
    <3>4. \A u \in DOMAIN versions \ {v} : versions'[u] = versions[u]
      BY <3>1
    <3> QED
      BY <3>3, <3>4 DEF PromotionYields
  <2> QED
    BY <1>5, <2>1, <2>2
<1>6. CASE AttestWrites
  <2>1. PICK r \in DOMAIN replays : versions' = [versions EXCEPT ![replays[r].cand].replay = r]
    BY <1>6 DEF AttestWrites
  <2>2. replays[r].cand \in DOMAIN versions
    BY DEF ReplaysAreOvertaken
  <2>3. versions[replays[r].cand] \in VersionRecord
    BY <2>2, ProcedureIsTyped
  <2>4. versions'[replays[r].cand].decision = versions[replays[r].cand].decision
    BY <2>1, <2>2, <2>3 DEF VersionRecord
  <2>5. \A u \in DOMAIN versions \ {replays[r].cand} : versions'[u] = versions[u]
    BY <2>1
  <2> QED
    BY <2>4, <2>5 DEF PromotionYields
<1>7. CASE UserSays \/ RecordApproval \/ PrepareReplay \/ ReplayPasses \/ AttestReads
  BY <1>1, <1>7 DEF UserSays, RecordApproval, PrepareReplay, ReplayPasses, AttestReads
<1> QED
  BY <1>3, <1>4, <1>5, <1>6, <1>7 DEF ProcedureNext

LEMMA PromotionsYield ==
    ASSUME ProcedureInvariant, PromoteAttested \/ PromoteCompanyAttested
    PROVE  PromotionYields
<1> USE DEF ProcedureInvariant
<1>1. PICK r \in DOMAIN replays :
         /\ Promotable(r)
         /\ versions'[replays[r].cand].replay = r
         /\ \A v \in DOMAIN versions \ {replays[r].cand} : versions'[v].decision = versions[v].decision
  <2>1. CASE PromoteAttested
    <3>1. PICK r \in DOMAIN replays :
             /\ Promotable(r)
             /\ versions' = [versions EXCEPT ![preferred].status = "superseded",
                                             ![replays[r].cand].status = "preferred",
                                             ![replays[r].cand].decision = "auto_promoted",
                                             ![replays[r].cand].replay = r]
      BY <2>1 DEF PromoteAttested
    <3> QED
      BY <3>1, FreshIsUnsettled, ProcedureIsTyped DEF VersionRecord
  <2>2. CASE PromoteCompanyAttested
    <3>1. PICK r \in DOMAIN replays, word \in DOMAIN said :
             /\ Promotable(r)
             /\ versions[replays[r].cand].replay = r
             /\ versions' = [versions EXCEPT ![preferred].status = "superseded",
                                             ![replays[r].cand].status = "preferred",
                                             ![replays[r].cand].decision = "company_promoted",
                                             ![replays[r].cand].approval = word,
                                             ![replays[r].cand].scope = word]
      BY <2>2 DEF PromoteCompanyAttested
    <3> QED
      BY <3>1, FreshIsUnsettled, ProcedureIsTyped DEF VersionRecord
  <2> QED
    BY <2>1, <2>2
<1> QED
  BY <1>1, FreshIsUnsettled DEF PromotionYields

LEMMA ProcedureRuns == ProcedureSpec => []ProcedureInvariant
BY ProcedureStart, ProcedureStep, PTL DEF ProcedureSpec

\* The rows of a procedure, its approvals and its replays keep their types.
THEOREM ProceduresTypeCorrect == ProcedureSpec => []ProcedureTypeOK
<1>1. ProcedureInvariant => ProcedureTypeOK
  BY DEF ProcedureInvariant
<1> QED
  BY <1>1, ProcedureRuns, PTL

\* No turn of the user moves the preference twice, whatever is retried and in whatever
\* order: accept_baseline, decide_candidate and promote_company_attested.
THEOREM WordsMoveOnce == ProcedureSpec => []OneWordOneChange
<1>1. ProcedureInvariant => OneWordOneChange
  BY DEF ProcedureInvariant
<1> QED
  BY <1>1, ProcedureRuns, PTL

\* promote_attested and promote_company_attested promote nothing over a change of the
\* preference since the replay was prepared, nor what the user has rejected.
THEOREM ReplaysYield == ProcedureSpec => ReplayYieldsToUser
<1>1. ProcedureInvariant /\ [ProcedureNext]_procedureVars => [PromotionYields]_procedureVars
  BY OthersPromoteNothing, PromotionsYield
<1> QED
  BY <1>1, ProcedureRuns, PTL DEF ProcedureSpec, ReplayYieldsToUser, PromotionYields

----------------------------------------------------------------------------
(* The credential broker.  While a call is under way the store is between  *)
(* two states: settled, which the call found, and what it means to leave.  *)
(* Every key is in one of them (CallKeeps), what is to be put back is what *)
(* settled has, and the file the call is to leave fits the values it is to *)
(* leave, so whichever way the call ends the two stores agree, unless a    *)
(* write of the way back fails (unsure) or the file was in place already   *)
(* (torn).                                                                 *)

\* The file names exactly the keys that have a value, and binds nothing else.
Kept(vals, reg) ==
    /\ \A k \in Keys : vals[k] # NoValue <=> k[2] \in reg.fields[k[1]]
    /\ \A b \in reg.bindings : reg.fields[b[2]] # {}

After(vals, changes) == [k \in Keys |-> IF k \in DOMAIN changes THEN changes[k] ELSE vals[k]]

CallKeeps ==
    call # NoCall =>
        /\ ~unsure
        /\ \A k \in DOMAIN call.old : call.old[k] = settled[k]
        /\ \A k \in Keys \ DOMAIN call.changes : vault[k] = settled[k]
        /\ call.phase = "change" =>
              /\ ~torn
              /\ Kept(settled, registry)
              /\ Kept(After(settled, call.changes), call.new)
              /\ \A k \in DOMAIN call.changes \ call.todo : vault[k] = call.changes[k]
        /\ call.phase = "restore" =>
              /\ torn \/ Kept(settled, registry)
              /\ \A k \in DOMAIN call.changes \ call.todo : vault[k] = settled[k]

CredentialInvariant ==
    /\ CredentialTypeOK
    /\ CallKeeps
    /\ call = NoCall /\ ~unsure /\ ~torn => vault = settled /\ Kept(settled, registry)

Store == Values \cup {NoValue}

LEMMA UpdatesAreTyped ==
    /\ \A changes \in Updates : DOMAIN changes \subseteq Keys /\ \A k \in DOMAIN changes : changes[k] \in Store
    /\ \A ks \in SUBSET Keys : \A f \in [ks -> Store] : f \in Updates
BY DEF Updates, Store

LEMMA CallIsTyped ==
    ASSUME CredentialTypeOK, call # NoCall
    PROVE  /\ call \in CallRecords /\ call.changes \in Updates /\ call.old \in Updates
           /\ call.new \in Registries /\ call.todo \subseteq Keys /\ call.todo \subseteq DOMAIN call.changes
           /\ DOMAIN call.old = DOMAIN call.changes /\ DOMAIN call.changes \subseteq Keys
           /\ \A k \in DOMAIN call.changes : call.changes[k] \in Store /\ call.old[k] \in Store
<1>1. call \in CallRecords
  BY DEF CredentialTypeOK
<1>2. /\ call.changes \in Updates /\ call.old \in Updates /\ call.new \in Registries /\ call.todo \subseteq Keys
  BY <1>1 DEF CallRecords
<1> QED
  BY <1>1, <1>2, UpdatesAreTyped DEF CredentialTypeOK

LEMMA AgreementIsKept ==
    ASSUME CredentialTypeOK
    PROVE  Agreement <=> vault = settled /\ Kept(vault, registry)
<1>1. registry.fields \in [Owners -> SUBSET Fields] /\ registry.bindings \subseteq Projects \X Resources
  BY DEF CredentialTypeOK, Registries
<1>2. \A k : k \in UNION {KeysOf(o) : o \in Owners} <=> k \in Keys /\ k[2] \in registry.fields[k[1]]
  BY <1>1 DEF KeysOf, Keys
<1>3. ({k \in Keys : vault[k] # NoValue} = UNION {KeysOf(o) : o \in Owners})
        <=> \A k \in Keys : vault[k] # NoValue <=> k[2] \in registry.fields[k[1]]
  BY <1>2
<1>4. \A b \in registry.bindings : b[2] \in Known <=> registry.fields[b[2]] # {}
  BY <1>1 DEF Known, Owners
<1> QED
  BY <1>3, <1>4 DEF Agreement, Kept

LEMMA BrokerStart == CredentialInit => CredentialInvariant
<1> SUFFICES ASSUME CredentialInit PROVE CredentialInvariant
  OBVIOUS
<1>1. registry \in Registries
  BY DEF CredentialInit, Registries
<1>2. CredentialTypeOK
  BY <1>1 DEF CredentialInit, CredentialTypeOK
<1>3. vault = settled /\ Kept(settled, registry)
  BY DEF CredentialInit, Kept, Keys
<1> QED
  BY <1>2, <1>3 DEF CredentialInit, CredentialInvariant, CallKeeps

\* A call that begins with changes after which the new file fits.
LEMMA BeginKeeps ==
    ASSUME CredentialInvariant, NEW changes \in Updates, NEW new \in Registries, Begin(changes, new),
           Kept(After(vault, changes), new)
    PROVE  CredentialInvariant'
<1> DEFINE c == [phase |-> "change", changes |-> changes, todo |-> DOMAIN changes,
                 old |-> [k \in DOMAIN changes |-> vault[k]], new |-> new]
<1>1. /\ call = NoCall /\ ~unsure /\ ~torn /\ call' = c
      /\ UNCHANGED <<registry, vault, unsure, torn, settled>>
  BY DEF Begin, Conclusive
<1>2. vault = settled /\ Kept(settled, registry) /\ vault \in [Keys -> Store]
  BY <1>1 DEF CredentialInvariant, CredentialTypeOK, Store
<1>3. DOMAIN changes \subseteq Keys /\ [k \in DOMAIN changes |-> vault[k]] \in Updates
  BY <1>2, UpdatesAreTyped
<1>4. c \in CallRecords /\ DOMAIN c.old = DOMAIN c.changes /\ c.todo = DOMAIN c.changes
  BY <1>3 DEF CallRecords
<1>5. CredentialTypeOK'
  BY <1>1, <1>4 DEF CredentialTypeOK, CredentialInvariant
<1>6. call' # NoCall
  BY <1>1, <1>4, CredentialAssumption
<1>7. CallKeeps'
  BY <1>1, <1>2, <1>3, <1>4 DEF CallKeeps, Kept, After
<1> QED
  BY <1>5, <1>6, <1>7 DEF CredentialInvariant

\* What the calls make of the file.
LEMMA RegistryChanges ==
    ASSUME NEW reg \in Registries, NEW o \in Owners, NEW fs \in SUBSET Fields
    PROVE  LET new == WithFields(reg, o, fs)
           IN  /\ new \in Registries /\ new.bindings = reg.bindings /\ new.fields[o] = fs
               /\ \A p \in Owners \ {o} : new.fields[p] = reg.fields[p]
BY DEF WithFields, Registries

LEMMA BindingChanges ==
    ASSUME NEW reg \in Registries, NEW r \in Resources, NEW ps \in SUBSET Projects
    PROVE  LET new == BoundTo(reg, r, ps)
           IN  /\ new \in Registries /\ new.fields = reg.fields
               /\ new.bindings = reg.bindings \cup (ps \X {r})
BY DEF BoundTo, Registries

\* When a call begins, the file fits the store.
LEMMA BetweenCalls ==
    ASSUME CredentialInvariant, call = NoCall, Conclusive
    PROVE  /\ Kept(vault, registry) /\ registry \in Registries /\ vault \in [Keys -> Store]
           /\ registry.fields \in [Owners -> SUBSET Fields]
           /\ registry.bindings \subseteq Projects \X Resources
           /\ \A b \in registry.bindings : b[2] \in Resources /\ registry.fields[b[2]] # {}
<1>1. vault = settled /\ Kept(settled, registry)
  BY DEF CredentialInvariant, Conclusive
<1>2. registry \in Registries /\ vault \in [Keys -> Store]
  BY DEF CredentialInvariant, CredentialTypeOK, Store
<1>3. registry.fields \in [Owners -> SUBSET Fields] /\ registry.bindings \subseteq Projects \X Resources
  BY <1>2 DEF Registries
<1>4. \A b \in registry.bindings : b[2] \in Resources /\ registry.fields[b[2]] # {}
  BY <1>1, <1>3 DEF Kept
<1> QED
  BY <1>1, <1>2, <1>3, <1>4

LEMMA SaveKeeps ==
    ASSUME CredentialInvariant, NEW r \in Resources, NEW fs \in (SUBSET Fields) \ {{}}, NEW v \in Values,
           NEW ps \in SUBSET Projects, Save(r, fs, v, ps)
    PROVE  CredentialInvariant'
<1> DEFINE changes == [k \in {r} \X fs |-> v]
           all == registry.fields[r] \cup fs
           with == WithFields(registry, r, all)
           new == BoundTo(with, r, ps)
<1>1. Begin(changes, new) /\ call = NoCall /\ Conclusive
  BY DEF Save, Begin
<1>2. /\ Kept(vault, registry) /\ registry \in Registries /\ vault \in [Keys -> Store]
      /\ registry.fields \in [Owners -> SUBSET Fields]
      /\ \A b \in registry.bindings : b[2] \in Resources /\ registry.fields[b[2]] # {}
  BY <1>1, BetweenCalls
<1>3. r \in Owners /\ all \in SUBSET Fields /\ v \in Store /\ v # NoValue /\ {r} \X fs \subseteq Keys
  BY <1>2, CredentialAssumption DEF Owners, Keys, Store
<1>4. /\ with \in Registries /\ with.bindings = registry.bindings /\ with.fields[r] = all
      /\ \A p \in Owners \ {r} : with.fields[p] = registry.fields[p]
  BY <1>2, <1>3, RegistryChanges
<1> HIDE DEF with
<1>5. /\ new \in Registries /\ new.fields = with.fields
      /\ new.bindings = registry.bindings \cup (ps \X {r})
  BY <1>4, BindingChanges
<1>6. changes \in Updates
  BY <1>3, UpdatesAreTyped
<1>7. Kept(After(vault, changes), new)
  <2> HIDE DEF new
  <2>1. ASSUME NEW k \in Keys
        PROVE  After(vault, changes)[k] # NoValue <=> k[2] \in new.fields[k[1]]
    <3>1. k[1] \in Owners /\ k[2] \in Fields /\ (k \in {r} \X fs <=> k[1] = r /\ k[2] \in fs)
      BY DEF Keys
    <3>2. After(vault, changes)[k] = IF k[1] = r /\ k[2] \in fs THEN v ELSE vault[k]
      BY <3>1 DEF After
    <3>3. vault[k] # NoValue <=> k[2] \in registry.fields[k[1]]
      BY <1>2 DEF Kept
    <3> QED
      BY <1>3, <1>4, <1>5, <3>1, <3>2, <3>3
  <2>2. ASSUME NEW b \in new.bindings
        PROVE  new.fields[b[2]] # {}
    <3>1. b \in registry.bindings \/ b[2] = r
      BY <1>5
    <3>2. PICK f \in fs : f \in all
      OBVIOUS
    <3>3. CASE b[2] = r
      BY <1>4, <1>5, <3>2, <3>3
    <3>4. CASE b \in registry.bindings /\ b[2] # r
      BY <1>2, <1>4, <1>5, <3>4 DEF Owners
    <3> QED
      BY <3>1, <3>3, <3>4
  <2> QED
    BY <2>1, <2>2 DEF Kept
<1> HIDE DEF changes, new
<1> QED
  BY <1>1, <1>5, <1>6, <1>7, BeginKeeps

LEMMA CaptureKeeps ==
    ASSUME CredentialInvariant, NEW c \in Captures, NEW fs \in (SUBSET Fields) \ {{}}, NEW v \in Values,
           CaptureDetection(c, fs, v)
    PROVE  CredentialInvariant'
<1> DEFINE changes == [k \in {c} \X fs |-> v]
           new == WithFields(registry, c, fs)
<1>1. Begin(changes, new) /\ call = NoCall /\ Conclusive /\ c \notin Known
  BY DEF CaptureDetection, Begin
<1>2. /\ Kept(vault, registry) /\ registry \in Registries /\ vault \in [Keys -> Store]
      /\ registry.fields \in [Owners -> SUBSET Fields]
      /\ \A b \in registry.bindings : b[2] \in Resources /\ registry.fields[b[2]] # {}
  BY <1>1, BetweenCalls
<1>3. /\ c \in Owners /\ c \notin Resources /\ v \in Store /\ v # NoValue /\ {c} \X fs \subseteq Keys
      /\ registry.fields[c] = {}
  BY <1>1, CredentialAssumption DEF Owners, Keys, Store, Known
<1>4. /\ new \in Registries /\ new.bindings = registry.bindings /\ new.fields[c] = fs
      /\ \A p \in Owners \ {c} : new.fields[p] = registry.fields[p]
  BY <1>2, <1>3, RegistryChanges
<1>5. changes \in Updates
  BY <1>3, UpdatesAreTyped
<1>6. Kept(After(vault, changes), new)
  <2> HIDE DEF new
  <2>1. ASSUME NEW k \in Keys
        PROVE  After(vault, changes)[k] # NoValue <=> k[2] \in new.fields[k[1]]
    <3>1. k[1] \in Owners /\ k[2] \in Fields /\ (k \in {c} \X fs <=> k[1] = c /\ k[2] \in fs)
      BY DEF Keys
    <3>2. After(vault, changes)[k] = IF k[1] = c /\ k[2] \in fs THEN v ELSE vault[k]
      BY <3>1 DEF After
    <3>3. vault[k] # NoValue <=> k[2] \in registry.fields[k[1]]
      BY <1>2 DEF Kept
    <3> QED
      BY <1>3, <1>4, <3>1, <3>2, <3>3
  <2>2. ASSUME NEW b \in new.bindings
        PROVE  new.fields[b[2]] # {}
    BY <1>2, <1>3, <1>4 DEF Owners
  <2> QED
    BY <2>1, <2>2 DEF Kept
<1> HIDE DEF changes, new
<1> QED
  BY <1>1, <1>4, <1>5, <1>6, BeginKeeps

LEMMA ConfirmKeeps ==
    ASSUME CredentialInvariant, NEW c \in Captures, NEW r \in Resources, NEW ps \in SUBSET Projects,
           ConfirmPending(c, r, ps)
    PROVE  CredentialInvariant'
<1> DEFINE moved == [registry EXCEPT !.fields[r] = @ \cup registry.fields[c], !.fields[c] = {}]
           new == BoundTo(moved, r, ps)
           changes == Confirming(c, r)
<1>1. /\ Begin(changes, new) /\ call = NoCall /\ Conclusive /\ c \in Known
      /\ \A k \in KeysOf(c) : vault[k] # NoValue
  BY DEF ConfirmPending, Begin
<1>2. /\ Kept(vault, registry) /\ registry \in Registries /\ vault \in [Keys -> Store]
      /\ registry.fields \in [Owners -> SUBSET Fields]
      /\ registry.bindings \subseteq Projects \X Resources
      /\ \A b \in registry.bindings : b[2] \in Resources /\ registry.fields[b[2]] # {}
  BY <1>1, BetweenCalls
<1>3. c \in Owners /\ r \in Owners /\ c # r /\ c \notin Resources /\ registry.fields[c] # {}
  BY <1>1, CredentialAssumption DEF Owners, Known
<1>4. /\ moved \in Registries /\ moved.bindings = registry.bindings
      /\ moved.fields[r] = registry.fields[r] \cup registry.fields[c] /\ moved.fields[c] = {}
      /\ \A p \in Owners \ {c, r} : moved.fields[p] = registry.fields[p]
  BY <1>2, <1>3 DEF Registries
<1> HIDE DEF moved
<1>5. /\ new \in Registries /\ new.fields = moved.fields
      /\ new.bindings = registry.bindings \cup (ps \X {r})
  BY <1>4, BindingChanges
<1>6. /\ DOMAIN changes = {r, c} \X registry.fields[c] /\ DOMAIN changes \subseteq Keys
      /\ \A f \in registry.fields[c] : changes[<<c, f>>] = NoValue /\ changes[<<r, f>>] = vault[<<c, f>>]
  BY <1>2, <1>3 DEF Confirming, KeysOf, Keys
<1>7. changes \in Updates
  <2>1. changes = [k \in DOMAIN changes |-> changes[k]]
    BY DEF Confirming
  <2>2. \A f \in registry.fields[c] : <<c, f>> \in Keys
    BY <1>2, <1>3 DEF Keys
  <2>3. \A k \in DOMAIN changes : changes[k] \in Store
    <3> SUFFICES ASSUME NEW f \in registry.fields[c], NEW o \in {r, c}
                 PROVE  changes[<<o, f>>] \in Store
      <4>1. \A k \in DOMAIN changes :
               k = <<k[1], k[2]>> /\ k[1] \in {r, c} /\ k[2] \in registry.fields[c]
        BY <1>6
      <4> QED
        BY <4>1
    <3>1. vault[<<c, f>>] \in Store /\ NoValue \in Store
      BY <1>2, <2>2 DEF Store
    <3>2. changes[<<c, f>>] = NoValue /\ changes[<<r, f>>] = vault[<<c, f>>]
      BY <1>6
    <3> QED
      BY <3>1, <3>2
  <2> HIDE DEF changes
  <2> QED
    BY <1>6, <2>1, <2>3, UpdatesAreTyped
<1>8. Kept(After(vault, changes), new)
  <2> HIDE DEF new, changes
  <2>1. ASSUME NEW k \in Keys
        PROVE  After(vault, changes)[k] # NoValue <=> k[2] \in new.fields[k[1]]
    <3>1. /\ k[1] \in Owners /\ k[2] \in Fields /\ k = <<k[1], k[2]>>
          /\ (k \in DOMAIN changes <=> k[1] \in {r, c} /\ k[2] \in registry.fields[c])
      BY <1>6 DEF Keys
    <3>2. vault[k] # NoValue <=> k[2] \in registry.fields[k[1]]
      BY <1>2 DEF Kept
    <3>3. CASE k \in DOMAIN changes
      <4>1. k[1] = c => changes[k] = NoValue
        BY <1>6, <3>1, <3>3
      <4>2. k[1] = r => changes[k] # NoValue
        BY <1>1, <1>6, <3>1, <3>3 DEF KeysOf
      <4> QED
        BY <1>3, <1>4, <1>5, <3>1, <3>3, <4>1, <4>2 DEF After
    <3>4. CASE k \notin DOMAIN changes
      BY <1>3, <1>4, <1>5, <3>1, <3>2, <3>4 DEF After
    <3> QED
      BY <3>3, <3>4
  <2>2. ASSUME NEW b \in new.bindings
        PROVE  new.fields[b[2]] # {}
    <3>1. b \in registry.bindings \/ b[2] = r
      BY <1>5
    <3> QED
      BY <1>2, <1>3, <1>4, <1>5, <3>1 DEF Owners
  <2> QED
    BY <2>1, <2>2 DEF Kept
<1> HIDE DEF changes, new
<1> QED
  BY <1>1, <1>5, <1>7, <1>8, BeginKeeps

\* An owner whose values all go: a capture that is discarded, or a resource that is
\* deleted with its bindings.
LEMMA RemovalKeeps ==
    ASSUME CredentialInvariant, NEW o \in Owners, NEW new \in Registries,
           Begin([k \in KeysOf(o) |-> NoValue], new),
           new.fields = [registry.fields EXCEPT ![o] = {}],
           new.bindings = {b \in registry.bindings : b[2] # o}
    PROVE  CredentialInvariant'
<1> DEFINE changes == [k \in KeysOf(o) |-> NoValue]
<1>1. call = NoCall /\ Conclusive
  BY DEF Begin
<1>2. /\ Kept(vault, registry) /\ registry \in Registries
      /\ registry.fields \in [Owners -> SUBSET Fields]
      /\ \A b \in registry.bindings : b[2] \in Resources /\ registry.fields[b[2]] # {}
  BY <1>1, BetweenCalls
<1>3. \A k \in Keys : k \in KeysOf(o) <=> k[1] = o /\ k[2] \in registry.fields[o]
  BY DEF KeysOf, Keys
<1>4. changes \in Updates
  <2>1. KeysOf(o) \subseteq Keys /\ NoValue \in Store
    BY <1>2 DEF KeysOf, Keys, Store
  <2> QED
    BY <2>1, UpdatesAreTyped
<1>5. Kept(After(vault, changes), new)
  <2>1. ASSUME NEW k \in Keys
        PROVE  After(vault, changes)[k] # NoValue <=> k[2] \in new.fields[k[1]]
    <3>1. k[1] \in Owners /\ (vault[k] # NoValue <=> k[2] \in registry.fields[k[1]])
      BY <1>2 DEF Kept, Keys
    <3>2. After(vault, changes)[k] = IF k \in KeysOf(o) THEN NoValue ELSE vault[k]
      BY DEF After
    <3> QED
      BY <1>2, <1>3, <3>1, <3>2
  <2>2. ASSUME NEW b \in new.bindings
        PROVE  new.fields[b[2]] # {}
    BY <1>2 DEF Owners
  <2> QED
    BY <2>1, <2>2 DEF Kept
<1> HIDE DEF changes
<1>6. Begin(changes, new)
  BY DEF changes
<1> QED
  BY <1>4, <1>5, <1>6, BeginKeeps

LEMMA RemovalsKeep ==
    ASSUME CredentialInvariant,
           (\E c \in Captures : DiscardPending(c)) \/ (\E r \in Resources : DeleteResource(r))
    PROVE  CredentialInvariant'
<1>1. CASE \E c \in Captures : DiscardPending(c)
  <2>1. PICK c \in Captures : DiscardPending(c)
    BY <1>1
  <2> DEFINE new == WithFields(registry, c, {})
  <2>2. Begin([k \in KeysOf(c) |-> NoValue], new) /\ call = NoCall /\ Conclusive
    BY <2>1 DEF DiscardPending, Begin
  <2>3. registry \in Registries /\ \A b \in registry.bindings : b[2] \in Resources
    BY <2>2, BetweenCalls
  <2>4. c \in Owners /\ c \notin Resources
    BY CredentialAssumption DEF Owners
  <2>5. /\ new \in Registries /\ new.bindings = registry.bindings
        /\ new.fields = [registry.fields EXCEPT ![c] = {}]
    BY <2>3, <2>4 DEF WithFields, Registries
  <2>6. new.bindings = {b \in registry.bindings : b[2] # c}
    BY <2>3, <2>4, <2>5
  <2> HIDE DEF new
  <2> QED
    BY <2>2, <2>4, <2>5, <2>6, RemovalKeeps
<1>2. CASE \E r \in Resources : DeleteResource(r)
  <2>1. PICK r \in Resources : DeleteResource(r)
    BY <1>2
  <2> DEFINE new == [WithFields(registry, r, {}) EXCEPT !.bindings = {b \in registry.bindings : b[2] # r}]
  <2>2. Begin([k \in KeysOf(r) |-> NoValue], new) /\ call = NoCall /\ Conclusive
    BY <2>1 DEF DeleteResource, Begin
  <2>3. registry \in Registries
    BY <2>2, BetweenCalls
  <2>4. r \in Owners
    BY DEF Owners
  <2>5. /\ new \in Registries /\ new.bindings = {b \in registry.bindings : b[2] # r}
        /\ new.fields = [registry.fields EXCEPT ![r] = {}]
    BY <2>3, <2>4 DEF WithFields, Registries
  <2> HIDE DEF new
  <2> QED
    BY <2>2, <2>4, <2>5, RemovalKeeps
<1> QED
  BY <1>1, <1>2

\* A call that changes bindings only.
LEMMA BindingKeeps ==
    ASSUME CredentialInvariant, NEW p \in Projects, NEW r \in Resources,
           BindProject(p, r) \/ UnlinkProject(p, r)
    PROVE  CredentialInvariant'
<1>1. PICK new : /\ Begin(<<>>, new)
                 /\ \/ r \in Known /\ new = BoundTo(registry, r, {p})
                    \/ new = [registry EXCEPT !.bindings = @ \ {<<p, r>>}]
  BY DEF BindProject, UnlinkProject
<1>2. call = NoCall /\ Conclusive
  BY <1>1 DEF Begin
<1>3. /\ Kept(vault, registry) /\ registry \in Registries /\ vault \in [Keys -> Store]
      /\ \A b \in registry.bindings : b[2] \in Resources /\ registry.fields[b[2]] # {}
  BY <1>2, BetweenCalls
<1>4. new \in Registries /\ new.fields = registry.fields
  <2>1. CASE new = BoundTo(registry, r, {p})
    BY <1>3, <2>1, BindingChanges
  <2>2. CASE new = [registry EXCEPT !.bindings = @ \ {<<p, r>>}]
    BY <1>3, <2>2 DEF Registries
  <2> QED
    BY <1>1, <2>1, <2>2
<1>5. \A b \in new.bindings : new.fields[b[2]] # {}
  <2>1. CASE r \in Known /\ new = BoundTo(registry, r, {p})
    <3>1. registry.fields[r] # {}
      BY <2>1 DEF Known
    <3>2. new.bindings = registry.bindings \cup ({p} \X {r})
      BY <1>3, <2>1, BindingChanges
    <3> QED
      BY <1>3, <1>4, <3>1, <3>2
  <2>2. CASE new = [registry EXCEPT !.bindings = @ \ {<<p, r>>}]
    <3>1. new.bindings \subseteq registry.bindings
      BY <1>3, <2>2 DEF Registries
    <3> QED
      BY <1>3, <1>4, <3>1
  <2> QED
    BY <1>1, <2>1, <2>2
<1>6. <<>> \in Updates
  <2>1. <<>> \in [{} -> Store]
    OBVIOUS
  <2> QED
    BY <2>1, UpdatesAreTyped
<1>7. \A k \in Keys : After(vault, <<>>)[k] = vault[k]
  BY DEF After
<1>8. Kept(After(vault, <<>>), new)
  BY <1>3, <1>4, <1>5, <1>7 DEF Kept
<1> QED
  BY <1>1, <1>4, <1>6, <1>8, BeginKeeps

LEMMA CallsKeep ==
    ASSUME CredentialInvariant, BrokerCalls
    PROVE  CredentialInvariant'
<1>1. CASE \E r \in Resources, fs \in (SUBSET Fields) \ {{}}, v \in Values,
              ps \in {{}} \cup {{p} : p \in Projects} : Save(r, fs, v, ps)
  <2>1. {{}} \cup {{p} : p \in Projects} \subseteq SUBSET Projects
    OBVIOUS
  <2> QED
    BY <1>1, <2>1, SaveKeeps
<1>2. CASE \E c \in Captures, fs \in (SUBSET Fields) \ {{}}, v \in Values : CaptureDetection(c, fs, v)
  BY <1>2, CaptureKeeps
<1>3. CASE \E c \in Captures, r \in Resources,
              ps \in {{}} \cup {{p} : p \in Projects} : ConfirmPending(c, r, ps)
  <2>1. {{}} \cup {{p} : p \in Projects} \subseteq SUBSET Projects
    OBVIOUS
  <2> QED
    BY <1>3, <2>1, ConfirmKeeps
<1>4. CASE (\E c \in Captures : DiscardPending(c)) \/ (\E r \in Resources : DeleteResource(r))
  BY <1>4, RemovalsKeep
<1>5. CASE \E p \in Projects, r \in Resources : BindProject(p, r) \/ UnlinkProject(p, r)
  BY <1>5, BindingKeeps
<1> QED
  BY <1>1, <1>2, <1>3, <1>4, <1>5 DEF BrokerCalls

\* The record of a call that goes on: only its phase and what is still to be written change.
GoesOn ==
    /\ call' # NoCall /\ call' \in CallRecords
    /\ call'.changes = call.changes /\ call'.old = call.old /\ call'.new = call.new

LEMMA CallGoesOn ==
    ASSUME CredentialTypeOK, call # NoCall
    PROVE  /\ \A k : call' = [call EXCEPT !.todo = @ \ {k}] =>
                        GoesOn /\ call'.phase = call.phase /\ call'.todo = call.todo \ {k}
           /\ RollBack => GoesOn /\ call'.phase = "restore" /\ call'.todo = DOMAIN call.old
<1>1. call \in CallRecords /\ DOMAIN call.old \subseteq Keys
  BY CallIsTyped
<1>2. ASSUME NEW k, call' = [call EXCEPT !.todo = @ \ {k}]
      PROVE  GoesOn /\ call'.phase = call.phase /\ call'.todo = call.todo \ {k}
  BY <1>1, <1>2, CredentialAssumption DEF GoesOn, CallRecords
<1>3. ASSUME RollBack
      PROVE  GoesOn /\ call'.phase = "restore" /\ call'.todo = DOMAIN call.old
  BY <1>1, <1>3, CredentialAssumption DEF RollBack, Restorable, GoesOn, CallRecords
<1> QED
  BY <1>2, <1>3

LEMMA WriteIsTyped ==
    ASSUME CredentialTypeOK, NEW k \in Keys, NEW v \in Store, Write(k, v)
    PROVE  /\ vault' \in [Keys -> Store] /\ vault'[k] = v
           /\ \A u \in Keys \ {k} : vault'[u] = vault[u]
BY DEF CredentialTypeOK, Write, Store

LEMMA StoreStepsKeep ==
    ASSUME CredentialInvariant, ChangeStore \/ RestoreStore
    PROVE  CredentialInvariant'
<1> USE DEF CredentialInvariant
<1>1. /\ call # NoCall /\ UNCHANGED <<registry, unsure, torn, settled>>
  BY DEF ChangeStore, RestoreStore, InPhase
<1>2. PICK k, v :
         /\ k \in call.todo
         /\ Write(k, v) /\ call' = [call EXCEPT !.todo = @ \ {k}]
         /\ \/ call.phase = "change" /\ v = call.changes[k]
            \/ call.phase = "restore" /\ v = call.old[k]
  <2>1. CASE ChangeStore
    BY <2>1 DEF ChangeStore, InPhase
  <2>2. CASE RestoreStore
    BY <2>2 DEF RestoreStore, InPhase
  <2> QED
    BY <2>1, <2>2
<1>3. /\ call \in CallRecords /\ call.todo \subseteq DOMAIN call.changes
      /\ DOMAIN call.old = DOMAIN call.changes /\ DOMAIN call.changes \subseteq Keys
      /\ \A u \in DOMAIN call.changes : call.changes[u] \in Store /\ call.old[u] \in Store
  BY <1>1, CallIsTyped
<1>4. k \in DOMAIN call.changes /\ k \in Keys /\ v \in Store
  BY <1>2, <1>3
<1>5. /\ vault' \in [Keys -> Store] /\ vault'[k] = v
      /\ \A u \in Keys \ {k} : vault'[u] = vault[u]
  BY <1>2, <1>4, WriteIsTyped
<1>6. GoesOn /\ call'.phase = call.phase /\ call'.todo = call.todo \ {k}
  BY <1>1, <1>2, CallGoesOn
<1>7. CredentialTypeOK'
  BY <1>1, <1>3, <1>5, <1>6 DEF CredentialTypeOK, GoesOn, Store
<1>8. CallKeeps'
  <2>1. ~unsure' /\ \A u \in DOMAIN call'.old : call'.old[u] = settled'[u]
    BY <1>1, <1>6 DEF CallKeeps, GoesOn
  <2>2. \A u \in Keys \ DOMAIN call'.changes : vault'[u] = settled'[u]
    BY <1>1, <1>4, <1>5, <1>6 DEF CallKeeps, GoesOn
  <2>3. ASSUME call'.phase = "change"
        PROVE  /\ ~torn' /\ Kept(settled, registry)' /\ Kept(After(settled, call.changes), call.new)'
               /\ \A u \in DOMAIN call'.changes \ call'.todo : vault'[u] = call'.changes[u]
    <3>1. /\ ~torn /\ Kept(settled, registry) /\ Kept(After(settled, call.changes), call.new)
          /\ \A u \in DOMAIN call.changes \ call.todo : vault[u] = call.changes[u]
      BY <1>1, <1>6, <2>3 DEF CallKeeps
    <3>2. ~torn' /\ Kept(settled, registry)' /\ Kept(After(settled, call.changes), call.new)'
      BY <1>1, <1>6, <3>1 DEF Kept, After, GoesOn
    <3>3. v = call.changes[k]
      BY <1>2, <1>6, <2>3
    <3> QED
      BY <1>3, <1>5, <1>6, <3>1, <3>2, <3>3 DEF GoesOn
  <2>4. ASSUME call'.phase = "restore"
        PROVE  /\ torn' \/ Kept(settled, registry)'
               /\ \A u \in DOMAIN call'.changes \ call'.todo : vault'[u] = settled'[u]
    <3>1. /\ torn \/ Kept(settled, registry)
          /\ \A u \in DOMAIN call.changes \ call.todo : vault[u] = settled[u]
      BY <1>1, <1>6, <2>4 DEF CallKeeps
    <3>2. v = settled[k]
      BY <1>1, <1>2, <1>3, <1>4, <1>6, <2>4 DEF CallKeeps
    <3>3. torn' \/ Kept(settled, registry)'
      BY <1>1, <3>1 DEF Kept
    <3> QED
      BY <1>1, <1>3, <1>5, <1>6, <3>1, <3>2, <3>3 DEF GoesOn
  <2> QED
    BY <2>1, <2>2, <2>3, <2>4 DEF CallKeeps
<1> QED
  BY <1>6, <1>7, <1>8 DEF GoesOn

\* A call that fails goes back: what it has written and what it has not is all to be restored.
LEMMA FailuresKeep ==
    ASSUME CredentialInvariant, ChangeFails \/ RestrictFails
    PROVE  CredentialInvariant'
<1> USE DEF CredentialInvariant
<1>1. /\ call # NoCall /\ call.phase = "change" /\ RollBack
      /\ UNCHANGED <<vault, unsure, settled>>
      /\ \/ registry' = registry /\ torn' = torn
         \/ registry' = call.new /\ torn' = TRUE
  BY DEF ChangeFails, RestrictFails, InPhase
<1>2. /\ call.new \in Registries /\ DOMAIN call.old = DOMAIN call.changes
  BY <1>1, CallIsTyped
<1>3. GoesOn /\ call'.phase = "restore" /\ call'.todo = DOMAIN call.old
  BY <1>1, CallGoesOn
<1>4. CredentialTypeOK'
  BY <1>1, <1>2, <1>3 DEF CredentialTypeOK, GoesOn
<1>5. torn' \/ Kept(settled, registry)'
  BY <1>1 DEF CallKeeps, Kept
<1>6. CallKeeps'
  BY <1>1, <1>2, <1>3, <1>5 DEF CallKeeps, GoesOn
<1> QED
  BY <1>3, <1>4, <1>6 DEF GoesOn

LEMMA EndsKeep ==
    ASSUME CredentialInvariant, WriteRegistry \/ Restored \/ RestoreFails
    PROVE  CredentialInvariant'
<1> USE DEF CredentialInvariant
<1>1. call # NoCall /\ call' = NoCall /\ UNCHANGED <<vault, torn>>
  BY DEF WriteRegistry, Restored, RestoreFails, InPhase
<1>2. /\ call.new \in Registries /\ DOMAIN call.changes \subseteq Keys
      /\ DOMAIN call.old = DOMAIN call.changes
      /\ \A u \in DOMAIN call.changes : call.changes[u] \in Store
  BY <1>1, CallIsTyped
<1>3. vault \in [Keys -> Store] /\ settled \in [Keys -> Store]
  BY DEF CredentialTypeOK, Store
<1>4. CallKeeps'
  BY <1>1 DEF CallKeeps
<1>5. CASE WriteRegistry
  <2>1. /\ call.phase = "change" /\ call.todo = {} /\ registry' = call.new /\ unsure' = unsure
        /\ settled' = After(settled, call.changes)
    BY <1>5 DEF WriteRegistry, InPhase, After
  <2>2. settled' \in [Keys -> Store]
    BY <1>2, <1>3, <2>1 DEF After
  <2>3. \A k \in Keys : vault[k] = settled'[k]
    BY <1>1, <1>2, <2>1 DEF CallKeeps, After
  <2>4. vault' = settled'
    BY <1>1, <1>3, <2>2, <2>3
  <2>5. Kept(settled', registry')
    BY <1>1, <2>1 DEF CallKeeps
  <2>6. CredentialTypeOK'
    BY <1>1, <1>2, <1>3, <2>1, <2>2 DEF CredentialTypeOK, Store
  <2> QED
    BY <1>4, <2>4, <2>5, <2>6 DEF Kept
<1>6. CASE Restored
  <2>1. call.phase = "restore" /\ call.todo = {} /\ UNCHANGED <<registry, unsure, settled>>
    BY <1>6 DEF Restored, InPhase
  <2>2. CredentialTypeOK'
    BY <1>1, <2>1 DEF CredentialTypeOK
  <2>3. \A k \in Keys : vault[k] = settled[k]
    BY <1>1, <1>2, <2>1 DEF CallKeeps
  <2>4. vault' = settled'
    BY <1>1, <1>3, <2>1, <2>3
  <2>5. torn' \/ Kept(settled, registry)'
    BY <1>1, <2>1 DEF CallKeeps, Kept
  <2> QED
    BY <1>4, <2>2, <2>4, <2>5
<1>7. CASE RestoreFails
  <2>1. unsure' = TRUE /\ UNCHANGED <<registry, settled>>
    BY <1>7 DEF RestoreFails
  <2>2. CredentialTypeOK'
    BY <1>1, <2>1 DEF CredentialTypeOK
  <2> QED
    BY <1>4, <2>1, <2>2
<1> QED
  BY <1>5, <1>6, <1>7

LEMMA BrokerStep == CredentialInvariant /\ [CredentialNext]_credentialVars => CredentialInvariant'
<1> SUFFICES ASSUME CredentialInvariant, [CredentialNext]_credentialVars PROVE CredentialInvariant'
  OBVIOUS
<1>1. CASE UNCHANGED credentialVars
  BY <1>1 DEF credentialVars, CredentialInvariant, CredentialTypeOK, CallKeeps, Kept, After
<1>2. CASE CredentialNext
  BY <1>2, CallsKeep, StoreStepsKeep, FailuresKeep, EndsKeep DEF CredentialNext
<1> QED
  BY <1>1, <1>2

LEMMA BrokerRuns == CredentialSpec => []CredentialInvariant
BY BrokerStart, BrokerStep, PTL DEF CredentialSpec

\* The file, the store and the call under way keep their types.
THEOREM CredentialsTypeCorrect == CredentialSpec => []CredentialTypeOK
<1>1. CredentialInvariant => CredentialTypeOK
  BY DEF CredentialInvariant
<1> QED
  BY <1>1, BrokerRuns, PTL

\* Between calls of the broker the registry file and the credential store agree, whichever
\* writes of _vault_change failed before, short of a rollback that could not be confirmed.
THEOREM StoresStayInAgreement == CredentialSpec => []StoresAgree
<1>1. CredentialInvariant => StoresAgree
  BY AgreementIsKept DEF CredentialInvariant, StoresAgree
<1> QED
  BY <1>1, BrokerRuns, PTL

----------------------------------------------------------------------------
(* The reply guard.  That an allowed reply is checkpointed rests on what    *)
(* the gate was when it was confirmed, and on what has happened since: a   *)
(* gate of this turn with the present activity, for a task whose state is  *)
(* unchanged, was confirmed after the last activity, when the task's       *)
(* latest checkpoint was the chairman's (GateIsCovered).  It has to be     *)
(* said also that no gate is of a later turn or counts more activity than  *)
(* there was, or a new turn or call could come to meet it (GateIsPast).    *)

LatestIsCovered == \A t \in ReplyTasks : latestIs[t] = "chairman" => t \in covered

GateIsPast == gate.turn <= turn /\ (gate.turn = turn => gate.seq <= activity)

GateIsCovered ==
    \A t \in ReplyTasks :
        gate.turn = turn /\ gate.turn > 0 /\ gate.seq = activity /\ gate.material /\ gate.task = t /\ t \notin changed
        => t \in covered

ReplyInvariant == ReplyTypeOK /\ LatestIsCovered /\ GateIsPast /\ GateIsCovered

LEMMA NoGateIsTyped ==
    /\ NoGate \in [turn : 0..MaxTurns, task : ReplyTasks \cup {NoTask},
                  seq : 0..MaxActivity, material : BOOLEAN]
    /\ NoGate.turn = 0 /\ NoGate.seq = 0
BY ReplyAssumption DEF NoGate

LEMMA ReplyStart == ReplyInit => ReplyInvariant
<1> SUFFICES ASSUME ReplyInit PROVE ReplyInvariant
  OBVIOUS
<1>1. ReplyTypeOK
  BY NoGateIsTyped, ReplyAssumption DEF ReplyInit, ReplyTypeOK
<1>2. LatestIsCovered /\ GateIsPast /\ GateIsCovered
  BY NoGateIsTyped DEF ReplyInit, LatestIsCovered, GateIsPast, GateIsCovered
<1> QED
  BY <1>1, <1>2 DEF ReplyInvariant

\* A gate that is not of the present turn, or behind its activity, covers nothing.
LEMMA TurnsKeep ==
    ASSUME ReplyInvariant, BeginTurn \/ ObserveActivity
    PROVE  ReplyInvariant'
<1> USE DEF ReplyInvariant
<1>1. ReplyTypeOK'
  <2>1. CASE BeginTurn
    <3>1. /\ turn' \in 0..MaxTurns /\ activity' = 0 /\ 0 \in 0..MaxActivity /\ gate' = NoGate
          /\ blocked' = FALSE /\ latestIs' = [t \in ReplyTasks |-> "other"] /\ covered' = {}
          /\ UNCHANGED <<bound, changed, stopping>>
      BY <2>1, ReplyAssumption DEF ReplyTypeOK, BeginTurn
    <3> QED
      BY <3>1, NoGateIsTyped DEF ReplyTypeOK
  <2>2. CASE ObserveActivity
    BY <2>2, ReplyAssumption DEF ReplyTypeOK, ObserveActivity
  <2> QED
    BY <2>1, <2>2
<1>2. LatestIsCovered'
  BY DEF LatestIsCovered, BeginTurn, ObserveActivity
<1>3. GateIsPast' /\ GateIsCovered'
  <2>1. /\ turn \in Nat /\ activity \in Nat /\ gate.turn \in Nat /\ gate.seq \in Nat
    BY ReplyAssumption DEF ReplyTypeOK
  <2>2. CASE BeginTurn
    <3>1. turn' = turn + 1 /\ gate'.turn = 0
      BY <2>2 DEF BeginTurn, NoGate
    <3> QED
      BY <2>1, <3>1 DEF GateIsPast, GateIsCovered
  <2>3. CASE ObserveActivity
    <3>1. turn' = turn /\ gate' = gate /\ activity' = activity + 1
      BY <2>3 DEF ObserveActivity
    <3> QED
      BY <2>1, <3>1 DEF GateIsPast, GateIsCovered
  <2> QED
    BY <2>2, <2>3
<1> QED
  BY <1>1, <1>2, <1>3

\* What leaves the turn, its activity and the gate alone can only add to what is covered.
LEMMA CheckpointsKeep ==
    ASSUME ReplyInvariant,
           \/ AutomaticCheckpoint
           \/ \E t \in ReplyTasks : Checkpoint(t) \/ StateChanges(t)
           \/ \E t \in ReplyTasks \cup {NoTask} : Bind(t)
    PROVE  ReplyInvariant'
<1> USE DEF ReplyInvariant
<1>1. UNCHANGED <<turn, activity, gate>> /\ covered \subseteq covered' /\ changed \subseteq changed'
  BY DEF AutomaticCheckpoint, Checkpoint, StateChanges, Bind
<1>2. ReplyTypeOK'
  BY DEF ReplyTypeOK, AutomaticCheckpoint, Checkpoint, StateChanges, Bind
<1>3. LatestIsCovered'
  BY DEF ReplyTypeOK, LatestIsCovered, AutomaticCheckpoint, Checkpoint, StateChanges, Bind
<1>4. GateIsPast' /\ GateIsCovered'
  BY <1>1 DEF GateIsPast, GateIsCovered
<1> QED
  BY <1>2, <1>3, <1>4

LEMMA GateKeeps ==
    ASSUME ReplyInvariant, NEW material \in BOOLEAN, ConfirmGate(material)
    PROVE  ReplyInvariant'
<1> USE DEF ReplyInvariant
<1>1. /\ turn \in 0..MaxTurns /\ activity \in 0..MaxActivity /\ bound \in ReplyTasks
      /\ gate' = [turn |-> turn, task |-> bound, seq |-> activity, material |-> material]
      /\ UNCHANGED <<turn, bound, activity, blocked, latestIs, covered, stopping>>
      /\ changed' = {} /\ (material => latestIs[bound] = "chairman")
  BY DEF ReplyTypeOK, ConfirmGate, CheckpointFits
<1>2. ReplyTypeOK'
  BY <1>1 DEF ReplyTypeOK
<1>3. LatestIsCovered' /\ GateIsPast'
  BY <1>1, ReplyAssumption DEF LatestIsCovered, GateIsPast
<1>4. GateIsCovered'
  BY <1>1 DEF LatestIsCovered, GateIsCovered
<1> QED
  BY <1>2, <1>3, <1>4

LEMMA StopsKeep ==
    ASSUME ReplyInvariant,
           \/ InspectStop \/ FinishStop \/ StopHookDies
           \/ \E active \in BOOLEAN : MarkBlocked(active)
    PROVE  ReplyInvariant'
<1> USE DEF ReplyInvariant
<1>1. UNCHANGED <<turn, activity, gate, latestIs, covered>> /\ changed \subseteq changed'
  BY DEF InspectStop, MarkBlocked, FinishStop, StopHookDies
<1>2. ReplyTypeOK'
  <2>1. CASE InspectStop
    BY <2>1 DEF ReplyTypeOK, InspectStop
  <2>2. CASE \E active \in BOOLEAN : MarkBlocked(active)
    <3>1. UNCHANGED <<turn, bound, activity, gate, latestIs, covered, changed>>
      BY <2>2 DEF MarkBlocked
    <3>2. blocked' \in BOOLEAN /\ stopping' \in {"none", "refused", "allowed"}
      BY <2>2 DEF MarkBlocked, ReplyTypeOK
    <3> QED
      BY <3>1, <3>2 DEF ReplyTypeOK
  <2>3. CASE FinishStop
    BY <2>3 DEF ReplyTypeOK, FinishStop
  <2>4. CASE StopHookDies
    BY <2>4 DEF ReplyTypeOK, StopHookDies
  <2> QED
    BY <2>1, <2>2, <2>3, <2>4
<1>3. LatestIsCovered' /\ GateIsPast' /\ GateIsCovered'
  BY <1>1 DEF LatestIsCovered, GateIsPast, GateIsCovered
<1> QED
  BY <1>2, <1>3

LEMMA ReplyStep == ReplyInvariant /\ [ReplyNext]_replyVars => ReplyInvariant'
<1> SUFFICES ASSUME ReplyInvariant, [ReplyNext]_replyVars PROVE ReplyInvariant'
  OBVIOUS
<1>1. CASE UNCHANGED replyVars
  BY <1>1 DEF replyVars, ReplyInvariant, ReplyTypeOK, LatestIsCovered, GateIsPast, GateIsCovered
<1>2. CASE ReplyNext
  BY <1>2, TurnsKeep, CheckpointsKeep, GateKeeps, StopsKeep DEF ReplyNext
<1> QED
  BY <1>1, <1>2

LEMMA ReplyRuns == ReplySpec => []ReplyInvariant
BY ReplyStart, ReplyStep, PTL DEF ReplySpec

\* The guard's row, the gate and the hooks' state keep their types.
THEOREM RepliesTypeCorrect == ReplySpec => []ReplyTypeOK
<1>1. ReplyInvariant => ReplyTypeOK
  BY DEF ReplyInvariant
<1> QED
  BY <1>1, ReplyRuns, PTL

\* What reply_guard lets through as material comes after a checkpoint of the chairman for
\* the bound task that is newer than the turn and every call observed in it.
THEOREM AllowedRepliesAreCheckpointed == ReplySpec => AllowedReplyIsCheckpointed
<1>1. ReplyInvariant /\ [ReplyNext]_replyVars
      => [InspectStop /\ bound # NoTask /\ stopping' = "allowed" /\ gate.material
            => bound \in covered]_replyVars
  <2> SUFFICES ASSUME ReplyInvariant, InspectStop, bound # NoTask, stopping' = "allowed", gate.material
               PROVE  bound \in covered
    OBVIOUS
  <2>1. GateCurrent /\ turn > 0 /\ bound \in ReplyTasks
    BY DEF InspectStop, ReplyInvariant, ReplyTypeOK
  <2> QED
    BY <2>1 DEF GateCurrent, ReplyInvariant, GateIsCovered
<1> QED
  BY <1>1, ReplyRuns, PTL DEF ReplySpec, AllowedReplyIsCheckpointed

----------------------------------------------------------------------------
(* The services together. *)

servicesVars == <<part, knowledgeVars, sessionVars, replyVars, userVars, procedureVars,
                  credentialVars, governanceVars>>

LEMMA ServicesBegin ==
    ServicesInit => /\ part \in Parts
                    /\ KnowledgeInit /\ SessionInit /\ ReplyInit /\ UserInit
                    /\ ProcedureInit /\ CredentialInit /\ GovernanceInit
BY DEF ServicesInit

LEMMA ServicesMove ==
    [ServicesNext]_servicesVars =>
        /\ part' = part
        /\ [KnowledgeNext]_knowledgeVars /\ [SessionNext]_sessionVars /\ [ReplyNext]_replyVars
        /\ [UserNext]_userVars /\ [ProcedureNext]_procedureVars
        /\ [CredentialNext]_credentialVars /\ [GovernanceNext]_governanceVars
BY DEF ServicesNext, servicesVars

\* No service reaches into another one: what the seven do in one behaviour is for each of
\* them a behaviour of its own, with the steps of the others as stutters.
THEOREM ServicesDoNotInterfere ==
    ServicesSpec => /\ KnowledgeSpec /\ SessionSpec /\ ReplySpec /\ UserSpec
                    /\ ProcedureSpec /\ CredentialSpec /\ GovernanceSpec
<1> QED
  BY ServicesBegin, ServicesMove, PTL
  DEF ServicesSpec, servicesVars, KnowledgeSpec, SessionSpec, ReplySpec, UserSpec,
      ProcedureSpec, CredentialSpec, GovernanceSpec

\* The tables of the seven services are typed in every state of their composition.
THEOREM ServicesTypeCorrect == ServicesSpec => []ServicesTypeOK
<1>1. ServicesSpec => [](part \in Parts)
  <2>1. part \in Parts /\ [ServicesNext]_servicesVars => (part \in Parts)'
    BY ServicesMove DEF Parts
  <2> QED
    BY <2>1, ServicesBegin, PTL DEF ServicesSpec, servicesVars
<1>2. /\ part \in Parts /\ KnowledgeTypeOK /\ SessionTypeOK /\ ReplyTypeOK /\ UserTypeOK
      /\ ProcedureTypeOK /\ CredentialTypeOK /\ GovernanceTypeOK
      => ServicesTypeOK
  BY DEF ServicesTypeOK
<1> QED
  BY <1>1, <1>2, ServicesDoNotInterfere, KnowledgeTypeCorrect, SessionTypeCorrect,
     RepliesTypeCorrect, UserTypeCorrect, ProceduresTypeCorrect, CredentialsTypeCorrect,
     GovernanceTypeCorrect, PTL
=============================================================================
