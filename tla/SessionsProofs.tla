--------------------------- MODULE SessionsProofs ---------------------------
(***************************************************************************)
(* Sessions, for any conversations, rows, processes, items, calls, tasks   *)
(* and inputs of the user.                                                 *)
(*                                                                         *)
(* What a session has read: an open row that has read an item revoked      *)
(* since is contaminated until its conversation acknowledges that          *)
(* revocation or a later one.  The property itself is not inductive: it    *)
(* says nothing of a row whose acknowledgement is current, which the next  *)
(* revocation must mark again.  What is kept is that the mark of an open   *)
(* row is never older than the revocation of anything it has read          *)
(* (LoadedIsMarked), and this needs that a row nobody owns has read        *)
(* nothing (FreshRowsAreClean).                                            *)
(*                                                                         *)
(* What the user told it: a task is cancelled only on an explicit word     *)
(* that was committed to that very task, and what was said of a task is    *)
(* neither moved nor added to after its end.  Between the transactions of  *)
(* a cancellation the first says nothing, so the invariant adds that an    *)
(* authorization rests on such a word as well (AuthorizedWasAsked).  Every *)
(* step keeps the words that are there (WordsStay): an input inserted      *)
(* before others, a commit and the end of a session change no word that    *)
(* already speaks for a task.                                              *)
(***************************************************************************)
EXTENDS SessionContext, UserInputs, SequenceTheorems, FiniteSetTheorems, TLAPS

----------------------------------------------------------------------------
(* What a session has read. *)

StepsAreLive == \A p \in Hosts : step[p] # "idle" => running[p] # Nobody

FreshRowsAreClean == \A r \in Rows : owner[r] = Nobody => loaded[r] = {}

LoadedIsMarked ==
    \A r \in open, i \in 1..Len(revocations) : revocations[i] \in loaded[r] => i <= mark[r]

ContextInvariant ==
    /\ SessionTypeOK
    /\ StepsAreLive
    /\ FreshRowsAreClean
    /\ LoadedIsMarked

----------------------------------------------------------------------------
LEMMA ContextInit == SessionInit => ContextInvariant
<1> SUFFICES ASSUME SessionInit PROVE ContextInvariant
  OBVIOUS
<1>1. SessionTypeOK
  BY SessionAssumption DEF SessionInit, SessionTypeOK
<1>2. StepsAreLive /\ FreshRowsAreClean /\ LoadedIsMarked
  BY DEF SessionInit, StepsAreLive, FreshRowsAreClean, LoadedIsMarked
<1> QED
  BY <1>1, <1>2 DEF ContextInvariant

\* A step that leaves the memory read, the ledger, the marks and the rows'
\* owners alone, and opens no row.
LEMMA QuietKeeps ==
    ASSUME ContextInvariant, SessionTypeOK', StepsAreLive', open' \subseteq open,
           UNCHANGED <<owner, loaded, revocations, mark>>
    PROVE  ContextInvariant'
BY DEF ContextInvariant, FreshRowsAreClean, LoadedIsMarked

LEMMA LaunchKeeps ==
    ASSUME ContextInvariant, NEW p \in Hosts, NEW c \in Conversations, Launch(p, c) \/ ClearTo(p, c)
    PROVE  ContextInvariant'
<1> USE DEF ContextInvariant, LiveHosts, rowVars, contextVars
<1>1. CASE Launch(p, c)
  <2>1. SessionTypeOK'
    BY <1>1 DEF SessionTypeOK, Launch
  <2>2. StepsAreLive'
    BY <1>1, SessionAssumption DEF SessionTypeOK, Launch, StepsAreLive
  <2> QED
    BY <1>1, <2>1, <2>2, QuietKeeps DEF Launch
<1>2. CASE ClearTo(p, c)
  <2>1. SessionTypeOK'
    BY <1>2 DEF SessionTypeOK, ClearTo
  <2>2. StepsAreLive'
    BY <1>2, SessionAssumption DEF SessionTypeOK, ClearTo, StepsAreLive
  <2> QED
    BY <1>2, <2>1, <2>2, QuietKeeps DEF ClearTo
<1> QED
  BY <1>1, <1>2

LEMMA ProcessKeeps ==
    ASSUME ContextInvariant, NEW p \in Hosts, EndConversation(p) \/ Prompt(p) \/ ObserveSession(p)
    PROVE  ContextInvariant'
<1> USE DEF ContextInvariant, LiveHosts, rowVars, contextVars
<1>1. CASE EndConversation(p)
  <2>1. SessionTypeOK'
    BY <1>1 DEF SessionTypeOK, EndConversation
  <2>2. StepsAreLive'
    BY <1>1 DEF SessionTypeOK, EndConversation, StepsAreLive
  <2> QED
    BY <1>1, <2>1, <2>2, QuietKeeps DEF EndConversation
<1>2. CASE Prompt(p)
  <2>1. SessionTypeOK'
    BY <1>2 DEF SessionTypeOK, Prompt
  <2>2. StepsAreLive'
    BY <1>2 DEF SessionTypeOK, Prompt, StepsAreLive
  <2> QED
    BY <1>2, <2>1, <2>2, QuietKeeps DEF Prompt
<1>3. CASE ObserveSession(p)
  <2>1. SessionTypeOK'
    <3>1. step' \in [Hosts -> {"idle", "starting", "prompting", "started", "prompted", "staging"}]
      BY <1>3 DEF SessionTypeOK, ObserveSession
    <3>2. hostPid' \in [Rows -> Hosts \cup {Nobody}] /\ open' \subseteq open
      BY <1>3 DEF SessionTypeOK, ObserveSession
    <3> QED
      BY <1>3, <3>1, <3>2 DEF SessionTypeOK, ObserveSession
  <2>2. StepsAreLive'
    BY <1>3 DEF SessionTypeOK, ObserveSession, StepsAreLive
  <2> QED
    BY <1>3, <2>1, <2>2, QuietKeeps DEF ObserveSession
<1> QED
  BY <1>1, <1>2, <1>3

\* A row that is inserted has read nothing.
LEMMA OpenSessionKeeps ==
    ASSUME ContextInvariant, NEW p \in Hosts, OpenSession(p)
    PROVE  ContextInvariant'
<1> USE DEF ContextInvariant
<1>1. running[p] \in Conversations /\ running[p] # Nobody
  BY SessionAssumption DEF OpenSession, StepsAreLive, SessionTypeOK
<1>2. UNCHANGED <<running, gone, ending, inspecting, loaded, revocations, mark, ack, attestations>>
  BY DEF OpenSession, contextVars
<1>3. step' \in [Hosts -> {"idle", "starting", "prompting", "started", "prompted", "staging"}]
  BY DEF OpenSession, SessionTypeOK
<1>4. StepsAreLive'
  BY <1>1, <1>2 DEF OpenSession, StepsAreLive, SessionTypeOK
<1>5. CASE UNCHANGED rowVars
  <2>1. SessionTypeOK'
    BY <1>2, <1>3, <1>5 DEF SessionTypeOK, rowVars
  <2> QED
    BY <1>2, <1>4, <1>5, <2>1, QuietKeeps DEF rowVars
<1>6. ASSUME NEW r \in Rows, owner[r] = Nobody, owner' = [owner EXCEPT ![r] = running[p]],
             open' = open \cup {r}, UNCHANGED <<hostPid, hold>>
      PROVE  ContextInvariant'
  <2>1. SessionTypeOK'
    BY <1>1, <1>2, <1>3, <1>6 DEF SessionTypeOK
  <2>2. FreshRowsAreClean'
    BY <1>1, <1>2, <1>6 DEF FreshRowsAreClean, SessionTypeOK
  <2>3. LoadedIsMarked'
    BY <1>2, <1>6 DEF LoadedIsMarked, FreshRowsAreClean
  <2> QED
    BY <1>4, <2>1, <2>2, <2>3
<1> QED
  BY <1>5, <1>6 DEF OpenSession

LEMMA StagePromptKeeps ==
    ASSUME ContextInvariant, NEW p \in Hosts, NEW wish \in Wishes, StagePrompt(p, wish)
    PROVE  ContextInvariant'
<1> USE DEF ContextInvariant, contextVars
<1>1. running[p] \in Conversations
  BY DEF StagePrompt, StepsAreLive, SessionTypeOK
<1>2. SessionTypeOK'
  <2>0. wish \in BOOLEAN
    BY SessionAssumption
  <2>1. hold' \in [Rows -> BOOLEAN]
    BY <2>0 DEF SessionTypeOK, StagePrompt
  <2>2. inspecting' \subseteq Conversations
    BY <1>1 DEF SessionTypeOK, StagePrompt
  <2> QED
    BY <2>1, <2>2 DEF SessionTypeOK, StagePrompt
<1>3. StepsAreLive'
  BY DEF SessionTypeOK, StagePrompt, StepsAreLive
<1>4. open' = open /\ owner' = owner
  BY DEF StagePrompt, rowVars
<1>5. UNCHANGED <<loaded, revocations, mark>>
  BY DEF StagePrompt
<1> QED
  BY <1>2, <1>3, <1>4, <1>5, QuietKeeps

LEMMA EndWorkerKeeps ==
    ASSUME ContextInvariant, NEW c \in Conversations, EndWorker(c)
    PROVE  ContextInvariant'
<1> USE DEF ContextInvariant, contextVars
<1>1. SessionTypeOK'
  BY DEF SessionTypeOK, EndWorker
<1>2. StepsAreLive'
  BY DEF EndWorker, StepsAreLive
<1> QED
  BY <1>1, <1>2, QuietKeeps DEF EndWorker

\* What is read is not revoked, so no revocation of it is older than the mark.
LEMMA LoadKeeps ==
    ASSUME ContextInvariant, NEW p \in Hosts, NEW x \in Items, Load(p, x)
    PROVE  ContextInvariant'
<1> USE DEF ContextInvariant, rowVars
<1>1. SessionTypeOK'
  BY DEF SessionTypeOK, Load
<1>2. StepsAreLive'
  BY DEF Load, StepsAreLive
<1>3. FreshRowsAreClean'
  BY DEF Load, FreshRowsAreClean, LiveHosts, OpenRowsOf, SessionTypeOK
<1>4. LoadedIsMarked'
  <2> SUFFICES ASSUME NEW r \in open, NEW i \in 1..Len(revocations), revocations[i] \in loaded'[r]
               PROVE  i <= mark[r]
    BY DEF Load, LoadedIsMarked
  <2>1. revocations[i] # x
    BY DEF Load, IsRevoked
  <2>2. revocations[i] \in loaded[r]
    BY <2>1 DEF Load, SessionTypeOK
  <2> QED
    BY <2>2 DEF LoadedIsMarked
<1> QED
  BY <1>1, <1>2, <1>3, <1>4

\* A revocation marks every open row with the newest place in the ledger.
LEMMA RevokeKeeps ==
    ASSUME ContextInvariant, NEW x \in Items, Revoke(x)
    PROVE  ContextInvariant'
<1> USE DEF ContextInvariant, rowVars, Marked
<1>0. revocations \in Seq(Items) /\ Len(revocations) \in Nat
  BY LenProperties DEF SessionTypeOK
<1>1. /\ revocations' \in Seq(Items) /\ Len(revocations') = Len(revocations) + 1
  BY <1>0, AppendProperties DEF Revoke
<1>2. \A r \in Rows : mark'[r] = IF r \in open THEN Len(revocations) + 1 ELSE mark[r]
  BY DEF Revoke
<1>3. SessionTypeOK'
  <2>1. \A r \in Rows : {mark'[r], ack'[r]} \subseteq 0..Len(revocations')
    BY <1>0, <1>1, <1>2 DEF SessionTypeOK, Revoke
  <2>2. \A a \in attestations' : a.call \in Calls /\ a.row \in Rows \cup {Nobody}
                                 /\ a.key \in 0..Len(revocations')
    BY <1>0, <1>1 DEF SessionTypeOK, Revoke
  <2> QED
    BY <1>1, <2>1, <2>2 DEF SessionTypeOK, Revoke
<1>4. StepsAreLive' /\ FreshRowsAreClean'
  BY DEF Revoke, StepsAreLive, FreshRowsAreClean
<1>5. LoadedIsMarked'
  BY <1>0, <1>1, <1>2 DEF LoadedIsMarked, Revoke, SessionTypeOK
<1> QED
  BY <1>3, <1>4, <1>5

LEMMA AttestKeeps ==
    ASSUME ContextInvariant, NEW p \in Hosts, NEW call \in Calls, Attest(p, call)
    PROVE  ContextInvariant'
<1> USE DEF ContextInvariant, rowVars
<1>1. PICK r \in OpenRowsOf(running[p]) :
        attestations' = attestations \cup {[call |-> call, row |-> r, key |-> mark[r]]}
  BY DEF Attest
<1>2. r \in Rows /\ mark[r] \in 0..Len(revocations)
  BY DEF OpenRowsOf, SessionTypeOK
<1>3. SessionTypeOK'
  BY <1>1, <1>2 DEF SessionTypeOK, Attest
<1>4. StepsAreLive'
  BY DEF Attest, StepsAreLive
<1> QED
  BY <1>3, <1>4, QuietKeeps DEF Attest

\* An acknowledgement or an expiry spends the attestation.
LEMMA SpendKeeps ==
    ASSUME ContextInvariant, NEW a \in attestations, Acknowledge(a) \/ Expire(a)
    PROVE  ContextInvariant'
<1> USE DEF ContextInvariant, rowVars
<1>0. Len(revocations) \in Nat
  BY LenProperties DEF SessionTypeOK
<1>1. a.call \in Calls /\ a.row \in Rows \cup {Nobody} /\ a.key \in 0..Len(revocations)
  BY DEF SessionTypeOK
<1>2. Spent(a).call = a.call /\ Spent(a).row = Nobody /\ Spent(a).key = 0
  BY DEF Spent
<1>3. \A r \in Rows : ack'[r] \in {ack[r], a.key}
  <2>1. CASE ack' = ack
    BY <2>1
  <2>2. CASE ack' = [ack EXCEPT ![a.row] = a.key]
    BY <2>2
  <2> QED
    BY <2>1, <2>2 DEF Acknowledge, Expire
<1>4. \A r \in Rows : {mark[r], ack'[r]} \subseteq 0..Len(revocations)
  BY <1>1, <1>3 DEF SessionTypeOK
<1>5. \A b \in attestations' : b.call \in Calls /\ b.row \in Rows \cup {Nobody}
                               /\ b.key \in 0..Len(revocations)
  BY <1>0, <1>1, <1>2 DEF Acknowledge, Expire, SessionTypeOK
<1>6. /\ UNCHANGED <<running, gone, ending, step, inspecting, loaded, revocations, mark>>
      /\ UNCHANGED <<owner, open, hostPid, hold>>
  BY DEF Acknowledge, Expire
<1>7. SessionTypeOK' /\ StepsAreLive'
  BY <1>4, <1>5, <1>6 DEF SessionTypeOK, StepsAreLive
<1> QED
  BY <1>6, <1>7, QuietKeeps

LEMMA ContextNext ==
    ASSUME ContextInvariant, [SessionNext]_sessionVars
    PROVE  ContextInvariant'
<1>1. CASE UNCHANGED sessionVars
  BY <1>1 DEF sessionVars, ContextInvariant, SessionTypeOK, StepsAreLive, FreshRowsAreClean, LoadedIsMarked
<1>2. CASE SessionNext
  BY <1>2, LaunchKeeps, ProcessKeeps, OpenSessionKeeps, StagePromptKeeps, EndWorkerKeeps,
     LoadKeeps, RevokeKeeps, AttestKeeps, SpendKeeps DEF SessionNext
<1> QED
  BY <1>1, <1>2

LEMMA InvariantMarks == ContextInvariant => ContextIsMarked
<1> SUFFICES ASSUME ContextInvariant, NEW r \in open, NEW i \in 1..Len(revocations),
                    revocations[i] \in loaded[r], i > ack[r]
             PROVE  IsContaminated(r)
  BY DEF ContextIsMarked
<1>1. i <= mark[r] /\ Len(revocations) \in Nat
  BY LenProperties DEF ContextInvariant, LoadedIsMarked, SessionTypeOK
<1>2. mark[r] \in Nat /\ ack[r] \in Nat
  BY DEF ContextInvariant, SessionTypeOK
<1> QED
  BY <1>1, <1>2 DEF IsContaminated

\* The states of session_lifecycle.py and session_contamination.py are typed.
THEOREM SessionTypeCorrect == SessionSpec => []SessionTypeOK
<1>1. ContextInvariant => SessionTypeOK
  BY DEF ContextInvariant
<1> QED
  BY <1>1, ContextInit, ContextNext, PTL DEF SessionSpec

\* Whatever starts, resumes, ends, revokes and acknowledges, the preflight
\* (session_contamination.py, control_preflight.py) finds every open row that
\* has read revoked memory contaminated until it is refreshed.
THEOREM ContextsStayMarked == SessionSpec => []ContextIsMarked
<1> QED
  BY ContextInit, ContextNext, InvariantMarks, PTL DEF SessionSpec

----------------------------------------------------------------------------
(* What the user told it. *)

\* The user asked to cancel t.
AskedFor(t) == \E i \in DOMAIN inputs : inputs[i].kind = "cancel" /\ inputs[i].task = t

AuthorizedWasAsked ==
    \A s \in UserSessions, t \in UserTasks : authorized[s] = t => AskedFor(t)

InputRecord == [session : UserSessions \cup {None}, kind : Kinds, task : UserTasks \cup {None}]

\* What of UserTypeOK the argument is about.
WordTyping ==
    /\ inputs \in Seq(InputRecord)
    /\ authorized \in [UserSessions -> UserTasks \cup {None}]
    /\ taskStatus \in [UserTasks -> {"open", "completed", "cancelled"}]

WordInvariant ==
    /\ WordTyping
    /\ AuthorizedWasAsked
    /\ CancelledWasAsked

\* What the user asked for stays asked for.
WordsStay == \A t \in UserTasks : AskedFor(t) => AskedFor(t)'

----------------------------------------------------------------------------
LEMMA WordInit == UserInit => WordInvariant
<1> SUFFICES ASSUME UserInit PROVE WordInvariant
  OBVIOUS
<1>1. WordTyping
  BY DEF UserInit, WordTyping, InputRecord
<1>2. AuthorizedWasAsked /\ CancelledWasAsked
  BY UserAssumption DEF UserInit, AuthorizedWasAsked, CancelledWasAsked
<1> QED
  BY <1>1, <1>2 DEF WordInvariant

LEMMA InputsAreTyped ==
    ASSUME WordInvariant
    PROVE  /\ inputs \in Seq(InputRecord) /\ Len(inputs) \in Nat
           /\ DOMAIN inputs = 1..Len(inputs)
           /\ inputs \in [1..Len(inputs) -> InputRecord]
BY LenProperties DEF WordInvariant, WordTyping

\* A rewriting of the inputs that keeps each one's kind and the task it speaks for.
LEMMA RewritingKeeps ==
    ASSUME WordInvariant, DOMAIN inputs' = DOMAIN inputs,
           \A i \in DOMAIN inputs : /\ inputs'[i] \in InputRecord
                                    /\ inputs'[i].kind = inputs[i].kind
                                    /\ inputs[i].task \in {None, inputs'[i].task},
           inputs' \in [DOMAIN inputs -> InputRecord]
    PROVE  inputs' \in Seq(InputRecord) /\ WordsStay
<1>1. inputs' \in Seq(InputRecord)
  BY InputsAreTyped, SeqDef
<1>2. WordsStay
  BY UserAssumption DEF WordsStay, AskedFor
<1> QED
  BY <1>1, <1>2

LEMMA CommittedKeeps ==
    ASSUME WordInvariant, NEW s \in UserSessions, NEW t \in UserTasks, inputs' = Committed(s, t)
    PROVE  /\ inputs' \in Seq(InputRecord) /\ WordsStay
           /\ \A i \in Pending(s) : inputs'[i].kind = inputs[i].kind /\ inputs'[i].task = t
<1>1. \A i \in DOMAIN inputs : inputs[i] \in InputRecord
  BY InputsAreTyped
<1>2. \A i \in DOMAIN inputs :
        inputs'[i] = IF i \in Pending(s) THEN [inputs[i] EXCEPT !.task = t] ELSE inputs[i]
  BY DEF Committed
<1>3. \A i \in Pending(s) : i \in DOMAIN inputs /\ inputs[i].task = None
  BY DEF Pending, InputsOf
<1>4. \A i \in DOMAIN inputs : /\ inputs'[i] \in InputRecord
                               /\ inputs'[i].kind = inputs[i].kind
                               /\ inputs[i].task \in {None, inputs'[i].task}
                               /\ i \in Pending(s) => inputs'[i].task = t
  BY <1>1, <1>2, <1>3 DEF InputRecord
<1>5. DOMAIN inputs' = DOMAIN inputs /\ inputs' \in [DOMAIN inputs -> InputRecord]
  BY <1>2, <1>4 DEF Committed
<1> QED
  BY <1>3, <1>4, <1>5, RewritingKeeps

LEMMA ReplacedKeeps ==
    ASSUME WordInvariant, NEW s \in UserSessions, ReplaceSession(s)
    PROVE  inputs' \in Seq(InputRecord) /\ WordsStay
<1>1. \A i \in DOMAIN inputs : inputs[i] \in InputRecord
  BY InputsAreTyped
<1>2. \A i \in DOMAIN inputs :
        inputs'[i] = IF inputs[i].session = s THEN [inputs[i] EXCEPT !.session = None] ELSE inputs[i]
  BY DEF ReplaceSession
<1>3. \A i \in DOMAIN inputs : /\ inputs'[i] \in InputRecord
                               /\ inputs'[i].kind = inputs[i].kind
                               /\ inputs[i].task \in {None, inputs'[i].task}
  BY <1>1, <1>2 DEF InputRecord
<1>4. DOMAIN inputs' = DOMAIN inputs /\ inputs' \in [DOMAIN inputs -> InputRecord]
  BY <1>2, <1>3 DEF ReplaceSession
<1> QED
  BY <1>3, <1>4, RewritingKeeps

\* What InsertAt does: the elements before the place stay, the others move by one.
LEMMA Insertion ==
    ASSUME NEW T, NEW seq \in Seq(T), NEW e \in T, NEW at \in 1..(Len(seq) + 1)
    PROVE  /\ InsertAt(seq, at, e) \in Seq(T)
           /\ Len(InsertAt(seq, at, e)) = Len(seq) + 1
           /\ \A j \in 1..Len(seq) :
                InsertAt(seq, at, e)[IF j < at THEN j ELSE j + 1] = seq[j]
<1> DEFINE front == SubSeq(seq, 1, at - 1)
           back == SubSeq(seq, at, Len(seq))
<1>1. Len(seq) \in Nat
  BY LenProperties
<1>2. /\ front \in Seq(T) /\ Len(front) = at - 1
      /\ \A j \in 1..(at - 1) : front[j] = seq[j]
  BY <1>1, SubSeqProperties
<1>3. /\ back \in Seq(T) /\ Len(back) = Len(seq) - at + 1
      /\ \A j \in 1..(Len(seq) - at + 1) : back[j] = seq[at + j - 1]
  BY <1>1, SubSeqProperties
<1>4. <<e>> \in Seq(T) /\ Len(<<e>>) = 1
  OBVIOUS
<1> HIDE DEF front, back
<1>5. /\ front \o <<e>> \in Seq(T) /\ Len(front \o <<e>>) = at
      /\ \A j \in 1..(at - 1) : (front \o <<e>>)[j] = front[j]
  BY <1>1, <1>2, <1>4, ConcatProperties
<1>F. Len(back) \in Nat /\ at \in Nat
  BY <1>1, <1>3
<1> DEFINE fe == front \o <<e>>
<1> HIDE DEF fe
<1>6. /\ fe \o back \in Seq(T)
      /\ Len(fe \o back) = at + Len(back)
      /\ \A j \in 1..(at + Len(back)) : (fe \o back)[j] = IF j <= at THEN fe[j] ELSE back[j - at]
  <2>1. fe \in Seq(T) /\ Len(fe) = at
    BY <1>5 DEF fe
  <2> QED
    BY <1>3, <2>1, ConcatProperties
<1>7. InsertAt(seq, at, e) = fe \o back
  BY DEF InsertAt, front, back, fe
<1>8. ASSUME NEW j \in 1..Len(seq)
      PROVE  (fe \o back)[IF j < at THEN j ELSE j + 1] = seq[j]
  <2>1. CASE j < at
    <3>1. j \in 1..(at - 1) /\ j \in 1..(at + Len(back)) /\ j <= at
      BY <1>1, <1>F, <2>1
    <3>2. fe[j] = front[j] /\ front[j] = seq[j]
      BY <1>2, <1>5, <3>1 DEF fe
    <3> QED
      BY <1>6, <2>1, <3>1, <3>2
  <2>2. CASE ~(j < at)
    <3>1. j + 1 \in 1..(at + Len(back)) /\ ~(j + 1 <= at) /\ j + 1 - at \in 1..(Len(seq) - at + 1)
      BY <1>1, <1>3, <2>2
    <3>2. back[j + 1 - at] = seq[at + (j + 1 - at) - 1]
      BY <1>3, <3>1
    <3>3. at + (j + 1 - at) - 1 = j
      BY <1>1
    <3> QED
      <4>1. (fe \o back)[j + 1] = back[j + 1 - at]
        BY <1>6, <3>1
      <4> QED
        BY <2>2, <3>2, <3>3, <4>1
  <2> QED
    BY <2>1, <2>2
<1> QED
  BY <1>1, <1>3, <1>6, <1>7, <1>8

\* A late input moves those observed after it by one place.
LEMMA ObserveKeeps ==
    ASSUME WordInvariant, NEW s \in UserSessions, NEW kind \in Kinds, Observe(s, kind)
    PROVE  inputs' \in Seq(InputRecord) /\ WordsStay
<1> DEFINE new == [session |-> s, kind |-> kind, task |-> None]
           n == Len(inputs)
<1>1. PICK at \in {n + 1, n} \ {0} : inputs' = InsertAt(inputs, at, new)
  BY DEF Observe
<1>2. inputs \in Seq(InputRecord) /\ n \in Nat /\ DOMAIN inputs = 1..n /\ new \in InputRecord
  BY InputsAreTyped DEF InputRecord
<1>3. at \in 1..(n + 1)
  <2> HIDE DEF n
  <2> QED
    BY <1>1, <1>2
<1> HIDE DEF new
<1>4. inputs' \in Seq(InputRecord) /\ Len(inputs') = n + 1
  BY <1>1, <1>2, <1>3, Insertion
<1>5. DOMAIN inputs' = 1..(n + 1)
  BY <1>4, LenProperties
<1>6. WordsStay
  <2> SUFFICES ASSUME NEW t \in UserTasks, NEW i \in DOMAIN inputs,
                      inputs[i].kind = "cancel", inputs[i].task = t
               PROVE  AskedFor(t)'
    BY DEF WordsStay, AskedFor
  <2> DEFINE k == IF i < at THEN i ELSE i + 1
  <2>1. inputs'[k] = inputs[i]
    <3>1. i \in 1..Len(inputs)
      BY <1>2
    <3>2. inputs \in Seq(InputRecord) /\ new \in InputRecord /\ at \in 1..(Len(inputs) + 1)
      BY <1>2, <1>3
    <3> HIDE DEF n, k
    <3>3. \A j \in 1..Len(inputs) :
             InsertAt(inputs, at, new)[IF j < at THEN j ELSE j + 1] = inputs[j]
      BY <3>2, Insertion
    <3>4. InsertAt(inputs, at, new)[IF i < at THEN i ELSE i + 1] = inputs[i]
      BY <3>1, <3>3
    <3> QED
      BY <1>1, <3>4 DEF k
  <2>2. k \in DOMAIN inputs'
    <3>1. i \in 1..n
      BY <1>2
    <3> HIDE DEF n
    <3> QED
      BY <1>2, <1>3, <1>5, <3>1
  <2> QED
    BY <2>1, <2>2 DEF AskedFor
<1> QED
  BY <1>4, <1>6

----------------------------------------------------------------------------
\* A step over which words stay, new authorizations rest on a word, and no task
\* is cancelled but under one.
LEMMA WordsKeep ==
    ASSUME WordInvariant, WordTyping', WordsStay,
           \A s \in UserSessions, t \in UserTasks :
               authorized'[s] = t => authorized[s] = t \/ AskedFor(t)',
           \A t \in UserTasks : taskStatus'[t] = "cancelled" =>
               taskStatus[t] = "cancelled" \/ AskedFor(t)
    PROVE  WordInvariant'
<1>1. AuthorizedWasAsked'
  BY DEF WordInvariant, AuthorizedWasAsked, WordsStay
<1>2. CancelledWasAsked'
  BY DEF WordInvariant, CancelledWasAsked, WordsStay, AskedFor
<1> QED
  BY <1>1, <1>2 DEF WordInvariant

LEMMA SameWordsStay == ASSUME inputs' = inputs PROVE WordsStay
BY DEF WordsStay, AskedFor

LEMMA ObservationsKeep ==
    ASSUME WordInvariant, NEW s \in UserSessions,
           (\E kind \in Kinds : Observe(s, kind)) \/ ReplaceSession(s)
    PROVE  WordInvariant'
<1>1. ASSUME NEW kind \in Kinds, Observe(s, kind) PROVE WordInvariant'
  <2>1. inputs' \in Seq(InputRecord) /\ WordsStay
    BY <1>1, ObserveKeeps
  <2>2. WordTyping'
    BY <1>1, <2>1 DEF Observe, WordInvariant, WordTyping
  <2> QED
    BY <1>1, <2>1, <2>2, WordsKeep DEF Observe
<1>2. CASE ReplaceSession(s)
  <2>1. inputs' \in Seq(InputRecord) /\ WordsStay
    BY <1>2, ReplacedKeeps
  <2>2. WordTyping'
    BY <1>2, <2>1 DEF ReplaceSession, WordInvariant, WordTyping
  <2>3. \A z \in UserSessions, t \in UserTasks : authorized'[z] = t => authorized[z] = t
    BY <1>2, UserAssumption DEF ReplaceSession, WordInvariant, WordTyping
  <2> QED
    BY <1>2, <2>1, <2>2, <2>3, WordsKeep DEF ReplaceSession
<1> QED
  BY <1>1, <1>2

LEMMA BindingsKeep ==
    ASSUME WordInvariant, NEW s \in UserSessions, NEW t \in UserTasks,
           BindSession(s, t) \/ ParkOrResume(s, t)
    PROVE  WordInvariant'
<1>1. UNCHANGED <<inputs, authorized, taskStatus>>
  BY DEF BindSession, ParkOrResume
<1>2. WordsStay /\ WordTyping'
  BY <1>1, SameWordsStay DEF WordInvariant, WordTyping
<1> QED
  BY <1>1, <1>2, WordsKeep

LEMMA CompleteKeeps ==
    ASSUME WordInvariant, NEW t \in UserTasks, Complete(t)
    PROVE  WordInvariant'
<1>1. UNCHANGED <<inputs, authorized>> /\ taskStatus' = [taskStatus EXCEPT ![t] = "completed"]
  BY DEF Complete
<1>2. WordsStay /\ WordTyping'
  BY <1>1, SameWordsStay DEF WordInvariant, WordTyping
<1>3. \A z \in UserTasks : taskStatus'[z] = "cancelled" => taskStatus[z] = "cancelled"
  BY <1>1 DEF WordInvariant, WordTyping
<1> QED
  BY <1>1, <1>2, <1>3, WordsKeep

LEMMA FocusKeeps ==
    ASSUME WordInvariant, NEW s \in UserSessions,
           BindToFocus(s) \/ Inherit(s) \/ ReadStaged(s) \/ CancelFails(s)
    PROVE  WordInvariant'
<1> USE DEF WordInvariant, WordTyping
<1>1. WordsStay
  BY SameWordsStay DEF BindToFocus, Inherit, ReadStaged, CancelFails
<1>2. WordTyping'
  BY DEF BindToFocus, Inherit, ReadStaged, CancelFails
<1>3. /\ \A z \in UserSessions, t \in UserTasks : authorized'[z] = t => authorized[z] = t
      /\ taskStatus' = taskStatus
  BY UserAssumption DEF BindToFocus, Inherit, ReadStaged, CancelFails
<1> QED
  BY <1>1, <1>2, <1>3, WordsKeep

LEMMA CommitKeeps ==
    ASSUME WordInvariant, NEW s \in UserSessions, NEW t \in UserTasks, Commit(s, t)
    PROVE  WordInvariant'
<1>1. inputs' \in Seq(InputRecord) /\ WordsStay
  BY CommittedKeeps DEF Commit
<1>2. WordTyping'
  BY <1>1 DEF Commit, WordInvariant, WordTyping
<1> QED
  BY <1>1, <1>2, WordsKeep DEF Commit

\* An authorization reads the word, or commits it to the task.
LEMMA AuthorizationsKeep ==
    ASSUME WordInvariant, NEW s \in UserSessions, NEW t \in UserTasks,
           AuthorizeCommitted(s, t) \/ AuthorizeStaged(s, t)
    PROVE  WordInvariant'
<1>1. /\ \A z \in UserSessions : authorized'[z] = IF z = s THEN t ELSE authorized[z]
      /\ authorized' \in [UserSessions -> UserTasks \cup {None}]
      /\ taskStatus' = taskStatus
  BY DEF AuthorizeCommitted, AuthorizeStaged, WordInvariant, WordTyping
<1>2. inputs' \in Seq(InputRecord) /\ WordsStay /\ AskedFor(t)'
  <2>1. CASE AuthorizeCommitted(s, t)
    <3>1. inputs' = inputs
      BY <2>1 DEF AuthorizeCommitted
    <3>2. PICK i \in DOMAIN inputs : inputs[i].kind = "cancel" /\ inputs[i].task = t
      BY <2>1 DEF AuthorizeCommitted, LatestCancels, Instructions, InputsOf
    <3>3. AskedFor(t)'
      BY <3>1, <3>2 DEF AskedFor
    <3> QED
      BY <3>1, <3>3, SameWordsStay DEF WordInvariant, WordTyping
  <2>2. CASE AuthorizeStaged(s, t)
    <3>1. inputs' = Committed(s, t)
      BY <2>2 DEF AuthorizeStaged
    <3>2. PICK i \in Pending(s) : inputs[i].kind = "cancel"
      BY <2>2 DEF AuthorizeStaged
    <3>3. inputs'[i].kind = "cancel" /\ inputs'[i].task = t
      BY <3>1, <3>2, CommittedKeeps
    <3>4. i \in DOMAIN inputs'
      BY <3>1 DEF Committed, Pending, InputsOf
    <3> QED
      BY <3>1, <3>3, <3>4, CommittedKeeps DEF AskedFor
  <2> QED
    BY <2>1, <2>2
<1>3. WordTyping'
  BY <1>1, <1>2 DEF WordInvariant, WordTyping
<1> QED
  BY <1>1, <1>2, <1>3, WordsKeep

LEMMA CancelKeeps ==
    ASSUME WordInvariant, NEW s \in UserSessions, NEW t \in UserTasks, Cancel(s, t)
    PROVE  WordInvariant'
<1>1. AskedFor(t)
  BY DEF Cancel, MayCancel, WordInvariant, AuthorizedWasAsked
<1>2. WordsStay
  BY SameWordsStay DEF Cancel
<1>3. /\ authorized' \in [UserSessions -> UserTasks \cup {None}]
      /\ taskStatus' \in [UserTasks -> {"open", "completed", "cancelled"}]
  BY DEF Cancel, WordInvariant, WordTyping
<1>4. WordTyping'
  BY <1>3 DEF Cancel, WordInvariant, WordTyping
<1>5. \A z \in UserSessions, u \in UserTasks : authorized'[z] = u => authorized[z] = u
  BY UserAssumption DEF Cancel, WordInvariant, WordTyping
<1>6. \A u \in UserTasks : taskStatus'[u] = "cancelled" => taskStatus[u] = "cancelled" \/ u = t
  BY DEF Cancel
<1> QED
  BY <1>1, <1>2, <1>4, <1>5, <1>6, WordsKeep

LEMMA WordNext ==
    ASSUME WordInvariant, [UserNext]_userVars
    PROVE  WordInvariant'
<1>1. CASE UNCHANGED userVars
  BY <1>1 DEF userVars, WordInvariant, WordTyping, AuthorizedWasAsked, CancelledWasAsked, AskedFor
<1>2. CASE UserNext
  BY <1>2, ObservationsKeep, BindingsKeep, CompleteKeeps, FocusKeeps, CommitKeeps,
     AuthorizationsKeep, CancelKeeps
  DEF UserNext
<1> QED
  BY <1>1, <1>2

\* However sessions are rebound and prompts and commits race, a task is cancelled
\* (task_lifecycle.py) only on a cancel instruction committed to that very task.
THEOREM CancellationsWereAsked == UserSpec => []CancelledWasAsked
<1>1. WordInvariant => CancelledWasAsked
  BY DEF WordInvariant
<1> QED
  BY <1>1, WordInit, WordNext, PTL DEF UserSpec

----------------------------------------------------------------------------
(* What was said of a task stays with it. *)

LEMMA SaidIsFinite ==
    ASSUME NEW seq \in Seq(InputRecord), NEW t
    PROVE  IsFiniteSet(Said(seq, t)) /\ Cardinality(Said(seq, t)) \in Nat
<1>1. DOMAIN seq = 1..Len(seq) /\ Len(seq) \in Nat
  BY LenProperties
<1>2. IsFiniteSet(1..Len(seq))
  BY <1>1, FS_Interval
<1>3. Said(seq, t) \in SUBSET (1..Len(seq))
  BY <1>1 DEF Said
<1>4. IsFiniteSet(Said(seq, t))
  BY <1>2, <1>3, FS_Subset
<1> QED
  BY <1>4, FS_CardinalityType

\* An input that speaks for no task yet moves the others, and adds nothing to what was said.
LEMMA InsertionSaysNothing ==
    ASSUME NEW seq \in Seq(InputRecord), NEW e \in InputRecord, e.task = None,
           NEW at \in 1..(Len(seq) + 1), NEW t \in UserTasks
    PROVE  Cardinality(Said(InsertAt(seq, at, e), t)) = Cardinality(Said(seq, t))
<1> DEFINE old == Said(seq, t)
           wider == InsertAt(seq, at, e)
           new == Said(wider, t)
           place(i) == IF i < at THEN i ELSE i + 1
           f == [i \in old |-> place(i)]
<1>1. Len(seq) \in Nat /\ DOMAIN seq = 1..Len(seq)
  BY LenProperties
<1>2. /\ wider \in Seq(InputRecord) /\ Len(wider) = Len(seq) + 1
      /\ \A j \in 1..Len(seq) : wider[place(j)] = seq[j]
  BY Insertion
<1>3. wider[at] = e
  <2> DEFINE front == SubSeq(seq, 1, at - 1)
             back == SubSeq(seq, at, Len(seq))
  <2>1. front \in Seq(InputRecord) /\ Len(front) = at - 1 /\ back \in Seq(InputRecord)
    BY <1>1, SubSeqProperties
  <2>2. wider = (front \o <<e>>) \o back
    BY DEF InsertAt
  <2> HIDE DEF front, back
  <2>3. Len(front \o <<e>>) = at /\ (front \o <<e>>)[at] = e /\ front \o <<e>> \in Seq(InputRecord)
    <3>1. <<e>> \in Seq(InputRecord) /\ Len(<<e>>) = 1 /\ <<e>>[1] = e
      OBVIOUS
    <3>2. at \in Nat \ {0} /\ at \in 1..(Len(front) + Len(<<e>>)) /\ at - Len(front) = 1
      BY <1>1, <2>1, <3>1
    <3> HIDE DEF InputRecord
    <3>3. front \o <<e>> \in Seq(InputRecord) /\ Len(front \o <<e>>) = Len(front) + Len(<<e>>)
      BY <2>1, <3>1, ConcatProperties
    <3>4. (front \o <<e>>)[at] = <<e>>[at - Len(front)]
      BY <2>1, <3>1, <3>2, ConcatProperties
    <3> QED
      BY <2>1, <3>1, <3>2, <3>3, <3>4
  <2>4. at \in 1..Len(front \o <<e>>)
    BY <2>3
  <2> DEFINE fe == front \o <<e>>
  <2> HIDE DEF fe, wider
  <2>5. (fe \o back)[at] = fe[at]
    <3>1. fe \in Seq(InputRecord) /\ at \in 1..Len(fe)
      BY <2>3, <2>4 DEF fe
    <3> QED
      BY <2>1, <3>1
  <2> QED
    BY <2>2, <2>3, <2>5 DEF fe
<1> HIDE DEF wider
<1>4. DOMAIN wider = 1..(Len(seq) + 1)
  BY <1>2, LenProperties
<1>5. ASSUME NEW i \in old PROVE place(i) \in new
  <2>1. i \in 1..Len(seq) /\ seq[i].task = t
    BY <1>1 DEF Said
  <2>2. place(i) \in 1..(Len(seq) + 1) /\ wider[place(i)] = seq[i]
    BY <1>1, <1>2, <2>1
  <2> QED
    BY <1>4, <2>1, <2>2 DEF Said
<1>6. \A i, j \in old : place(i) = place(j) => i = j
  BY <1>1 DEF Said
<1>7. ASSUME NEW k \in new PROVE \E i \in old : place(i) = k
  <2>1. k \in 1..(Len(seq) + 1) /\ wider[k].task = t
    BY <1>4 DEF Said
  <2>2. k # at
    BY <1>3, <2>1, UserAssumption
  <2> DEFINE i == IF k < at THEN k ELSE k - 1
  <2>3. i \in 1..Len(seq) /\ place(i) = k
    BY <1>1, <2>1, <2>2
  <2>4. seq[i].task = t
    BY <1>2, <2>1, <2>3
  <2>5. i \in old
    BY <1>1, <2>3, <2>4 DEF Said
  <2> HIDE DEF i
  <2> QED
    BY <2>3, <2>5
<1> HIDE DEF old, new, place
<1>8. f \in Bijection(old, new)
  BY <1>5, <1>6, <1>7 DEF Bijection, Injection, Surjection, IsInjective
<1>9. IsFiniteSet(old)
  BY SaidIsFinite DEF old
<1>10. Cardinality(new) = Cardinality(old)
  BY <1>8, <1>9, FS_Bijection DEF ExistsBijection
<1> QED
  BY <1>10 DEF old, new, wider

\* A commit adds to what was said of an open task, and leaves what was said of others.
LEMMA CommitAdds ==
    ASSUME WordInvariant, NEW s \in UserSessions, NEW u \in UserTasks, NEW t \in UserTasks,
           inputs' = Committed(s, u)
    PROVE  /\ Cardinality(Said(inputs', t)) >= Cardinality(Said(inputs, t))
           /\ t # u => Said(inputs', t) = Said(inputs, t)
<1>1. \A i \in DOMAIN inputs : inputs[i] \in InputRecord
  BY InputsAreTyped
<1>2. DOMAIN inputs' = DOMAIN inputs
  BY DEF Committed
<1>3. \A i \in DOMAIN inputs :
         inputs'[i].task = IF i \in Pending(s) THEN u ELSE inputs[i].task
  BY <1>1 DEF Committed, InputRecord
<1>4. \A i \in Pending(s) : inputs[i].task = None
  BY DEF Pending
<1>5. Said(inputs, t) \in SUBSET Said(inputs', t) /\ (t # u => Said(inputs', t) = Said(inputs, t))
  BY <1>2, <1>3, <1>4, UserAssumption DEF Said
<1>6. inputs' \in Seq(InputRecord) /\ inputs \in Seq(InputRecord)
  BY CommittedKeeps, InputsAreTyped
<1>7. /\ Cardinality(Said(inputs, t)) <= Cardinality(Said(inputs', t))
      /\ Cardinality(Said(inputs, t)) \in Nat /\ Cardinality(Said(inputs', t)) \in Nat
  BY <1>5, <1>6, SaidIsFinite, FS_Subset
<1> QED
  BY <1>5, <1>7

\* What the user said of a task (user_intent_mcp.py) is not moved to another, taken back, or
\* added to after the task's end, however sessions are replaced and late inputs arrive.
THEOREM WordsStayWithTheirTask == UserSpec => InputsStayWithTheirTask
<1> DEFINE Stays(t) == IF taskStatus[t] = "open"
                       THEN Cardinality(Said(inputs', t)) >= Cardinality(Said(inputs, t))
                       ELSE Cardinality(Said(inputs', t)) = Cardinality(Said(inputs, t))
<1>1. ASSUME WordInvariant, UserNext, NEW t \in UserTasks PROVE Stays(t)
  <2>1. Cardinality(Said(inputs, t)) \in Nat
    BY <1>1, InputsAreTyped, SaidIsFinite
  <2>2. ASSUME Said(inputs', t) = Said(inputs, t) PROVE Stays(t)
    BY <2>1, <2>2
  <2>3. ASSUME NEW s \in UserSessions, NEW kind \in Kinds, Observe(s, kind) PROVE Stays(t)
    <3>1. PICK e : e = [session |-> s, kind |-> kind, task |-> None]
      OBVIOUS
    <3>2. PICK at \in {Len(inputs) + 1, Len(inputs)} \ {0} : inputs' = InsertAt(inputs, at, e)
      BY <2>3, <3>1 DEF Observe
    <3>3. at \in 1..(Len(inputs) + 1) /\ e \in InputRecord /\ e.task = None
      <4>1. Len(inputs) \in Nat
        BY <1>1, InputsAreTyped
      <4>2. at \in 1..(Len(inputs) + 1)
        BY <3>2, <4>1
      <4>3. e \in InputRecord /\ e.task = None
        BY <3>1 DEF InputRecord
      <4> QED
        BY <4>2, <4>3
    <3>4. Cardinality(Said(inputs', t)) = Cardinality(Said(inputs, t))
      BY <1>1, <3>2, <3>3, InputsAreTyped, InsertionSaysNothing
    <3> QED
      BY <2>1, <3>4
  <2>4. ASSUME NEW s \in UserSessions, ReplaceSession(s) PROVE Stays(t)
    <3>1. \A i \in DOMAIN inputs : inputs[i] \in InputRecord
      BY <1>1, InputsAreTyped
    <3>2. DOMAIN inputs' = DOMAIN inputs /\ \A i \in DOMAIN inputs : inputs'[i].task = inputs[i].task
      BY <2>4, <3>1 DEF ReplaceSession, InputRecord
    <3>3. Said(inputs', t) = Said(inputs, t)
      BY <3>2 DEF Said
    <3> QED
      BY <2>2, <3>3
  <2>5. ASSUME NEW s \in UserSessions, NEW u \in UserTasks, Commit(s, u) \/ AuthorizeStaged(s, u)
        PROVE  Stays(t)
    <3>1. inputs' = Committed(s, u) /\ taskStatus[u] = "open"
      BY <2>5 DEF Commit, AuthorizeStaged, CommitAllowed
    <3> QED
      BY <1>1, <2>2, <3>1, CommitAdds
  <2>6. ASSUME inputs' = inputs PROVE Stays(t)
    BY <2>2, <2>6
  <2> HIDE DEF Stays
  <2>7. ASSUME NEW s \in UserSessions, NEW u \in UserTasks,
               \/ BindSession(s, u) \/ ParkOrResume(s, u) \/ AuthorizeCommitted(s, u) \/ Cancel(s, u)
               \/ Complete(u) \/ BindToFocus(s) \/ Inherit(s) \/ ReadStaged(s) \/ CancelFails(s)
        PROVE  inputs' = inputs
    BY <2>7 DEF BindSession, ParkOrResume, AuthorizeCommitted, Cancel, Complete, BindToFocus,
                Inherit, ReadStaged, CancelFails
  <2>8. (\E u \in UserTasks : Complete(u)) => inputs' = inputs
    BY DEF Complete
  <2>9. (\E s \in UserSessions : BindToFocus(s) \/ Inherit(s) \/ ReadStaged(s) \/ CancelFails(s))
          => inputs' = inputs
    BY DEF BindToFocus, Inherit, ReadStaged, CancelFails
  <2> QED
    BY <1>1, <2>3, <2>4, <2>5, <2>6, <2>7, <2>8, <2>9 DEF UserNext
<1>2. WordInvariant /\ [UserNext]_userVars => [\A t \in UserTasks : Stays(t)]_userVars
  <2> HIDE DEF Stays
  <2> QED
    BY <1>1
<1> QED
  BY <1>2, WordInit, WordNext, PTL DEF UserSpec, InputsStayWithTheirTask

----------------------------------------------------------------------------
(* Types of inputs and bindings. *)

LEMMA InputsStayTyped ==
    ASSUME WordInvariant, UserNext
    PROVE  inputs' \in Seq(InputRecord)
<1>1. WordInvariant'
  BY WordNext
<1> QED
  BY <1>1 DEF WordInvariant, WordTyping

\* Of finitely many places some is the last.
LEMMA LastOfSome ==
    ASSUME NEW n \in Nat, NEW S \in SUBSET (1..n), S # {}
    PROVE  \E i \in S : \A j \in S : j <= i
<1> DEFINE above(i) == (i + 1)..n
           left == {above(i) : i \in S}
<1>1. left \subseteq FiniteSubsetsOf(Nat) /\ left # {}
  <2>1. ASSUME NEW i \in S PROVE above(i) \in FiniteSubsetsOf(Nat)
    <3>1. i + 1 \in Int /\ n \in Int /\ above(i) \subseteq Nat
      OBVIOUS
    <3> QED
      BY <3>1, FS_Interval DEF FiniteSubsetsOf
  <2> QED
    BY <2>1
<1>2. PICK m \in left : \A k \in left : <<k, m>> \notin StrictSubsetOrdering(Nat)
  <2> HIDE DEF left
  <2> QED
    BY <1>1, FS_StrictSubsetOrderingWellFounded, WFMin
<1>3. PICK i \in S : m = above(i)
  OBVIOUS
<1>4. ASSUME NEW j \in S, i < j PROVE FALSE
  <2>1. above(j) \subseteq above(i) /\ above(i) \subseteq Nat
    BY <1>4
  <2>2. j \in above(i) /\ j \notin above(j)
    BY <1>4
  <2>3. <<above(j), above(i)>> \in StrictSubsetOrdering(Nat)
    BY <2>1, <2>2 DEF StrictSubsetOrdering
  <2> QED
    BY <1>2, <1>3, <2>3
<1>5. \A j \in S : j <= i
  <2>1. \A j \in S : j \in Int /\ i \in Int /\ (i < j \/ j <= i)
    OBVIOUS
  <2> QED
    BY <2>1, <1>4
<1> QED
  BY <1>5

\* What the tables of inputs, bindings and cancellations (session_prompts.py,
\* session_lifecycle.py, task_lifecycle.py) hold is typed; it needs that the inputs stay
\* records through every insertion and commit.
THEOREM UserTypeCorrect == UserSpec => []UserTypeOK
<1> DEFINE Inv == WordInvariant /\ UserTypeOK
<1>1. UserInit => Inv
  <2>1. UserInit => UserTypeOK
    BY DEF UserInit, UserTypeOK
  <2> QED
    BY <2>1, WordInit
<1>2. Inv /\ [UserNext]_userVars => Inv'
  <2> SUFFICES ASSUME WordInvariant, UserTypeOK, [UserNext]_userVars PROVE UserTypeOK'
    BY WordNext
  <2>1. CASE UNCHANGED userVars
    BY <2>1 DEF userVars, UserTypeOK
  <2>2. CASE UserNext
    <3> USE DEF UserTypeOK
    <3>1. inputs' \in Seq([session : UserSessions \cup {None}, kind : Kinds,
                           task : UserTasks \cup {None}])
      BY <2>2, InputsStayTyped DEF InputRecord
    <3>2. ASSUME NEW s \in UserSessions, NEW kind \in Kinds, Observe(s, kind) PROVE UserTypeOK'
      BY <3>1, <3>2 DEF Observe
    <3>3. ASSUME NEW s \in UserSessions,
                 BindToFocus(s) \/ ReplaceSession(s) \/ Inherit(s) \/ ReadStaged(s) \/ CancelFails(s)
          PROVE  UserTypeOK'
      <4>1. CASE BindToFocus(s)
        <5>1. focus \in UserTasks
          BY <4>1 DEF BindToFocus
        <5> QED
          BY <3>1, <4>1, <5>1 DEF BindToFocus
      <4>2. CASE Inherit(s)
        <5>1. replaced[s] \in UserTasks
          BY <4>2 DEF Inherit
        <5> QED
          BY <3>1, <4>2, <5>1 DEF Inherit
      <4>3. CASE ReplaceSession(s)
        <5>1. bindings[s] \in UserTasks \cup {None}
          OBVIOUS
        <5>2. /\ bindings' = [bindings EXCEPT ![s] = None]
              /\ replaced' = [replaced EXCEPT ![s] = bindings[s]]
              /\ reading' = reading \ {s}
              /\ authorized' = [authorized EXCEPT ![s] = None]
              /\ UNCHANGED <<focus, taskStatus, instruction>>
          BY <4>3 DEF ReplaceSession
        <5> QED
          BY <3>1, <5>1, <5>2
      <4>4. CASE ReadStaged(s) \/ CancelFails(s)
        BY <3>1, <4>4 DEF ReadStaged, CancelFails
      <4> QED
        BY <3>3, <4>1, <4>2, <4>3, <4>4
    <3>4. ASSUME NEW s \in UserSessions, NEW t \in UserTasks, Commit(s, t) \/ AuthorizeStaged(s, t)
          PROVE  UserTypeOK'
      <4>1. instruction' \in [UserTasks -> Kinds \cup {"none"}]
        <5>1. CASE Instructions(Pending(s)) = {}
          BY <3>4, <5>1 DEF Commit, AuthorizeStaged, Instructed
        <5>2. CASE Instructions(Pending(s)) # {}
          <6> DEFINE S == Instructions(Pending(s))
          <6>1. S \in SUBSET (1..Len(inputs)) /\ Len(inputs) \in Nat
            BY InputsAreTyped DEF Instructions, Pending, InputsOf
          <6>2. \E i \in S : IsLatest(i, S)
            <7>1. S # {}
              BY <5>2
            <7> HIDE DEF S
            <7>2. \E i \in S : \A j \in S : j <= i
              BY <6>1, <7>1, LastOfSome
            <7> QED
              BY <7>2 DEF IsLatest
          <6>3. Latest(S) \in S
            BY <6>2 DEF Latest
          <6>4. Latest(S) \in DOMAIN inputs
            BY <6>3 DEF Instructions, Pending, InputsOf
          <6>5. inputs[Latest(S)].kind \in Kinds
            BY <6>4, InputsAreTyped DEF InputRecord
          <6>6. instruction' = [instruction EXCEPT ![t] = inputs[Latest(S)].kind]
            BY <3>4, <5>2 DEF Commit, AuthorizeStaged, Instructed
          <6> QED
            BY <6>5, <6>6
        <5> QED
          BY <5>1, <5>2
      <4> QED
        BY <3>1, <3>4, <4>1 DEF Commit, AuthorizeStaged
    <3>5. ASSUME NEW s \in UserSessions, NEW t \in UserTasks,
                 BindSession(s, t) \/ ParkOrResume(s, t) \/ AuthorizeCommitted(s, t)
          PROVE  UserTypeOK'
      BY <3>1, <3>5 DEF BindSession, ParkOrResume, AuthorizeCommitted
    <3>6. ASSUME NEW s \in UserSessions, NEW t \in UserTasks, Cancel(s, t) PROVE UserTypeOK'
      BY <3>1, <3>6 DEF Cancel, Unbound
    <3>7. ASSUME NEW t \in UserTasks, Complete(t) PROVE UserTypeOK'
      BY <3>1, <3>7 DEF Complete, Unbound
    <3> QED
      BY <2>2, <3>2, <3>3, <3>4, <3>5, <3>6, <3>7 DEF UserNext
  <2> QED
    BY <2>1, <2>2
<1> QED
  BY <1>1, <1>2, PTL DEF UserSpec
=============================================================================
