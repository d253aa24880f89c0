-------------------------- MODULE ExperienceLessons --------------------------
(***************************************************************************)
(* How finished work becomes a lesson: the immutable episodes captured     *)
(* from terminal work units and tasks (experience.py), the consolidation   *)
(* of a candidate lesson against them (experience_consolidation.py), and   *)
(* what the lifecycle of knowledge and the revocation of a source do to    *)
(* the lessons afterwards (KnowledgeLifecycle, whose actions are the       *)
(* lesson's too: a lesson is a knowledge item).                            *)
(*                                                                         *)
(* A lesson's key is the digest of the candidate that created it, so a     *)
(* candidate stands here for both: Knowledge is the set of candidates.     *)
(* Callers may attach evidence to a lesson, as they must before it is      *)
(* validated, and relate it to other memory; both carry it on when the     *)
(* sources of its episodes are revoked.                                    *)
(* Consolidation and revocation take the lock of the project.              *)
(*                                                                         *)
(* Left out: the text of candidates (normalisation, sanitizing, quotes,    *)
(* pointers, digests); candidates quarantined for themselves (recurrence,  *)
(* instruction-shaped text), which leave an audit row and nothing else;    *)
(* related_to links between conflicting lessons; and memory that is no     *)
(* lesson (propose), which KnowledgeLifecycle has.                         *)
(***************************************************************************)
EXTENDS KnowledgeLifecycle, Sequences

CONSTANTS
    TaskEpisodes,   \* the episodes of a whole task, the others are of a work unit
    Statement,      \* what a candidate says
    Polarity,       \* "positive" or "negative"
    Trigger,        \* "validated_novel" or "failure_gotcha"
    Cited,          \* the episodes a candidate cites
    Related,        \* the derived_from edges callers relate by hand
    MaxOpenProposed \* MAX_OPEN_PROPOSED

\* Lessons are a project's, are of a type that needs evidence, and are derived from the
\* episodes they cite.
ASSUME LessonAssumption ==
    /\ Company \cap Knowledge = {}
    /\ Type = [l \in Knowledge |-> "fact"]
    /\ Knowledge \X Episodes \subseteq Derivable
    /\ Related \subseteq Derivable
    /\ TaskEpisodes \subseteq Episodes
    /\ DOMAIN Statement = Knowledge
    /\ Polarity \in [Knowledge -> {"positive", "negative"}]
    /\ Trigger \in [Knowledge -> {"validated_novel", "failure_gotcha"}]
    /\ Cited \in [Knowledge -> (SUBSET Episodes) \ {{}}]

VARIABLES
    episode,    \* the outcome the captured episode records, "none" before
    verdict,    \* experience_transitions: the verdict on a candidate
    lessonOf,   \* the lesson an accepted or deduplicated candidate went to
    kept,       \* the episodes that supported it when it did
    lessons     \* the accepted lessons, oldest first

lessonVars == <<knowledgeVars, episode, verdict, lessonOf, kept, lessons>>

Failure == {"failed", "cancelled"}
Success == {"passed", "completed", "validated"}
Outcomes(e) == IF e \in TaskEpisodes THEN {"completed", "validated", "cancelled"}
                                     ELSE {"passed", "failed"}

LessonTypeOK ==
    /\ KnowledgeTypeOK
    /\ \A e \in Episodes : episode[e] \in Outcomes(e) \cup {"none"}
    /\ verdict \in [Knowledge -> {"none", "accepted", "deduplicated", "quarantined"}]
    /\ lessonOf \in [Knowledge -> Knowledge]
    /\ \A c \in Knowledge : kept[c] \subseteq Cited[c]
    /\ {lessons[i] : i \in DOMAIN lessons} = {c \in Knowledge : kstatus[c] # "none"}

LessonInit ==
    /\ KnowledgeInit
    /\ episode = [e \in Episodes |-> "none"]
    /\ verdict = [c \in Knowledge |-> "none"]
    /\ lessonOf = [c \in Knowledge |-> c]
    /\ kept = [c \in Knowledge |-> {}]
    /\ lessons = <<>>

----------------------------------------------------------------------------
(* Episodes of finished work *)

\* The episode records the terminal state its work is in ("validated" is a completed task
\* whose latest review passed).  It is written once: a failed unit that is started again
\* and passes is refused another.  Edges to a source need the source active.
Capture(e) ==
    /\ episode[e] = "none"
    /\ \E o \in Outcomes(e) : episode' = [episode EXCEPT ![e] = o]
    /\ LET edges == {d \in Derivable : d[1] = e} IN
       /\ \A d \in edges : d[2] \in Sources => d[2] \in activeSources
       /\ derived' = derived \cup edges
    /\ UNCHANGED <<kstatus, before, invalidEpisodes, activeSources, evidence,
                   verdict, lessonOf, kept, lessons>>

----------------------------------------------------------------------------
(* Consolidation *)

\* Mutant of Eligible: episodes that were revoked still count.
EligibleRevoked(c) == Cited[c]

\* what is left of the cited evidence once revoked episodes are dropped
Eligible(c) == Cited[c] \ invalidEpisodes

\* verify_transition: no failed work supports a positive lesson, and the trigger is met
Verified(c, es) ==
    LET told == {episode[e] : e \in es} IN
    /\ Polarity[c] = "positive" => told \subseteq Success
    /\ IF Trigger[c] = "failure_gotcha"
       THEN Polarity[c] = "negative" /\ told \cap Failure # {}
       ELSE told = {"validated"}

\* the lessons a new candidate is compared with
Comparable(l) == kstatus[l] \notin {"rejected", "superseded"} \cup NonUse

\* the positions of the lessons in use that say the same as c
Saying(c) == {i \in DOMAIN lessons :
                 Comparable(lessons[i]) /\ Statement[lessons[i]] = Statement[c]}

Oldest(is) == lessons[CHOOSE i \in is : \A j \in is : i <= j]

OpenProposed == Cardinality({i \in DOMAIN lessons : kstatus[lessons[i]] = "proposed"})

Duplicates(l, c) == Polarity[l] = Polarity[c]

\* Mutant of Judge: the reason code is stored where the verdict belongs.
JudgeByReason(c) == IF Saying(c) # {} THEN "duplicate_statement" ELSE "accepted"

Judge(c) ==
    IF Saying(c) # {}
    THEN IF Duplicates(Oldest(Saying(c)), c) THEN "deduplicated" ELSE "quarantined"
    ELSE IF OpenProposed >= MaxOpenProposed THEN "quarantined" ELSE "accepted"

Consolidate(c) ==
    /\ verdict[c] = "none"
    /\ \A e \in Cited[c] : episode[e] # "none"
    /\ Eligible(c) # {}
    /\ Verified(c, Eligible(c))
    /\ verdict' = [verdict EXCEPT ![c] = Judge(c)]
    /\ LET to == IF Judge(c) = "deduplicated" THEN Oldest(Saying(c)) ELSE c IN
       IF Judge(c) = "quarantined"
       THEN UNCHANGED <<lessonOf, kept, derived>>
       ELSE /\ lessonOf' = [lessonOf EXCEPT ![c] = to]
            /\ kept' = [kept EXCEPT ![c] = Eligible(c)]
            /\ derived' = derived \cup {<<to, e>> : e \in Eligible(c)}
    /\ IF Judge(c) = "accepted"
       THEN kstatus' = [kstatus EXCEPT ![c] = "proposed"] /\ lessons' = Append(lessons, c)
       ELSE UNCHANGED <<kstatus, lessons>>
    /\ UNCHANGED <<before, invalidEpisodes, activeSources, evidence, episode>>

\* what the calls on knowledge and the revocation of a source do to lessons; an episode is
\* related once it has been captured
LessonLifecycle ==
    /\ \/ \E l \in Knowledge, st \in Asked : Update(l, st)
       \/ \E l \in Knowledge, s \in Sources \cup {NoSource} : AttachEvidence(l, s)
       \/ \E e \in Related : /\ \A x \in {e[1], e[2]} \cap Episodes : episode[x] # "none"
                             /\ Relate(e[1], e[2])
       \/ \E l \in Knowledge : Retire(l) \/ Reinstate(l) \/ Challenge(l)
       \/ \E old, new \in Knowledge : Supersede(old, new)
       \/ \E s \in Sources : RevokeSource(s)
    /\ UNCHANGED <<episode, verdict, lessonOf, kept, lessons>>

LessonNext ==
    \/ \E e \in Episodes : Capture(e)
    \/ \E c \in Knowledge : Consolidate(c)
    \/ LessonLifecycle

LessonSpec == LessonInit /\ [][LessonNext]_lessonVars

----------------------------------------------------------------------------
(* Properties *)

\* the lessons a reader may still be given
InUse == {l \in Knowledge : kstatus[l] # "none" /\ Comparable(l)}

\* everything the consolidation has ever rested the lesson on
RestsOn(l) == UNION {kept[c] : c \in {d \in Knowledge :
                        verdict[d] \in {"accepted", "deduplicated"} /\ lessonOf[d] = l}}

\* The lessons that still have ground under them: a chain of memory that was never revoked
\* leads them to an active source or to finished work that was not revoked.  Lessons that
\* hold nothing but each other have none.
OnGround ==
    LET ground == activeSources \cup (Episodes \ invalidEpisodes)
        edges == {e \in Support : e[1] \in Knowledge}
        standing == Knowledge \ RevokedNodes
        Closed == {C \in SUBSET Knowledge :
                      \A e \in edges : e[2] \in ground \cup (C \cap standing) => e[1] \in C}
    IN  {l \in Knowledge : \A C \in Closed : l \in C}

\* A lesson in use is earned: it still has ground under it, its own episodes or what was
\* attached or related since, and no work that failed has ever been counted as support of
\* a positive lesson, whatever was deduplicated into it, retired, reinstated or revoked.
LessonsAreEarned ==
    /\ InUse \subseteq OnGround
    /\ \A l \in InUse : Polarity[l] = "positive" => \A e \in RestsOn(l) : episode[e] \in Success
=============================================================================
