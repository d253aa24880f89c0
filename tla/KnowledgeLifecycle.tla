------------------------- MODULE KnowledgeLifecycle -------------------------
(***************************************************************************)
(* The organizational memory of one project: knowledge items and their     *)
(* lifecycle, the provenance that grounds them in sources, and the cascade *)
(* of a source's revocation (knowledge.py, experience_lifecycle.py,        *)
(* sources.py, relations.py, source_revocation.py).  Every call is one     *)
(* transaction; the writers of a status lock the rows they change.         *)
(***************************************************************************)
EXTENDS Integers, FiniteSets

CONSTANTS
    Knowledge, Episodes, Artifacts, Sources,  \* the nodes of provenance
    Company,      \* the knowledge and sources without a project
    Type,         \* "fact" stands for the types that need evidence, "rule"
                  \* for those that need an approval to be canonical
    SourceOf,     \* the source an artifact was taken from
    Derivable,    \* the derived_from edges callers may relate
    Citable,      \* the evidence callers may attach
    Asked,        \* the statuses callers propose or update to
    NoSource,     \* evidence by locator, method or metrics alone
    MaxDepth      \* MAX_DEPTH of the cascade

VARIABLES
    kstatus,          \* knowledge_items.status, "none" without a row
    before,           \* prior_state of the last retire event of each item
    invalidEpisodes,  \* episodes the lifecycle ledger says are revoked
    activeSources,    \* sources.status = 'active'
    derived,          \* relations of type derived_from
    evidence          \* knowledge_evidence: items and the source they cite

knowledgeVars == <<kstatus, before, invalidEpisodes, activeSources, derived, evidence>>

Nodes == Knowledge \cup Episodes \cup Artifacts \cup Sources

\* The lifecycle as knowledge.py and migration 039 draw it.
Proposable == {"proposed", "observed", "validated", "canonical", "challenged", "rejected"}
Statuses == Proposable \cup {"superseded", "retired", "revoked"}
NonUse == {"retired", "revoked"}

Transitions ==
    [proposed   |-> {"observed", "validated", "canonical", "rejected", "challenged"},
     observed   |-> {"validated", "challenged", "rejected"},
     validated  |-> {"canonical", "challenged", "rejected"},
     canonical  |-> {"challenged"},
     challenged |-> {"validated", "canonical", "rejected"},
     rejected   |-> {},
     superseded |-> {}]

Rank(st) == CASE st \in {"observed", "challenged"} -> 1
              [] st = "validated" -> 2
              [] st = "canonical" -> 3
              [] OTHER -> 0

ChallengePriors == {st \in DOMAIN Transitions : "challenged" \in Transitions[st]}
LivePriors == ChallengePriors \cup {"challenged"}

ASSUME KnowledgeAssumption ==
    /\ MaxDepth \in Nat \ {0}
    /\ Knowledge \cap Episodes = {} /\ Artifacts \cap (Knowledge \cup Episodes) = {}
    /\ Sources \cap (Knowledge \cup Episodes \cup Artifacts) = {}
    /\ Company \subseteq Knowledge \cup Sources
    /\ Type \in [Knowledge -> {"fact", "rule"}]
    /\ SourceOf \in [Artifacts -> Sources]
    /\ Derivable \subseteq (Knowledge \X (Knowledge \cup Episodes \cup Sources))
                           \cup (Episodes \X (Artifacts \cup Sources))
    /\ Asked \subseteq Proposable
    /\ Citable \subseteq Knowledge \X (Sources \cup {NoSource})

HasEvidence(k) == \E e \in evidence : e[1] = k

KnowledgeInit ==
    /\ kstatus = [k \in Knowledge |-> "none"]
    /\ before = [k \in Knowledge |-> "none"]
    /\ invalidEpisodes = {}
    /\ activeSources = Sources
    /\ derived = {}
    /\ evidence = {}

-----------------------------------------------------------------------------
(* The service of knowledge and sources.                                   *)

SetStatus(k, st) == kstatus' = [kstatus EXCEPT ![k] = st]

\* A proposal of a type that needs evidence starts below validated.
Propose(k, st) ==
    /\ kstatus[k] = "none"
    /\ st \in Proposable
    /\ Type[k] = "fact" => st \notin {"validated", "canonical"}
    /\ SetStatus(k, st)
    /\ UNCHANGED <<before, invalidEpisodes, activeSources, derived, evidence>>

UpdateAllowed(k, st) ==
    /\ kstatus[k] \in Statuses \ NonUse
    /\ st \in Transitions[kstatus[k]]
    /\ (Type[k] = "fact" /\ st \in {"validated", "canonical"}) => HasEvidence(k)

Update(k, st) ==
    /\ UpdateAllowed(k, st)
    /\ SetStatus(k, st)
    /\ UNCHANGED <<before, invalidEpisodes, activeSources, derived, evidence>>

\* Evidence may cite no source; a source it cites is active when it commits
\* and is the company's or of the item's own project.
AttachEvidence(k, s) ==
    /\ kstatus[k] # "none"
    /\ <<k, s>> \in Citable
    /\ s # NoSource => /\ s \in activeSources
                       /\ s \notin Company => k \notin Company
    /\ evidence' = evidence \cup {<<k, s>>}
    /\ UNCHANGED <<kstatus, before, invalidEpisodes, activeSources, derived>>

\* relate: an edge to a source needs it active; nothing is asked of the
\* status of a knowledge item or an episode.
Relate(from, to) ==
    /\ <<from, to>> \in Derivable
    /\ \A k \in {from, to} \cap Knowledge : kstatus[k] # "none"
    /\ to \in Sources => to \in activeSources
    /\ derived' = derived \cup {<<from, to>>}
    /\ UNCHANGED <<kstatus, before, invalidEpisodes, activeSources, evidence>>

-----------------------------------------------------------------------------
(* The approved lifecycle, for knowledge of the project only.              *)

Retire(k) ==
    /\ k \notin Company
    /\ kstatus[k] \in LivePriors
    /\ SetStatus(k, "retired")
    /\ before' = [before EXCEPT ![k] = kstatus[k]]
    /\ UNCHANGED <<invalidEpisodes, activeSources, derived, evidence>>

\* Mutant of Reinstatable: what was revoked can be reinstated like what was retired.
ReinstatableNonUse(k) == kstatus[k] \in NonUse

Reinstatable(k) == kstatus[k] = "retired"

Reinstate(k) ==
    /\ k \notin Company
    /\ Reinstatable(k)
    /\ before[k] \in LivePriors
    /\ SetStatus(k, before[k])
    /\ UNCHANGED <<before, invalidEpisodes, activeSources, derived, evidence>>

Challenge(k) ==
    /\ k \notin Company
    /\ kstatus[k] \in ChallengePriors
    /\ SetStatus(k, "challenged")
    /\ UNCHANGED <<before, invalidEpisodes, activeSources, derived, evidence>>

\* check_supersession; company items go by the older call, which asks no more.
Supersedable(old, new) ==
    /\ old # new
    /\ Type[old] = Type[new]
    /\ (old \in Company) = (new \in Company)
    /\ kstatus[old] \notin {"none", "superseded"} \cup NonUse
    /\ kstatus[new] \notin {"none"} \cup NonUse
    /\ Rank(kstatus[new]) >= Rank(kstatus[old])

Supersede(old, new) ==
    /\ Supersedable(old, new)
    /\ SetStatus(old, "superseded")
    /\ UNCHANGED <<before, invalidEpisodes, activeSources, derived, evidence>>

-----------------------------------------------------------------------------
(* The cascade of a revocation.                                            *)

\* What each node rests on: derived_from, evidence and an artifact's source.
Support ==
    derived \cup {e \in evidence : e[2] # NoSource}
            \cup {<<a, SourceOf[a]>> : a \in Artifacts}

\* The reverse pass: all within d steps; company nodes are not walked past.
Reached(s, d) ==
    LET edges == Support
        Seen[i \in Nat] ==
            IF i = 0 THEN {s}
            ELSE LET seen == Seen[i - 1]
                 IN  seen \cup {e[1] : e \in {f \in edges : f[2] \in seen \ Company}}
    IN  Seen[d]

Dependents(s) == (Reached(s, MaxDepth) \ Company) \cap (Knowledge \cup Episodes)

\* What may carry support from below: live items and episodes, artifacts.
Carriers ==
    Artifacts \cup (Episodes \ invalidEpisodes)
      \cup {k \in Knowledge \ Company : kstatus[k] \notin {"revoked", "retired", "superseded"}}

Below(n, d) ==
    LET edges == Support
        Up[i \in Nat] ==
            IF i = 0 THEN {n}
            ELSE LET up == Up[i - 1]
                 IN  up \cup ({e[2] : e \in {f \in edges : f[1] \in up}} \cap Carriers)
    IN  Up[d]

\* Mutant of Grounded: a source of the company counts as support.
GroundedByAny(n, active) ==
    \E e \in Support : e[1] \in Below(n, MaxDepth - 1) /\ e[2] \in active

Grounded(n, active) ==
    LET below == Below(n, MaxDepth - 1)
    IN  \E e \in Support : e[1] \in below /\ e[2] \in active \ Company

\* Either pass may meet its depth budget; the call then changes nothing.
ReverseFits(s) == Reached(s, MaxDepth + 1) = Reached(s, MaxDepth)
ForwardFits(n, active) ==
    Grounded(n, active) \/ Below(n, MaxDepth) = Below(n, MaxDepth - 1)

Ungrounded(s) == {n \in Dependents(s) : ~Grounded(n, activeSources \ {s})}

RevokeSource(s) ==
    /\ s \in activeSources \ Company
    /\ ReverseFits(s)
    /\ \A n \in Dependents(s) : ForwardFits(n, activeSources \ {s})
    /\ activeSources' = activeSources \ {s}
    /\ kstatus' = [k \in Knowledge |->
                     IF k \in Ungrounded(s) THEN "revoked" ELSE kstatus[k]]
    /\ invalidEpisodes' = invalidEpisodes \cup (Ungrounded(s) \cap Episodes)
    /\ UNCHANGED <<before, derived, evidence>>

KnowledgeNext ==
    \/ \E k \in Knowledge, st \in Asked : Propose(k, st) \/ Update(k, st)
    \/ \E k \in Knowledge, s \in Sources \cup {NoSource} : AttachEvidence(k, s)
    \/ \E e \in Derivable : Relate(e[1], e[2])
    \/ \E k \in Knowledge : Retire(k) \/ Reinstate(k) \/ Challenge(k)
    \/ \E old, new \in Knowledge : Supersede(old, new)
    \/ \E s \in Sources : RevokeSource(s)

KnowledgeSpec == KnowledgeInit /\ [][KnowledgeNext]_knowledgeVars

-----------------------------------------------------------------------------
(* Properties.                                                             *)

KnowledgeTypeOK ==
    /\ kstatus \in [Knowledge -> Statuses \cup {"none"}]
    /\ before \in [Knowledge -> LivePriors \cup {"none"}]
    /\ invalidEpisodes \subseteq Episodes
    /\ activeSources \subseteq Sources
    /\ derived \subseteq Derivable
    /\ evidence \subseteq Citable

RevokedNodes == invalidEpisodes \cup {k \in Knowledge : kstatus[k] = "revoked"}

\* Of the project's own nodes, those that rest on s through any chain, and
\* those some chain of live carriers grounds in a source of active: the least
\* sets closed under the edges, whatever their depth.
RestOn(s) ==
    {n \in Nodes \ Company : \A C \in SUBSET Nodes :
        (/\ s \in C
         /\ \A e \in Support : e[2] \in C \ Company => e[1] \in C) => n \in C}

StandsOn(active) ==
    {n \in Nodes : \A C \in SUBSET Nodes :
        (\A e \in Support : e[2] \in (active \ Company) \cup (C \cap Carriers)
                              => e[1] \in C) => n \in C}

\* A revocation that is not refused takes exactly what rests on the source
\* and stands on no other: the two bounded passes of analyse lose nothing
\* and take nothing too much, through items retired, superseded or revoked.
CascadeIsExact ==
    [][\A s \in activeSources \ activeSources' :
         RevokedNodes' = RevokedNodes \cup
             (((RestOn(s) \ StandsOn(activeSources \ {s})) \cap (Knowledge \cup Episodes)))
      ]_knowledgeVars

\* No sequence of lifecycle calls brings back, or leaves in use, memory of
\* the project whose every support is a revoked source.
OrphansAreRevoked ==
    \A n \in (Knowledge \ Company) \cup Episodes :
        LET supports == {e[2] : e \in {d \in Support : d[1] = n}}
        IN  supports # {} /\ supports \subseteq Sources \ activeSources
              => n \in RevokedNodes
=============================================================================
