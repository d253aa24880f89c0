-------------------------- MODULE KnowledgeProofs --------------------------
(***************************************************************************)
(* The memory of a project, for any items, episodes, sources and edges and *)
(* any depth of the cascade: a revocation takes exactly what rests on its  *)
(* source alone, nothing is left in use or brought back that rests on      *)
(* revoked sources, and what is left of the lessons is earned.             *)
(***************************************************************************)
EXTENDS ExperienceLessons, FiniteSetTheorems, SequenceTheorems, TLAPS

----------------------------------------------------------------------------
(* Natural numbers, one after the other. *)

\* A set with 0 and with the successor of each of its members has every natural number: of
\* the intervals up to the numbers it missed, one would be contained in no other.
LEMMA NaturalsByStep ==
    ASSUME NEW S, 0 \in S, \A n \in Nat : n \in S => n + 1 \in S
    PROVE  Nat \subseteq S
<1> SUFFICES ASSUME NEW z \in Nat \ S PROVE FALSE
  OBVIOUS
<1> DEFINE upTo(n) == 1..n
           missed == {upTo(n) : n \in Nat \ S}
<1>1. missed \subseteq FiniteSubsetsOf(Nat) /\ missed # {}
  <2>1. ASSUME NEW n \in Nat PROVE upTo(n) \in FiniteSubsetsOf(Nat)
    BY FS_Interval DEF FiniteSubsetsOf
  <2> QED
    BY <2>1
<1>2. PICK m \in missed : \A k \in missed : <<k, m>> \notin StrictSubsetOrdering(Nat)
  <2> HIDE DEF missed
  <2> QED
    BY <1>1, FS_StrictSubsetOrderingWellFounded, WFMin
<1>3. PICK x \in Nat \ S : m = upTo(x)
  OBVIOUS
<1>4. x - 1 \in Nat /\ x - 1 \notin S
  <2>1. x # 0 /\ x - 1 \in Nat /\ x = (x - 1) + 1
    OBVIOUS
  <2> QED
    BY <2>1
<1>5. upTo(x - 1) \in missed
  BY <1>4
<1>6. upTo(x - 1) \subseteq upTo(x) /\ upTo(x - 1) # upTo(x) /\ upTo(x) \subseteq Nat
  BY <1>4
<1>7. <<upTo(x - 1), upTo(x)>> \in StrictSubsetOrdering(Nat)
  BY <1>6 DEF StrictSubsetOrdering
<1> QED
  BY <1>2, <1>3, <1>5, <1>7

\* A function can be iterated from any start.
LEMMA Iterates ==
    ASSUME NEW T, NEW x \in T, NEW step \in [T -> T]
    PROVE  \E f \in [Nat -> T] : f[0] = x /\ \A n \in Nat : f[n + 1] = step[f[n]]
<1> DEFINE Runs(n) == {g \in [0..n -> T] : g[0] = x /\ \A i \in 0..(n - 1) : g[i + 1] = step[g[i]]}
<1>1. \A n \in Nat : Runs(n) # {}
  <2> DEFINE S == {n \in Nat : Runs(n) # {}}
  <2>1. 0 \in S
    <3>1. [i \in 0..0 |-> x] \in Runs(0)
      OBVIOUS
    <3> QED
      BY <3>1
  <2>2. ASSUME NEW n \in Nat, n \in S PROVE n + 1 \in S
    <3>1. PICK g : g \in Runs(n)
      BY <2>2
    <3> DEFINE h == [i \in 0..(n + 1) |-> IF i = n + 1 THEN step[g[n]] ELSE g[i]]
    <3>2. g \in [0..n -> T] /\ g[0] = x /\ \A i \in 0..(n - 1) : g[i + 1] = step[g[i]]
      BY <3>1
    <3>3. g[n] \in T
      BY <3>2
    <3>4. h \in [0..(n + 1) -> T] /\ h[0] = x
      BY <3>2, <3>3
    <3>5. \A i \in 0..((n + 1) - 1) : h[i + 1] = step[h[i]]
      BY <3>2
    <3>6. h \in Runs(n + 1)
      BY <3>4, <3>5
    <3> QED
      BY <3>6
  <2> HIDE DEF S
  <2>3. Nat \subseteq S
    BY <2>1, <2>2, NaturalsByStep
  <2> QED
    BY <2>3 DEF S
<1>2. ASSUME NEW n \in Nat, NEW m \in Nat, NEW g \in Runs(n), NEW h \in Runs(m)
      PROVE  \A i \in Nat : i <= n /\ i <= m => g[i] = h[i]
  <2> DEFINE S == {i \in Nat : i <= n /\ i <= m => g[i] = h[i]}
  <2>1. 0 \in S
    OBVIOUS
  <2>2. ASSUME NEW i \in Nat, i \in S PROVE i + 1 \in S
    <3> SUFFICES ASSUME i + 1 <= n, i + 1 <= m PROVE g[i + 1] = h[i + 1]
      OBVIOUS
    <3>1. i \in 0..(n - 1) /\ i \in 0..(m - 1) /\ g[i] = h[i]
      BY <2>2
    <3> QED
      BY <3>1
  <2> HIDE DEF S
  <2>3. Nat \subseteq S
    BY <2>1, <2>2, NaturalsByStep
  <2> QED
    BY <2>3 DEF S
<1> DEFINE run(n) == CHOOSE g : g \in Runs(n)
           f == [n \in Nat |-> run(n)[n]]
<1>3. \A n \in Nat : run(n) \in Runs(n)
  BY <1>1
<1> HIDE DEF run
<1>4. f \in [Nat -> T] /\ f[0] = x
  <2>1. ASSUME NEW n \in Nat PROVE run(n)[n] \in T
    <3>1. run(n) \in [0..n -> T] /\ n \in 0..n
      BY <1>3
    <3> QED
      BY <3>1
  <2>2. run(0)[0] = x
    BY <1>3
  <2> QED
    BY <2>1, <2>2
<1>5. ASSUME NEW n \in Nat PROVE f[n + 1] = step[f[n]]
  <2>1. run(n + 1) \in Runs(n + 1) /\ run(n) \in Runs(n)
    <3>1. n + 1 \in Nat
      OBVIOUS
    <3> QED
      BY <1>3, <3>1
  <2>2. run(n + 1)[n] = run(n)[n]
    <3>1. n + 1 \in Nat /\ n <= n /\ n <= n + 1
      OBVIOUS
    <3> HIDE DEF Runs
    <3> QED
      BY <1>2, <2>1, <3>1
  <2>3. run(n + 1)[n + 1] = step[run(n + 1)[n]]
    <3>1. n \in 0..((n + 1) - 1)
      OBVIOUS
    <3> QED
      BY <2>1, <3>1
  <2> QED
    BY <2>2, <2>3
<1> QED
  BY <1>4, <1>5

\* A set of numbers that is not empty has a least one.
LEMMA HasLeast ==
    ASSUME NEW S \in SUBSET Nat, S # {}
    PROVE  \E i \in S : \A j \in S : i <= j
<1> SUFFICES ASSUME \A i \in S : \E j \in S : j < i PROVE FALSE
  OBVIOUS
<1> DEFINE above == {n \in Nat : \A i \in S : n < i}
<1>1. 0 \in above
  <2>1. 0 \notin S
    OBVIOUS
  <2> QED
    BY <2>1
<1>2. ASSUME NEW n \in Nat, n \in above PROVE n + 1 \in above
  <2>1. \A i \in S : n + 1 <= i
    BY <1>2
  <2>2. n + 1 \notin S
    BY <2>1
  <2> QED
    BY <2>1, <2>2
<1> HIDE DEF above
<1>3. Nat \subseteq above
  BY <1>1, <1>2, NaturalsByStep
<1>4. PICK i \in S : i \in Nat
  OBVIOUS
<1>5. i < i
  BY <1>3, <1>4 DEF above
<1> QED
  BY <1>4, <1>5

----------------------------------------------------------------------------
(* The two passes of the cascade, step by step. *)

LEMMA SupportIsTyped ==
    ASSUME KnowledgeTypeOK
    PROVE  /\ Support \subseteq Nodes \X Nodes
           /\ \A e \in Support : e[1] \notin Sources
           /\ \A e \in Support : e[1] \in Knowledge => e \in derived \cup evidence
<1> USE KnowledgeAssumption DEF KnowledgeTypeOK
<1>1. ASSUME NEW e \in derived
      PROVE  e \in Nodes \X Nodes /\ e[1] \in Knowledge \cup Episodes
  BY DEF Nodes
<1>2. ASSUME NEW e \in evidence, e[2] # NoSource
      PROVE  e \in Nodes \X Nodes /\ e[1] \in Knowledge
  BY <1>2 DEF Nodes
<1>3. ASSUME NEW a \in Artifacts
      PROVE  <<a, SourceOf[a]>> \in Nodes \X Nodes
  BY DEF Nodes
<1> QED
  BY <1>1, <1>2, <1>3 DEF Support

Wider(C) == C \cup {e[1] : e \in {f \in Support : f[2] \in C \ Company}}

Deeper(C) == C \cup ({e[2] : e \in {f \in Support : f[1] \in C}} \cap Carriers)

LEMMA ReachedSteps ==
    ASSUME KnowledgeTypeOK, NEW s \in Nodes
    PROVE  /\ \A d \in Nat : Reached(s, d) \subseteq Nodes
           /\ Reached(s, 0) = {s}
           /\ \A d \in Nat : Reached(s, d + 1) = Wider(Reached(s, d))
<1> DEFINE edges == Support
           Follows(f) == f = [i \in Nat |->
                                IF i = 0 THEN {s}
                                ELSE LET seen == f[i - 1]
                                     IN  seen \cup {e[1] : e \in {g \in edges : g[2] \in seen \ Company}}]
           seenBy == CHOOSE f : Follows(f)
           step == [C \in SUBSET Nodes |-> Wider(C)]
<1>1. step \in [SUBSET Nodes -> SUBSET Nodes]
  BY SupportIsTyped DEF Wider
<1>2. PICK f \in [Nat -> SUBSET Nodes] : f[0] = {s} /\ \A n \in Nat : f[n + 1] = step[f[n]]
  <2> DEFINE T == SUBSET Nodes
             x == {s}
  <2>1. x \in T
    OBVIOUS
  <2>2. step \in [T -> T]
    BY <1>1
  <2> HIDE DEF step, T, x
  <2>3. \E f \in [Nat -> T] : f[0] = x /\ \A n \in Nat : f[n + 1] = step[f[n]]
    BY <2>1, <2>2, Iterates
  <2> QED
    BY <2>3 DEF T, x
<1>3. Follows(f)
  <2>1. \A i \in Nat \ {0} : f[i] = Wider(f[i - 1])
    <3> SUFFICES ASSUME NEW i \in Nat \ {0} PROVE f[i] = Wider(f[i - 1])
      OBVIOUS
    <3>1. i - 1 \in Nat /\ i = (i - 1) + 1
      OBVIOUS
    <3>2. f[(i - 1) + 1] = step[f[i - 1]] /\ f[i - 1] \in SUBSET Nodes
      BY <1>2, <3>1
    <3> QED
      BY <3>1, <3>2
  <2> QED
    BY <1>2, <2>1 DEF Wider
<1>4. Follows(seenBy)
  BY <1>3
<1>5. \A d : Reached(s, d) = seenBy[d]
  BY DEF Reached
<1> HIDE DEF seenBy
<1>6. seenBy[0] = {s} /\ \A d \in Nat : seenBy[d + 1] = Wider(seenBy[d])
  BY <1>4 DEF Wider
<1>7. \A d \in Nat : seenBy[d] \subseteq Nodes
  <2> DEFINE S == {d \in Nat : seenBy[d] \subseteq Nodes}
  <2>1. 0 \in S
    BY <1>6
  <2>2. ASSUME NEW d \in Nat, d \in S PROVE d + 1 \in S
    BY <1>6, <2>2, SupportIsTyped DEF Wider
  <2> HIDE DEF S
  <2>3. Nat \subseteq S
    BY <2>1, <2>2, NaturalsByStep
  <2> QED
    BY <2>3 DEF S
<1> QED
  BY <1>5, <1>6, <1>7

LEMMA BelowSteps ==
    ASSUME KnowledgeTypeOK, NEW n \in Nodes
    PROVE  /\ \A d \in Nat : Below(n, d) \subseteq Nodes
           /\ Below(n, 0) = {n}
           /\ \A d \in Nat : Below(n, d + 1) = Deeper(Below(n, d))
<1> DEFINE edges == Support
           Follows(f) == f = [i \in Nat |->
                                IF i = 0 THEN {n}
                                ELSE LET up == f[i - 1]
                                     IN  up \cup ({e[2] : e \in {g \in edges : g[1] \in up}} \cap Carriers)]
           upTo == CHOOSE f : Follows(f)
           step == [C \in SUBSET Nodes |-> Deeper(C)]
<1>1. step \in [SUBSET Nodes -> SUBSET Nodes]
  BY SupportIsTyped DEF Deeper
<1>2. PICK f \in [Nat -> SUBSET Nodes] : f[0] = {n} /\ \A i \in Nat : f[i + 1] = step[f[i]]
  <2> DEFINE T == SUBSET Nodes
             x == {n}
  <2>1. x \in T
    OBVIOUS
  <2>2. step \in [T -> T]
    BY <1>1
  <2> HIDE DEF step, T, x
  <2>3. \E f \in [Nat -> T] : f[0] = x /\ \A i \in Nat : f[i + 1] = step[f[i]]
    BY <2>1, <2>2, Iterates
  <2> QED
    BY <2>3 DEF T, x
<1>3. Follows(f)
  <2>1. \A i \in Nat \ {0} : f[i] = Deeper(f[i - 1])
    <3> SUFFICES ASSUME NEW i \in Nat \ {0} PROVE f[i] = Deeper(f[i - 1])
      OBVIOUS
    <3>1. i - 1 \in Nat /\ i = (i - 1) + 1
      OBVIOUS
    <3>2. f[(i - 1) + 1] = step[f[i - 1]] /\ f[i - 1] \in SUBSET Nodes
      BY <1>2, <3>1
    <3> QED
      BY <3>1, <3>2
  <2> QED
    BY <1>2, <2>1 DEF Deeper
<1>4. Follows(upTo)
  BY <1>3
<1>5. \A d : Below(n, d) = upTo[d]
  BY DEF Below
<1> HIDE DEF upTo
<1>6. upTo[0] = {n} /\ \A d \in Nat : upTo[d + 1] = Deeper(upTo[d])
  <2>1. upTo[0] = {n}
    BY <1>4
  <2>2. ASSUME NEW d \in Nat PROVE upTo[d + 1] = Deeper(upTo[d])
    <3>1. d + 1 \in Nat /\ d + 1 # 0 /\ (d + 1) - 1 = d
      OBVIOUS
    <3> DEFINE next(i) == upTo[i] \cup ({e[2] : e \in {g \in edges : g[1] \in upTo[i]}} \cap Carriers)
    <3>2. \A i \in Nat : upTo[i] = IF i = 0 THEN {n} ELSE next(i - 1)
      BY <1>4
    <3> HIDE DEF next
    <3>3. upTo[d + 1] = next(d)
      BY <3>1, <3>2
    <3> QED
      BY <3>3 DEF Deeper, next
  <2> QED
    BY <2>1, <2>2
<1>7. \A d \in Nat : upTo[d] \subseteq Nodes
  <2> DEFINE S == {d \in Nat : upTo[d] \subseteq Nodes}
  <2>1. 0 \in S
    BY <1>6
  <2>2. ASSUME NEW d \in Nat, d \in S PROVE d + 1 \in S
    BY <1>6, <2>2, SupportIsTyped DEF Deeper
  <2> HIDE DEF S
  <2>3. Nat \subseteq S
    BY <2>1, <2>2, NaturalsByStep
  <2> QED
    BY <2>3 DEF S
<1> QED
  BY <1>5, <1>6, <1>7

----------------------------------------------------------------------------
(* What a revocation takes is what rests on its source and on no other. *)

\* The reverse pass stays within every set that holds the source and is closed under the
\* edges, and loses nothing it has seen.
LEMMA ReachedIsLeast ==
    ASSUME KnowledgeTypeOK, NEW s \in Nodes, NEW C \in SUBSET Nodes, s \in C,
           \A e \in Support : e[2] \in C \ Company => e[1] \in C
    PROVE  \A d \in Nat : s \in Reached(s, d) /\ Reached(s, d) \subseteq C
<1> DEFINE S == {d \in Nat : s \in Reached(s, d) /\ Reached(s, d) \subseteq C}
<1>1. 0 \in S
  BY ReachedSteps
<1>2. ASSUME NEW d \in Nat, d \in S PROVE d + 1 \in S
  <2>1. Reached(s, d + 1) = Wider(Reached(s, d))
    BY ReachedSteps
  <2> QED
    BY <1>2, <2>1 DEF Wider
<1> HIDE DEF S
<1>3. Nat \subseteq S
  BY <1>1, <1>2, NaturalsByStep
<1> QED
  BY <1>3 DEF S

\* A reverse pass that met its budget would have changed with one step more.
LEMMA RestOnIsReached ==
    ASSUME KnowledgeTypeOK, NEW s \in Nodes, ReverseFits(s)
    PROVE  RestOn(s) = Reached(s, MaxDepth) \ Company
<1> DEFINE R == Reached(s, MaxDepth)
<1>1. MaxDepth \in Nat
  BY KnowledgeAssumption
<1>2. R = Wider(R) /\ R \in SUBSET Nodes
  BY <1>1, ReachedSteps DEF ReverseFits
<1>3. s \in R
  <2>1. \A e \in Support : e[2] \in Nodes \ Company => e[1] \in Nodes
    BY SupportIsTyped
  <2> QED
    BY <1>1, <2>1, ReachedIsLeast
<1>4. ASSUME NEW C \in SUBSET Nodes, s \in C,
             \A e \in Support : e[2] \in C \ Company => e[1] \in C
      PROVE  R \subseteq C
  BY <1>1, <1>4, ReachedIsLeast
<1> HIDE DEF R
<1>5. \A e \in Support : e[2] \in R \ Company => e[1] \in R
  BY <1>2 DEF Wider
<1>6. R \ Company \subseteq RestOn(s)
  BY <1>2, <1>4 DEF RestOn
<1>7. RestOn(s) \subseteq R \ Company
  BY <1>2, <1>3, <1>5 DEF RestOn
<1> QED
  BY <1>6, <1>7 DEF R

\* What a node has below it is grounded only if the node is.
LEMMA GroundedStands ==
    ASSUME KnowledgeTypeOK, NEW n \in Nodes, NEW active, Grounded(n, active)
    PROVE  n \in StandsOn(active)
<1> SUFFICES ASSUME NEW C \in SUBSET Nodes,
                    \A e \in Support : e[2] \in (active \ Company) \cup (C \cap Carriers) => e[1] \in C
             PROVE  n \in C
  BY DEF StandsOn
<1> DEFINE S == {d \in Nat : Below(n, d) \cap C # {} => n \in C}
<1>1. 0 \in S
  BY BelowSteps
<1>2. ASSUME NEW d \in Nat, d \in S PROVE d + 1 \in S
  <2>1. Below(n, d + 1) = Deeper(Below(n, d))
    BY BelowSteps
  <2>2. ASSUME NEW x \in Below(n, d + 1), x \in C PROVE Below(n, d) \cap C # {}
    BY <2>1, <2>2 DEF Deeper
  <2> QED
    BY <1>2, <2>2
<1> HIDE DEF S
<1>3. Nat \subseteq S
  BY <1>1, <1>2, NaturalsByStep
<1>4. PICK e \in Support : e[1] \in Below(n, MaxDepth - 1) /\ e[2] \in active \ Company
  BY DEF Grounded
<1>5. MaxDepth - 1 \in Nat
  BY KnowledgeAssumption
<1> QED
  BY <1>3, <1>4, <1>5 DEF S

LEMMA UngroundedDoesNotStand ==
    ASSUME KnowledgeTypeOK, NEW n \in Nodes, NEW active,
           ForwardFits(n, active), ~Grounded(n, active)
    PROVE  n \notin StandsOn(active)
<1> DEFINE B == Below(n, MaxDepth - 1)
           C == Nodes \ B
<1>1. MaxDepth - 1 \in Nat /\ MaxDepth = (MaxDepth - 1) + 1
  BY KnowledgeAssumption
<1>2. B = Deeper(B)
  BY <1>1, BelowSteps DEF ForwardFits
<1>3. n \in B
  <2> DEFINE S == {d \in Nat : n \in Below(n, d)}
  <2>1. 0 \in S
    BY BelowSteps
  <2>2. ASSUME NEW d \in Nat, d \in S PROVE d + 1 \in S
    BY <2>2, BelowSteps DEF Deeper
  <2> HIDE DEF S
  <2>3. Nat \subseteq S
    BY <2>1, <2>2, NaturalsByStep
  <2> QED
    BY <1>1, <2>3 DEF S
<1>4. ASSUME NEW e \in Support, e[2] \in (active \ Company) \cup (C \cap Carriers)
      PROVE  e[1] \in C
  <2>1. e[1] \in Nodes
    BY SupportIsTyped
  <2>2. ASSUME e[1] \in B PROVE FALSE
    <3>1. e[2] \notin active \ Company
      BY <2>2 DEF Grounded
    <3> HIDE DEF B
    <3>2. e[2] \in Deeper(B)
      BY <1>4, <2>2, <3>1 DEF Deeper
    <3> QED
      BY <1>2, <1>4, <3>1, <3>2
  <2> QED
    BY <2>1, <2>2
<1> HIDE DEF B
<1>5. C \in SUBSET Nodes /\ n \notin C
  BY <1>3
<1> QED
  BY <1>4, <1>5 DEF StandsOn

LEMMA CascadeTakes ==
    ASSUME KnowledgeTypeOK, NEW s \in Sources, RevokeSource(s)
    PROVE  Ungrounded(s) = (RestOn(s) \ StandsOn(activeSources \ {s})) \cap (Knowledge \cup Episodes)
<1> DEFINE left == activeSources \ {s}
<1>1. s \in Nodes /\ ReverseFits(s) /\ \A n \in Dependents(s) : ForwardFits(n, left)
  BY DEF RevokeSource, Nodes
<1>2. Dependents(s) = RestOn(s) \cap (Knowledge \cup Episodes)
  BY <1>1, RestOnIsReached DEF Dependents
<1>3. ASSUME NEW n \in Dependents(s) PROVE Grounded(n, left) <=> n \in StandsOn(left)
  <2>1. n \in Nodes /\ ForwardFits(n, left)
    BY <1>1 DEF Dependents, Nodes
  <2> HIDE DEF left
  <2> QED
    BY <2>1, GroundedStands, UngroundedDoesNotStand
<1> QED
  BY <1>2, <1>3 DEF Ungrounded

----------------------------------------------------------------------------
(* The calls of the service, one by one. *)

\* The statuses the lifecycle moves from are in use, and none of them is the last.
LEMMA PriorsAreLive == LivePriors \subseteq Statuses \ NonUse /\ "none" \notin LivePriors
BY DEF LivePriors, ChallengePriors, Transitions, Statuses, Proposable, NonUse

\* A call either revokes a source, or leaves the sources and the revoked episodes alone and
\* moves at most one item between statuses that are not "revoked".
LEMMA EveryCall ==
    ASSUME KnowledgeTypeOK, KnowledgeNext
    PROVE  \/ \E s \in Sources : RevokeSource(s)
           \/ /\ UNCHANGED <<activeSources, invalidEpisodes>>
              /\ \/ kstatus' = kstatus
                 \/ \E k \in Knowledge, st \in Statuses \ {"revoked"} :
                       kstatus[k] # "revoked" /\ kstatus' = [kstatus EXCEPT ![k] = st]
              /\ \/ before' = before
                 \/ \E k \in Knowledge, st \in LivePriors : before' = [before EXCEPT ![k] = st]
              /\ \/ derived' = derived
                 \/ \E e \in Derivable : Relate(e[1], e[2])
              /\ \/ evidence' = evidence
                 \/ \E k \in Knowledge, s \in Sources \cup {NoSource} : AttachEvidence(k, s)
<1> USE DEF KnowledgeTypeOK, SetStatus
<1> DEFINE Frame == /\ UNCHANGED <<activeSources, invalidEpisodes>>
                    /\ derived' = derived
                    /\ evidence' = evidence
           Moves(k, st) == kstatus[k] # "revoked" /\ kstatus' = [kstatus EXCEPT ![k] = st]
<1>1. CASE \E k \in Knowledge, st \in Asked : Propose(k, st) \/ Update(k, st)
  <2>1. PICK k \in Knowledge, st \in Asked : Propose(k, st) \/ Update(k, st)
    BY <1>1
  <2>2. st \in Statuses \ {"revoked"}
    BY KnowledgeAssumption DEF Statuses, Proposable
  <2>3. Frame /\ before' = before /\ Moves(k, st)
    BY <2>1 DEF Propose, Update, UpdateAllowed, NonUse
  <2> QED
    BY <2>2, <2>3
<1>2. CASE \E k \in Knowledge, s \in Sources \cup {NoSource} : AttachEvidence(k, s)
  BY <1>2 DEF AttachEvidence
<1>3. CASE \E e \in Derivable : Relate(e[1], e[2])
  BY <1>3 DEF Relate
<1>4. CASE \E k \in Knowledge : Retire(k) \/ Reinstate(k) \/ Challenge(k)
  <2>1. PICK k \in Knowledge : Retire(k) \/ Reinstate(k) \/ Challenge(k)
    BY <1>4
  <2>2. CASE Retire(k)
    <3>1. Frame /\ Moves(k, "retired") /\ kstatus[k] \in LivePriors
          /\ before' = [before EXCEPT ![k] = kstatus[k]]
      BY <2>2, PriorsAreLive DEF Retire, NonUse
    <3>2. "retired" \in Statuses \ {"revoked"}
      BY DEF Statuses
    <3> QED
      BY <3>1, <3>2
  <2>3. CASE Reinstate(k)
    <3>1. Frame /\ Moves(k, before[k]) /\ before' = before
      BY <2>3 DEF Reinstate, Reinstatable
    <3>2. before[k] \in Statuses \ {"revoked"}
      BY <2>3, PriorsAreLive DEF Reinstate, NonUse
    <3> QED
      BY <3>1, <3>2
  <2>4. CASE Challenge(k)
    <3>1. Frame /\ Moves(k, "challenged") /\ before' = before
      BY <2>4, PriorsAreLive DEF Challenge, LivePriors, NonUse
    <3>2. "challenged" \in Statuses \ {"revoked"}
      BY DEF Statuses, Proposable
    <3> QED
      BY <3>1, <3>2
  <2> QED
    BY <2>1, <2>2, <2>3, <2>4
<1>5. CASE \E old, new \in Knowledge : Supersede(old, new)
  <2>1. PICK old \in Knowledge, new \in Knowledge : Supersede(old, new)
    BY <1>5
  <2>2. Frame /\ Moves(old, "superseded") /\ before' = before
    BY <2>1 DEF Supersede, Supersedable, NonUse
  <2>3. "superseded" \in Statuses \ {"revoked"}
    BY DEF Statuses
  <2> QED
    BY <2>2, <2>3
<1> QED
  BY <1>1, <1>2, <1>3, <1>4, <1>5 DEF KnowledgeNext

\* A call leaves every variable in its type.
LEMMA KnowledgeTypeStep ==
    ASSUME KnowledgeTypeOK, KnowledgeNext
    PROVE  KnowledgeTypeOK'
<1>1. CASE \E s \in Sources : RevokeSource(s)
  <2>1. PICK s \in Sources : RevokeSource(s)
    BY <1>1
  <2>2. "revoked" \in Statuses
    BY DEF Statuses
  <2> QED
    BY <2>1, <2>2 DEF KnowledgeTypeOK, RevokeSource
<1>2. CASE ~ \E s \in Sources : RevokeSource(s)
  <2>1. kstatus' \in [Knowledge -> Statuses \cup {"none"}]
    BY <1>2, EveryCall DEF KnowledgeTypeOK
  <2>2. before' \in [Knowledge -> LivePriors \cup {"none"}]
    BY <1>2, EveryCall DEF KnowledgeTypeOK
  <2>3. derived' \subseteq Derivable
    <3>1. ASSUME NEW e \in Derivable, Relate(e[1], e[2]) PROVE derived' \subseteq Derivable
      BY <3>1 DEF Relate, KnowledgeTypeOK
    <3> QED
      BY <1>2, <3>1, EveryCall DEF KnowledgeTypeOK
  <2>4. evidence' \subseteq Citable
    BY <1>2, EveryCall DEF KnowledgeTypeOK, AttachEvidence
  <2> QED
    BY <1>2, <2>1, <2>2, <2>3, <2>4, EveryCall DEF KnowledgeTypeOK
<1> QED
  BY <1>1, <1>2

\* What was revoked stays revoked.
LEMMA RevokedStays ==
    ASSUME KnowledgeTypeOK, KnowledgeNext
    PROVE  RevokedNodes \subseteq RevokedNodes'
<1>1. CASE \E s \in Sources : RevokeSource(s)
  BY <1>1 DEF KnowledgeTypeOK, RevokeSource, RevokedNodes
<1>2. CASE ~ \E s \in Sources : RevokeSource(s)
  BY <1>2, EveryCall DEF KnowledgeTypeOK, RevokedNodes
<1> QED
  BY <1>1, <1>2

\* The nodes a revocation takes are revoked by it, and no others are.
LEMMA RevocationRevokes ==
    ASSUME KnowledgeTypeOK, NEW s \in Sources, RevokeSource(s)
    PROVE  RevokedNodes' = RevokedNodes \cup
             ((RestOn(s) \ StandsOn(activeSources \ {s})) \cap (Knowledge \cup Episodes))
<1>1. Ungrounded(s) \subseteq Knowledge \cup Episodes
  BY DEF Ungrounded, Dependents
<1>2. invalidEpisodes' = invalidEpisodes \cup (Ungrounded(s) \cap Episodes)
  BY DEF RevokeSource
<1>3. \A k \in Knowledge : kstatus'[k] = "revoked" <=> (kstatus[k] = "revoked" \/ k \in Ungrounded(s))
  BY DEF RevokeSource
<1>4. RevokedNodes' = RevokedNodes \cup Ungrounded(s)
  BY <1>1, <1>2, <1>3 DEF RevokedNodes
<1> QED
  BY <1>4, CascadeTakes

----------------------------------------------------------------------------
(* The knowledge of a project. *)

KnowledgeInv == KnowledgeTypeOK /\ OrphansAreRevoked

Supports(n) == {e[2] : e \in {d \in Support : d[1] = n}}

\* A node whose every support is a source rests on each of them, and stands on others only.
LEMMA OrphansFall ==
    ASSUME KnowledgeTypeOK, NEW n \in (Knowledge \ Company) \cup Episodes,
           NEW s \in activeSources \ Company, NEW left,
           s \in Supports(n), Supports(n) \subseteq Sources \ left
    PROVE  n \in (RestOn(s) \ StandsOn(left)) \cap (Knowledge \cup Episodes)
<1>1. n \in Nodes \ Company /\ n \notin Sources /\ s \in Nodes
  BY KnowledgeAssumption DEF Nodes, KnowledgeTypeOK
<1>2. n \in RestOn(s)
  <2>1. PICK e \in Support : e[1] = n /\ e[2] = s
    BY DEF Supports
  <2> QED
    BY <1>1, <2>1 DEF RestOn
<1>3. n \notin StandsOn(left)
  <2> DEFINE C == Nodes \ {n}
  <2>1. ASSUME NEW e \in Support, e[2] \in (left \ Company) \cup (C \cap Carriers)
        PROVE  e[1] \in C
    <3>1. e[1] \in Nodes
      BY SupportIsTyped
    <3>2. Carriers \cap Sources = {}
      BY KnowledgeAssumption DEF Carriers
    <3>3. e[1] = n => e[2] \in Sources \ left
      BY DEF Supports
    <3> QED
      BY <2>1, <3>1, <3>2, <3>3
  <2>2. C \in SUBSET Nodes /\ n \notin C
    OBVIOUS
  <2> HIDE DEF C
  <2> QED
    BY <2>1, <2>2 DEF StandsOn
<1> QED
  BY <1>1, <1>2, <1>3

LEMMA KnowledgeStep == KnowledgeInv /\ [KnowledgeNext]_knowledgeVars => KnowledgeInv'
<1> SUFFICES ASSUME KnowledgeInv, [KnowledgeNext]_knowledgeVars PROVE KnowledgeInv'
  OBVIOUS
<1>1. KnowledgeTypeOK
  BY DEF KnowledgeInv
<1>2. CASE UNCHANGED knowledgeVars
  <2>1. KnowledgeTypeOK'
    BY <1>1, <1>2 DEF KnowledgeTypeOK, knowledgeVars
  <2>2. Support' = Support /\ RevokedNodes' = RevokedNodes /\ activeSources' = activeSources
    BY <1>2 DEF Support, RevokedNodes, knowledgeVars
  <2> QED
    BY <2>1, <2>2 DEF KnowledgeInv, OrphansAreRevoked
<1>3. CASE KnowledgeNext
  <2>1. KnowledgeTypeOK'
    BY <1>1, <1>3, KnowledgeTypeStep
  <2>2. RevokedNodes \subseteq RevokedNodes'
    BY <1>1, <1>3, RevokedStays
  <2>3. ASSUME NEW n \in (Knowledge \ Company) \cup Episodes,
               Supports(n)' # {}, Supports(n)' \subseteq Sources \ activeSources'
        PROVE  n \in RevokedNodes'
    <3>1. CASE \E s \in Sources : RevokeSource(s)
      <4>1. PICK s \in Sources : RevokeSource(s)
        BY <3>1
      <4>2. /\ s \in activeSources \ Company
            /\ activeSources' = activeSources \ {s}
            /\ Supports(n)' = Supports(n)
        BY <4>1 DEF RevokeSource, Supports, Support
      <4>3. CASE s \in Supports(n)
        <5>1. n \in (RestOn(s) \ StandsOn(activeSources \ {s})) \cap (Knowledge \cup Episodes)
          BY <1>1, <2>3, <4>2, <4>3, OrphansFall
        <5> QED
          BY <1>1, <4>1, <5>1, RevocationRevokes
      <4>4. CASE s \notin Supports(n)
        <5>1. n \in RevokedNodes
          BY <2>3, <4>2, <4>4 DEF KnowledgeInv, OrphansAreRevoked, Supports
        <5> QED
          BY <2>2, <5>1
      <4> QED
        BY <4>3, <4>4
    <3>2. CASE ~ \E s \in Sources : RevokeSource(s)
      <4>1. activeSources' = activeSources
        BY <1>1, <1>3, <3>2, EveryCall
      <4>2. Support \subseteq Support'
        BY <1>1, <1>3, <3>2, EveryCall DEF Relate, AttachEvidence, Support
      <4>3. \A e \in Support' \ Support : e[2] \notin Sources \ activeSources
        <5>1. ASSUME NEW e \in derived' \ derived PROVE e[2] \notin Sources \ activeSources
          <6>1. PICK d \in Derivable : Relate(d[1], d[2])
            BY <1>1, <1>3, <3>2, <5>1, EveryCall
          <6>2. e = <<d[1], d[2]>>
            BY <5>1, <6>1 DEF Relate
          <6> QED
            BY <6>1, <6>2 DEF Relate
        <5>2. ASSUME NEW e \in evidence' \ evidence, e[2] # NoSource
              PROVE  e[2] \notin Sources \ activeSources
          <6>1. PICK k \in Knowledge, s \in Sources \cup {NoSource} : AttachEvidence(k, s)
            BY <1>1, <1>3, <3>2, <5>2, EveryCall
          <6>2. e = <<k, s>>
            BY <5>2, <6>1 DEF AttachEvidence
          <6> QED
            BY <5>2, <6>1, <6>2 DEF AttachEvidence
        <5> QED
          BY <5>1, <5>2 DEF Support
      <4>4. Supports(n)' = Supports(n)
        <5>1. Supports(n) \subseteq Supports(n)'
          BY <4>2 DEF Supports
        <5>2. ASSUME NEW e \in Support', e[1] = n PROVE e \in Support
          BY <2>3, <4>1, <4>3, <5>2 DEF Supports
        <5> QED
          BY <5>1, <5>2 DEF Supports
      <4>5. n \in RevokedNodes
        BY <2>3, <4>1, <4>4 DEF KnowledgeInv, OrphansAreRevoked, Supports
      <4> QED
        BY <2>2, <4>5
    <3> QED
      BY <3>1, <3>2
  <2>4. OrphansAreRevoked'
    BY <2>3 DEF OrphansAreRevoked, Supports
  <2> QED
    BY <2>1, <2>4 DEF KnowledgeInv
<1> QED
  BY <1>2, <1>3

LEMMA KnowledgeInvariant == KnowledgeSpec => []KnowledgeInv
<1>1. KnowledgeInit => KnowledgeInv
  <2> SUFFICES ASSUME KnowledgeInit PROVE KnowledgeInv
    OBVIOUS
  <2>1. KnowledgeTypeOK
    BY DEF KnowledgeInit, KnowledgeTypeOK
  <2>2. OrphansAreRevoked
    BY DEF KnowledgeInit, OrphansAreRevoked, Support
  <2> QED
    BY <2>1, <2>2 DEF KnowledgeInv
<1> QED
  BY <1>1, KnowledgeStep, PTL DEF KnowledgeSpec

\* The statuses of knowledge, the revoked episodes, the active sources, the edges and the
\* evidence keep their types through every call of the service.
THEOREM KnowledgeTypeCorrect == KnowledgeSpec => []KnowledgeTypeOK
<1>1. KnowledgeInv => KnowledgeTypeOK
  BY DEF KnowledgeInv
<1> QED
  BY <1>1, KnowledgeInvariant, PTL

\* No sequence of proposals, updates, evidence, relations, retirements, reinstatements,
\* supersessions and revocations leaves in use, or brings back, memory of the project whose
\* every support is a revoked source.
THEOREM RevokedMemoryStaysOut == KnowledgeSpec => []OrphansAreRevoked
<1>1. KnowledgeInv => OrphansAreRevoked
  BY DEF KnowledgeInv
<1> QED
  BY <1>1, KnowledgeInvariant, PTL

\* A revocation that is not refused takes exactly the knowledge and the episodes that rest
\* on its source through some chain and stand on no other: the two bounded passes of
\* analyse compute the two closures.
THEOREM RevocationIsExact == KnowledgeSpec => CascadeIsExact
<1> DEFINE Exact == \A s \in activeSources \ activeSources' :
                      RevokedNodes' = RevokedNodes \cup
                        (((RestOn(s) \ StandsOn(activeSources \ {s})) \cap (Knowledge \cup Episodes)))
<1>1. KnowledgeInv /\ [KnowledgeNext]_knowledgeVars => [Exact]_knowledgeVars
  <2> SUFFICES ASSUME KnowledgeInv, KnowledgeNext, NEW s \in activeSources \ activeSources'
               PROVE  RevokedNodes' = RevokedNodes \cup
                        (((RestOn(s) \ StandsOn(activeSources \ {s})) \cap (Knowledge \cup Episodes)))
    OBVIOUS
  <2>1. KnowledgeTypeOK
    BY DEF KnowledgeInv
  <2>2. PICK t \in Sources : RevokeSource(t)
    BY <2>1, EveryCall
  <2>3. t = s
    BY <2>2 DEF RevokeSource
  <2> QED
    BY <2>1, <2>2, <2>3, RevocationRevokes
<1> QED
  BY <1>1, KnowledgeInvariant, PTL DEF KnowledgeSpec, CascadeIsExact

----------------------------------------------------------------------------
(* The lessons of a project. *)

Consolidated(c) == verdict[c] \in {"accepted", "deduplicated"}

\* A candidate that went to a lesson left it some episodes, with an edge to each of them,
\* and none of failed work if the lesson is positive.
EpisodesAreKept ==
    \A c \in Knowledge : Consolidated(c) =>
        /\ kept[c] # {} /\ kstatus[lessonOf[c]] # "none"
        /\ \A e \in kept[c] : <<lessonOf[c], e>> \in derived
        /\ Polarity[lessonOf[c]] = "positive" => \A e \in kept[c] : episode[e] \in Success

\* What carries a lesson by itself, and the sets of lessons its edges do not leave.
Ground == activeSources \cup (Episodes \ invalidEpisodes)

HoldsUp(C) ==
    \A e \in Support :
        e[1] \in Knowledge /\ e[2] \in Ground \cup (C \cap (Knowledge \ RevokedNodes)) => e[1] \in C

\* Only lessons have edges, and those that are not revoked have ground under them.
LessonsStand ==
    /\ \A e \in derived \cup evidence : e[1] \in Knowledge => kstatus[e[1]] # "none"
    /\ \A l \in Knowledge : kstatus[l] \notin {"none", "revoked"} => l \in OnGround

LessonInv ==
    /\ LessonTypeOK
    /\ DOMAIN episode = Episodes /\ kept \in [Knowledge -> SUBSET Episodes]
    /\ lessons \in Seq(Knowledge)
    /\ \A l \in Knowledge : kstatus[l] # "none" => verdict[l] = "accepted" /\ lessonOf[l] = l
    /\ EpisodesAreKept
    /\ LessonsStand

\* The lessons on ground are the least of those sets, and one of them.
LEMMA OnGroundIsLeast ==
    /\ OnGround = {l \in Knowledge : \A C \in SUBSET Knowledge : HoldsUp(C) => l \in C}
    /\ HoldsUp(OnGround)
<1>1. OnGround = {l \in Knowledge : \A C \in SUBSET Knowledge : HoldsUp(C) => l \in C}
  BY DEF OnGround, HoldsUp, Ground
<1>2. HoldsUp(OnGround)
  <2> SUFFICES ASSUME NEW e \in Support, e[1] \in Knowledge,
                      e[2] \in Ground \cup (OnGround \cap (Knowledge \ RevokedNodes)),
                      NEW C \in SUBSET Knowledge, HoldsUp(C)
               PROVE  e[1] \in C
    BY <1>1 DEF HoldsUp
  <2>1. OnGround \subseteq C
    BY <1>1
  <2> QED
    BY <2>1 DEF HoldsUp
<1> QED
  BY <1>1, <1>2

\* While edges and ground only grow and no lesson is revoked, a lesson keeps its ground.
LEMMA GroundGrows ==
    ASSUME Support \subseteq Support', Ground \subseteq Ground',
           \A l \in Knowledge : l \in RevokedNodes' => l \in RevokedNodes
    PROVE  OnGround \subseteq OnGround'
<1>1. OnGround' = {l \in Knowledge : \A C \in SUBSET Knowledge : HoldsUp(C)' => l \in C}
  BY DEF OnGround, HoldsUp, Ground
<1>2. ASSUME NEW C \in SUBSET Knowledge, HoldsUp(C)' PROVE OnGround \subseteq C
  <2>1. HoldsUp(C)
    BY <1>2 DEF HoldsUp
  <2> QED
    BY <2>1, OnGroundIsLeast
<1> QED
  BY <1>1, <1>2, OnGroundIsLeast

\* A call on lessons revokes a source, or moves a lesson that has a row, or gives it an edge.
LEMMA LifecycleCalls ==
    ASSUME KnowledgeTypeOK, LessonLifecycle
    PROVE  /\ KnowledgeNext
           /\ derived \subseteq derived' /\ evidence \subseteq evidence'
           /\ \A e \in (derived' \cup evidence') \ (derived \cup evidence) :
                 e[1] \in Knowledge => kstatus[e[1]] # "none"
           /\ \/ \E s \in Sources : RevokeSource(s)
              \/ /\ UNCHANGED <<invalidEpisodes, activeSources>>
                 /\ \/ kstatus' = kstatus
                    \/ \E k \in Knowledge, st \in Statuses \ {"revoked"} :
                          /\ kstatus[k] \notin {"none", "revoked"}
                          /\ kstatus' = [kstatus EXCEPT ![k] = st]
<1>1. KnowledgeNext
  BY LessonAssumption DEF LessonLifecycle, KnowledgeNext
<1>2. CASE \E k \in Knowledge, st \in Asked : Update(k, st)
  <2>1. PICK k \in Knowledge, st \in Asked : Update(k, st)
    BY <1>2
  <2>2. st \in Statuses \ {"revoked"} /\ kstatus[k] \notin {"none", "revoked"}
    BY <2>1, KnowledgeAssumption DEF Update, UpdateAllowed, Statuses, Proposable, NonUse
  <2> QED
    BY <1>1, <2>1, <2>2 DEF Update, SetStatus
<1>3. CASE \E k \in Knowledge : Retire(k) \/ Reinstate(k) \/ Challenge(k)
  <2>1. PICK k \in Knowledge : Retire(k) \/ Reinstate(k) \/ Challenge(k)
    BY <1>3
  <2>2. kstatus[k] \notin {"none", "revoked"} /\ UNCHANGED <<invalidEpisodes, activeSources, derived, evidence>>
    BY <2>1, PriorsAreLive DEF Retire, Reinstate, Reinstatable, Challenge, LivePriors, NonUse
  <2>3. {"retired", "challenged"} \cup LivePriors \subseteq Statuses \ {"revoked"}
    BY PriorsAreLive DEF Statuses, Proposable, NonUse
  <2>4. \E st \in {"retired", "challenged"} \cup LivePriors : kstatus' = [kstatus EXCEPT ![k] = st]
    BY <2>1 DEF Retire, Reinstate, Challenge, SetStatus
  <2> QED
    BY <1>1, <2>2, <2>3, <2>4
<1>4. CASE \E old, new \in Knowledge : Supersede(old, new)
  <2>1. PICK old \in Knowledge, new \in Knowledge : Supersede(old, new)
    BY <1>4
  <2>2. "superseded" \in Statuses \ {"revoked"} /\ kstatus[old] \notin {"none", "revoked"}
    BY <2>1 DEF Supersede, Supersedable, Statuses, NonUse
  <2> QED
    BY <1>1, <2>1, <2>2 DEF Supersede, SetStatus
<1>5. CASE \E l \in Knowledge, s \in Sources \cup {NoSource} : AttachEvidence(l, s)
  <2>1. PICK l \in Knowledge, s \in Sources \cup {NoSource} : AttachEvidence(l, s)
    BY <1>5
  <2> QED
    BY <1>1, <2>1 DEF AttachEvidence
<1>6. CASE \E e \in Related : Relate(e[1], e[2])
  <2>1. PICK from, to : Relate(from, to)
    BY <1>6
  <2> QED
    BY <1>1, <2>1 DEF Relate
<1>7. CASE \E s \in Sources : RevokeSource(s)
  BY <1>1, <1>7 DEF RevokeSource
<1> QED
  BY <1>2, <1>3, <1>4, <1>5, <1>6, <1>7 DEF LessonLifecycle

\* StandsOn is itself closed under the edges.
LEMMA StandsOnIsClosed ==
    ASSUME KnowledgeTypeOK, NEW active, NEW e \in Support,
           e[2] \in (active \ Company) \cup (StandsOn(active) \cap Carriers)
    PROVE  e[1] \in StandsOn(active)
<1>1. e[1] \in Nodes
  BY SupportIsTyped
<1> SUFFICES ASSUME NEW C \in SUBSET Nodes,
                    \A f \in Support : f[2] \in (active \ Company) \cup (C \cap Carriers) => f[1] \in C
             PROVE  e[1] \in C
  BY <1>1 DEF StandsOn
<1>2. StandsOn(active) \subseteq C
  BY DEF StandsOn
<1> QED
  BY <1>2

\* A revocation leaves ground under every lesson it does not take, and takes no candidate
\* that never became a lesson.
LEMMA RevocationTakesLessons ==
    ASSUME LessonInv, NEW s \in Sources, RevokeSource(s)
    PROVE  \A k \in Knowledge :
              /\ kstatus'[k] = "none" <=> kstatus[k] = "none"
              /\ kstatus'[k] \notin {"none", "revoked"} => k \in OnGround'
<1> DEFINE left == activeSources \ {s}
           Stand == StandsOn(left)
<1>1. KnowledgeTypeOK
  BY DEF LessonInv, LessonTypeOK
<1>2. Ungrounded(s) = (RestOn(s) \ Stand) \cap (Knowledge \cup Episodes)
  BY <1>1, CascadeTakes
<1>3. /\ \A k \in Knowledge : kstatus'[k] = IF k \in Ungrounded(s) THEN "revoked" ELSE kstatus[k]
      /\ invalidEpisodes' = invalidEpisodes \cup (Ungrounded(s) \cap Episodes)
      /\ activeSources' = left
      /\ s \in activeSources \ Company
      /\ Support' = Support
  BY DEF RevokeSource, Support
<1>4. /\ \A k \in Knowledge : k \in RevokedNodes' <=> (k \in RevokedNodes \/ k \in Ungrounded(s))
      /\ Ground' = left \cup ((Episodes \ invalidEpisodes) \ Ungrounded(s))
  BY <1>3, KnowledgeAssumption DEF RevokedNodes, Ground
<1>5. ASSUME NEW e \in Support, e[1] \in Knowledge
      PROVE  /\ e \in derived \cup evidence
             /\ e[2] \in Knowledge \cup Episodes \cup Sources
  <2>1. e \in derived \cup evidence /\ e \in Support
    BY <1>1, <1>5, SupportIsTyped
  <2>2. CASE e \in derived
    BY <1>1, <1>5, <2>2, KnowledgeAssumption DEF KnowledgeTypeOK
  <2>3. CASE e \in evidence /\ e \notin derived
    <3>1. e[2] # NoSource
      BY <1>5, <2>3, KnowledgeAssumption DEF Support
    <3> QED
      BY <1>1, <2>3, <3>1, KnowledgeAssumption DEF KnowledgeTypeOK
  <2> QED
    BY <2>1, <2>2, <2>3
<1>6. /\ Knowledge \subseteq Nodes \ Company /\ s \in Nodes /\ s \notin Knowledge
      /\ Sources \cap (Knowledge \cup Episodes) = {} /\ Knowledge \cap Episodes = {}
  BY KnowledgeAssumption, LessonAssumption DEF Nodes
<1>7. ASSUME NEW e \in Support, e[1] \in Knowledge, e[2] \in RestOn(s) \cup {s}
      PROVE  e[1] \in RestOn(s)
  <2>1. e[2] \notin Company
    BY <1>3, <1>7 DEF RestOn
  <2>2. ASSUME NEW C \in SUBSET Nodes, s \in C,
               \A f \in Support : f[2] \in C \ Company => f[1] \in C
        PROVE  e[1] \in C
    <3>1. e[2] \in C
      BY <1>7, <2>2 DEF RestOn
    <3> QED
      BY <2>1, <2>2, <3>1
  <2> QED
    BY <1>6, <1>7, <2>2 DEF RestOn
<1>8. PICK after : after = OnGround'
  OBVIOUS
<1>9. /\ after \subseteq Knowledge
      /\ \A e \in Support :
            e[1] \in Knowledge /\ e[2] \in Ground' \cup (after \cap (Knowledge \ RevokedNodes'))
            => e[1] \in after
  <2>1. OnGround' \subseteq Knowledge
    BY DEF OnGround
  <2>2. HoldsUp(OnGround)'
    BY OnGroundIsLeast, PTL
  <2> QED
    BY <1>3, <1>8, <2>1, <2>2 DEF HoldsUp
<1> HIDE DEF left, Stand
\* whatever had ground under it and rests on nothing of the source keeps it
<1>10. ASSUME NEW k \in OnGround, k \notin RestOn(s) PROVE k \in after
  <2> DEFINE C == {n \in Knowledge : n \in RestOn(s) \/ n \in after}
  <2>1. ASSUME NEW e \in Support, e[1] \in Knowledge,
               e[2] \in Ground \cup (C \cap (Knowledge \ RevokedNodes)),
               e[2] \notin RestOn(s) \cup {s}
        PROVE  e[1] \in after
    <3>1. e[2] \notin Ungrounded(s)
      BY <1>2, <2>1
    <3>2. CASE e[2] \in Ground
      <4>1. e[2] \in Ground'
        BY <1>4, <2>1, <3>1, <3>2 DEF Ground, left
      <4> QED
        BY <1>9, <2>1, <4>1
    <3>3. CASE e[2] \in C \cap (Knowledge \ RevokedNodes)
      <4>1. e[2] \in after \cap (Knowledge \ RevokedNodes')
        BY <1>4, <2>1, <3>1, <3>3
      <4> QED
        BY <1>9, <2>1, <4>1
    <3> QED
      BY <2>1, <3>2, <3>3
  <2>2. HoldsUp(C) /\ C \in SUBSET Knowledge
    BY <1>7, <2>1 DEF HoldsUp
  <2> HIDE DEF C
  <2>3. k \in C
    BY <2>2, <1>10, OnGroundIsLeast
  <2> QED
    BY <1>10, <2>3 DEF C
\* what stands on the other sources has ground under it
<1>11. ASSUME NEW k \in Stand, k \in Knowledge PROVE k \in after
  <2> DEFINE C == {n \in Stand : n \in Knowledge => n \in after}
  <2>1. ASSUME NEW f \in Support, f[2] \in (left \ Company) \cup (C \cap Carriers)
        PROVE  f[1] \in C
    <3>1. f[1] \in Stand
      BY <1>1, <2>1, StandsOnIsClosed DEF Stand
    <3>2. ASSUME f[1] \in Knowledge PROVE f[1] \in after
      <4>1. f[2] \in Knowledge \cup Episodes \cup Sources
        BY <1>5, <3>2
      <4>2. CASE f[2] \in left
        BY <1>4, <1>9, <3>2, <4>2
      <4>3. CASE f[2] \in C \cap Carriers
        <5>1. f[2] \notin Ungrounded(s)
          BY <1>2, <4>3
        <5>2. CASE f[2] \in Knowledge
          <6>1. f[2] \notin RevokedNodes
            BY <1>1, <1>6, <4>3, <5>2, KnowledgeAssumption DEF Carriers, RevokedNodes, KnowledgeTypeOK
          <6>2. f[2] \in after \cap (Knowledge \ RevokedNodes')
            BY <1>4, <4>3, <5>1, <5>2, <6>1
          <6> QED
            BY <1>9, <3>2, <6>2
        <5>3. CASE f[2] \in Episodes
          <6>1. f[2] \in Ground'
            BY <1>4, <1>6, <4>3, <5>1, <5>3, KnowledgeAssumption DEF Carriers
          <6> QED
            BY <1>9, <3>2, <6>1
        <5>4. f[2] \notin Sources
          BY <4>3, KnowledgeAssumption DEF Carriers
        <5> QED
          BY <4>1, <5>2, <5>3, <5>4
      <4> QED
        BY <2>1, <4>2, <4>3
    <3> QED
      BY <3>1, <3>2
  <2>2. C \in SUBSET Nodes
    BY DEF Stand, StandsOn
  <2> HIDE DEF C
  <2>3. k \in C
    BY <1>11, <2>1, <2>2 DEF Stand, StandsOn
  <2> QED
    BY <1>11, <2>3 DEF C
<1>12. ASSUME NEW k \in Knowledge, k \in Ungrounded(s) PROVE kstatus[k] # "none"
  <2>1. \E e \in Support : e[1] = k
    <3>1. SUFFICES ASSUME \A e \in Support : e[1] # k PROVE FALSE
      OBVIOUS
    <3> DEFINE C == Nodes \ {k}
    <3>2. s \in C /\ C \in SUBSET Nodes /\ k \notin C
      BY <1>6
    <3>3. \A e \in Support : e[2] \in C \ Company => e[1] \in C
      BY <1>1, <3>1, SupportIsTyped
    <3> HIDE DEF C
    <3> QED
      BY <1>2, <1>12, <3>2, <3>3 DEF RestOn
  <2> QED
    BY <1>5, <2>1 DEF LessonInv, LessonsStand
<1>13. ASSUME NEW k \in Knowledge, kstatus'[k] \notin {"none", "revoked"} PROVE k \in after
  <2>1. k \notin Ungrounded(s) /\ k \in OnGround
    BY <1>3, <1>13 DEF LessonInv, LessonsStand
  <2> QED
    BY <1>2, <1>10, <1>11, <2>1
<1> QED
  BY <1>3, <1>8, <1>12, <1>13

LEMMA CaptureStep ==
    ASSUME LessonInv, NEW e \in Episodes, Capture(e)
    PROVE  LessonInv'
<1> DEFINE edges == {d \in Derivable : d[1] = e}
<1>1. /\ episode[e] = "none" /\ derived' = derived \cup edges
      /\ \E o \in Outcomes(e) : episode' = [episode EXCEPT ![e] = o]
      /\ UNCHANGED <<kstatus, before, invalidEpisodes, activeSources, evidence,
                     verdict, lessonOf, kept, lessons>>
  BY DEF Capture
<1>2. KnowledgeTypeOK'
  BY <1>1 DEF LessonInv, LessonTypeOK, KnowledgeTypeOK
<1>3. DOMAIN episode' = Episodes /\ \A d \in Episodes \ {e} : episode'[d] = episode[d]
  BY <1>1 DEF LessonInv
<1>4. LessonTypeOK'
  <2>1. \A d \in Episodes : episode'[d] \in Outcomes(d) \cup {"none"}
    BY <1>1, <1>3 DEF LessonInv, LessonTypeOK
  <2> QED
    BY <1>1, <1>2, <2>1 DEF LessonInv, LessonTypeOK, Outcomes
<1>5. EpisodesAreKept'
  <2> SUFFICES ASSUME NEW c \in Knowledge, Consolidated(c)'
               PROVE  (/\ kept[c] # {} /\ kstatus[lessonOf[c]] # "none"
                       /\ \A d \in kept[c] : <<lessonOf[c], d>> \in derived
                       /\ Polarity[lessonOf[c]] = "positive" => \A d \in kept[c] : episode[d] \in Success)'
    BY DEF EpisodesAreKept
  <2>1. Consolidated(c)
    BY <1>1 DEF Consolidated
  <2>2. Polarity[lessonOf[c]] = "positive" => e \notin kept[c]
    BY <1>1, <2>1 DEF LessonInv, EpisodesAreKept, Success
  <2>3. kept[c] \subseteq Episodes
    BY DEF LessonInv
  <2> QED
    BY <1>1, <1>3, <2>1, <2>2, <2>3 DEF LessonInv, EpisodesAreKept
<1>6. LessonsStand'
  <2>1. OnGround \subseteq OnGround'
    <3>1. Support \subseteq Support' /\ Ground' = Ground /\ RevokedNodes' = RevokedNodes
      BY <1>1 DEF Support, Ground, RevokedNodes
    <3> QED
      BY <3>1, GroundGrows
  <2>2. \A d \in edges : d[1] \notin Knowledge
    BY KnowledgeAssumption
  <2> QED
    BY <1>1, <2>1, <2>2 DEF LessonInv, LessonsStand
<1> QED
  BY <1>1, <1>3, <1>4, <1>5, <1>6 DEF LessonInv

\* The lesson a candidate is compared with is the first in use that says the same.
LEMMA OldestIsOneOfThem ==
    ASSUME LessonInv, NEW c, Saying(c) # {}
    PROVE  /\ Oldest(Saying(c)) \in Knowledge
           /\ kstatus[Oldest(Saying(c))] # "none"
           /\ Comparable(Oldest(Saying(c)))
<1>1. lessons \in Seq(Knowledge)
  BY DEF LessonInv
<1>2. Saying(c) \in SUBSET Nat
  BY <1>1 DEF Saying
<1>3. \E i \in Saying(c) : \A j \in Saying(c) : i <= j
  BY <1>2, HasLeast
<1>4. PICK i \in Saying(c) : Oldest(Saying(c)) = lessons[i]
  BY <1>3 DEF Oldest
<1>5. i \in DOMAIN lessons /\ Comparable(lessons[i])
  BY DEF Saying
<1>6. lessons[i] \in {l \in Knowledge : kstatus[l] # "none"}
  BY <1>5 DEF LessonInv, LessonTypeOK
<1> QED
  BY <1>4, <1>5, <1>6

LEMMA ConsolidateStep ==
    ASSUME LessonInv, NEW c \in Knowledge, Consolidate(c)
    PROVE  LessonInv'
<1>1. /\ verdict[c] = "none" /\ Eligible(c) # {} /\ Verified(c, Eligible(c))
      /\ verdict' = [verdict EXCEPT ![c] = Judge(c)]
      /\ UNCHANGED <<before, invalidEpisodes, activeSources, evidence, episode>>
  BY DEF Consolidate
<1>2. KnowledgeTypeOK /\ kstatus[c] = "none" /\ ~Consolidated(c)
  BY <1>1 DEF LessonInv, LessonTypeOK, Consolidated
<1>3. Eligible(c) \subseteq Episodes /\ Eligible(c) \subseteq Cited[c]
  BY LessonAssumption DEF Eligible
<1>4. CASE Judge(c) = "quarantined"
  <2>1. UNCHANGED <<kstatus, lessonOf, kept, derived, lessons>>
    BY <1>4 DEF Consolidate
  <2>2. \A d \in Knowledge : Consolidated(d)' <=> Consolidated(d)
    BY <1>1, <1>2, <1>4 DEF Consolidated, LessonInv, LessonTypeOK
  <2>3. LessonTypeOK'
    BY <1>1, <1>4, <2>1 DEF LessonInv, LessonTypeOK, KnowledgeTypeOK
  <2>4. EpisodesAreKept'
    BY <1>1, <2>1, <2>2 DEF LessonInv, EpisodesAreKept
  <2>5. OnGround \subseteq OnGround'
    <3>1. Support' = Support /\ Ground' = Ground /\ RevokedNodes' = RevokedNodes
      BY <1>1, <2>1 DEF Support, Ground, RevokedNodes
    <3> QED
      BY <3>1, GroundGrows
  <2>6. LessonsStand'
    BY <1>1, <2>1, <2>5 DEF LessonInv, LessonsStand
  <2>7. \A l \in Knowledge : kstatus[l] # "none" => verdict'[l] = verdict[l]
    BY <1>1, <1>2 DEF LessonInv, LessonTypeOK
  <2> QED
    BY <1>1, <2>1, <2>3, <2>4, <2>6, <2>7 DEF LessonInv
<1>5. CASE Judge(c) \in {"accepted", "deduplicated"}
  <2>0. PICK to : to = IF Judge(c) = "deduplicated" THEN Oldest(Saying(c)) ELSE c
    OBVIOUS
  <2>1. /\ lessonOf' = [lessonOf EXCEPT ![c] = to]
        /\ kept' = [kept EXCEPT ![c] = Eligible(c)]
        /\ derived' = derived \cup {<<to, e>> : e \in Eligible(c)}
    BY <1>5, <2>0 DEF Consolidate
  <2>2. /\ Judge(c) = "accepted" =>
              kstatus' = [kstatus EXCEPT ![c] = "proposed"] /\ lessons' = Append(lessons, c)
        /\ Judge(c) = "deduplicated" => UNCHANGED <<kstatus, lessons>>
    BY DEF Consolidate
  <2>3. /\ to \in Knowledge
        /\ Judge(c) = "accepted" => to = c
        /\ Judge(c) = "deduplicated" => kstatus[to] # "none" /\ Polarity[to] = Polarity[c]
    <3>1. CASE Judge(c) = "deduplicated"
      <4>1. Saying(c) # {} /\ Duplicates(Oldest(Saying(c)), c)
        BY <3>1 DEF Judge
      <4> QED
        BY <2>0, <3>1, <4>1, OldestIsOneOfThem DEF Duplicates
    <3> QED
      BY <1>5, <2>0, <3>1
  <2>4. kstatus'[to] # "none"
    BY <1>2, <1>5, <2>2, <2>3 DEF KnowledgeTypeOK
  <2>5. /\ \A l \in Knowledge : kstatus[l] # "none" => l # c /\ kstatus'[l] = kstatus[l]
        /\ \A l \in Knowledge \ {c} : kstatus'[l] = kstatus[l]
        /\ kstatus'[c] \in {"none", "proposed"}
        /\ kstatus'[c] = "proposed" <=> Judge(c) = "accepted"
    BY <1>2, <1>5, <2>2 DEF KnowledgeTypeOK
  <2>6. /\ Consolidated(c)' /\ lessonOf'[c] = to /\ kept'[c] = Eligible(c)
        /\ verdict'[c] = Judge(c)
        /\ \A d \in Knowledge \ {c} : /\ Consolidated(d)' <=> Consolidated(d)
                                      /\ lessonOf'[d] = lessonOf[d] /\ kept'[d] = kept[d]
                                      /\ verdict'[d] = verdict[d]
    BY <1>1, <1>5, <2>1, <2>3 DEF Consolidated, LessonInv, LessonTypeOK
  <2>7. /\ OnGround \subseteq OnGround'
        /\ to \in OnGround'
    <3>1. /\ Support \subseteq Support' /\ Ground' = Ground
          /\ \A l \in Knowledge : l \in RevokedNodes' => l \in RevokedNodes
      <4>1. Support \subseteq Support' /\ Ground' = Ground
        BY <1>1, <2>1 DEF Support, Ground
      <4>2. \A l \in Knowledge : kstatus'[l] = "revoked" => kstatus[l] = "revoked"
        BY <2>5
      <4> QED
        BY <1>1, <4>1, <4>2 DEF RevokedNodes
    <3>2. OnGround \subseteq OnGround'
      BY <3>1, GroundGrows
    <3>3. PICK e \in Eligible(c) : e \in Ground
      BY <1>1, <1>3 DEF Eligible, Ground
    <3>4. <<to, e>> \in Support' /\ e \in Ground'
      BY <2>1, <3>1, <3>3, <1>3, KnowledgeAssumption DEF Support
    <3>5. HoldsUp(OnGround)'
      BY OnGroundIsLeast, PTL
    <3>6. to \in OnGround'
      BY <2>3, <3>4, <3>5 DEF HoldsUp
    <3> QED
      BY <3>2, <3>6
  <2>8. LessonTypeOK'
    <3>1. KnowledgeTypeOK'
      <4>1. {<<to, e>> : e \in Eligible(c)} \subseteq Derivable
        BY <1>3, <2>3, LessonAssumption
      <4>2. kstatus' \in [Knowledge -> Statuses \cup {"none"}]
        BY <1>2, <1>5, <2>2 DEF KnowledgeTypeOK, Statuses, Proposable
      <4> QED
        BY <1>1, <1>2, <2>1, <4>1, <4>2 DEF KnowledgeTypeOK
    <3>2. verdict' \in [Knowledge -> {"none", "accepted", "deduplicated", "quarantined"}]
      BY <1>1, <1>5 DEF LessonInv, LessonTypeOK
    <3>3. lessonOf' \in [Knowledge -> Knowledge]
      BY <2>1, <2>3 DEF LessonInv, LessonTypeOK
    <3>4. \A d \in Knowledge : kept'[d] \subseteq Cited[d]
      BY <1>3, <2>6 DEF LessonInv, LessonTypeOK
    <3>5. {lessons'[i] : i \in DOMAIN lessons'} = {d \in Knowledge : kstatus'[d] # "none"}
      <4>1. CASE Judge(c) = "accepted"
        <5>1. lessons \in Seq(Knowledge) /\ lessons' = Append(lessons, c)
          BY <2>2, <4>1 DEF LessonInv
        <5>2. /\ DOMAIN lessons' = DOMAIN lessons \cup {Len(lessons) + 1}
              /\ lessons'[Len(lessons) + 1] = c
              /\ \A i \in DOMAIN lessons : lessons'[i] = lessons[i]
          BY <5>1
        <5>3. {lessons'[i] : i \in DOMAIN lessons'} = {lessons[i] : i \in DOMAIN lessons} \cup {c}
          BY <5>2
        <5>4. {d \in Knowledge : kstatus'[d] # "none"} = {d \in Knowledge : kstatus[d] # "none"} \cup {c}
          BY <2>5, <4>1
        <5> QED
          BY <5>3, <5>4 DEF LessonInv, LessonTypeOK
      <4>2. CASE Judge(c) = "deduplicated"
        BY <2>2, <4>2 DEF LessonInv, LessonTypeOK
      <4> QED
        BY <1>5, <4>1, <4>2
    <3>6. \A e \in Episodes : episode'[e] \in Outcomes(e) \cup {"none"}
      BY <1>1 DEF LessonInv, LessonTypeOK
    <3> QED
      BY <3>1, <3>2, <3>3, <3>4, <3>5, <3>6 DEF LessonTypeOK, Outcomes
  <2>9. EpisodesAreKept'
    <3> SUFFICES ASSUME NEW d \in Knowledge, Consolidated(d)'
                 PROVE  (/\ kept[d] # {} /\ kstatus[lessonOf[d]] # "none"
                         /\ \A e \in kept[d] : <<lessonOf[d], e>> \in derived
                         /\ Polarity[lessonOf[d]] = "positive" => \A e \in kept[d] : episode[e] \in Success)'
      BY DEF EpisodesAreKept
    <3>1. CASE d = c
      <4>1. \A e \in Eligible(c) : <<to, e>> \in derived'
        BY <2>1
      <4>2. Polarity[to] = Polarity[c]
        BY <1>5, <2>3
      <4>3. Polarity[c] = "positive" => \A e \in Eligible(c) : episode[e] \in Success
        BY <1>1 DEF Verified
      <4> QED
        BY <1>1, <2>4, <2>6, <3>1, <4>1, <4>2, <4>3
    <3>2. CASE d # c
      <4>1. /\ kept[d] # {} /\ kstatus[lessonOf[d]] # "none"
            /\ \A e \in kept[d] : <<lessonOf[d], e>> \in derived
            /\ Polarity[lessonOf[d]] = "positive" => \A e \in kept[d] : episode[e] \in Success
        BY <2>6, <3>2 DEF LessonInv, EpisodesAreKept
      <4>2. lessonOf[d] \in Knowledge
        BY DEF LessonInv, LessonTypeOK
      <4> QED
        BY <1>1, <2>1, <2>5, <2>6, <3>2, <4>1, <4>2
    <3> QED
      BY <3>1, <3>2
  <2>10. LessonsStand'
    <3>1. ASSUME NEW e \in derived' \cup evidence', e[1] \in Knowledge PROVE kstatus'[e[1]] # "none"
      <4>1. CASE e \in derived \cup evidence
        <5>1. kstatus[e[1]] # "none"
          BY <3>1, <4>1 DEF LessonInv, LessonsStand
        <5> QED
          BY <2>5, <3>1, <5>1
      <4>2. CASE e \notin derived \cup evidence
        <5>1. PICK x \in Eligible(c) : e = <<to, x>>
          BY <1>1, <2>1, <4>2
        <5> QED
          BY <2>4, <5>1
      <4> QED
        BY <4>1, <4>2
    <3>2. ASSUME NEW l \in Knowledge, kstatus'[l] \notin {"none", "revoked"}
          PROVE  l \in OnGround'
      <4>1. CASE l = c
        <5>1. to = c
          BY <2>3, <2>5, <3>2, <4>1
        <5> QED
          BY <2>7, <4>1, <5>1
      <4>2. CASE l # c
        <5>1. l \in OnGround
          BY <2>5, <3>2, <4>2 DEF LessonInv, LessonsStand
        <5> QED
          BY <2>7, <5>1
      <4> QED
        BY <4>1, <4>2
    <3> QED
      BY <3>1, <3>2 DEF LessonsStand
  <2>11. \A l \in Knowledge : kstatus'[l] # "none" => verdict'[l] = "accepted" /\ lessonOf'[l] = l
    BY <2>3, <2>5, <2>6 DEF LessonInv
  <2>12. kept' \in [Knowledge -> SUBSET Episodes] /\ lessons' \in Seq(Knowledge)
    BY <1>3, <1>5, <2>1, <2>2 DEF LessonInv
  <2> QED
    BY <1>1, <2>8, <2>9, <2>10, <2>11, <2>12 DEF LessonInv
<1> QED
  BY <1>4, <1>5 DEF Judge

LEMMA LifecycleStep ==
    ASSUME LessonInv, LessonLifecycle
    PROVE  LessonInv'
<1>1. KnowledgeTypeOK /\ UNCHANGED <<episode, verdict, lessonOf, kept, lessons>>
  BY DEF LessonInv, LessonTypeOK, LessonLifecycle
<1>2. /\ KnowledgeNext /\ derived \subseteq derived' /\ evidence \subseteq evidence'
      /\ \A e \in (derived' \cup evidence') \ (derived \cup evidence) :
            e[1] \in Knowledge => kstatus[e[1]] # "none"
  BY <1>1, LifecycleCalls
<1>3. KnowledgeTypeOK'
  BY <1>1, <1>2, KnowledgeTypeStep
<1>4. /\ \A l \in Knowledge : kstatus'[l] = "none" <=> kstatus[l] = "none"
      /\ \A l \in Knowledge : kstatus'[l] \notin {"none", "revoked"} => l \in OnGround'
  <2>1. CASE \E s \in Sources : RevokeSource(s)
    BY <2>1, RevocationTakesLessons
  <2>2. CASE ~ \E s \in Sources : RevokeSource(s)
    <3>1. /\ UNCHANGED <<invalidEpisodes, activeSources>>
          /\ \/ kstatus' = kstatus
             \/ \E k \in Knowledge, st \in Statuses \ {"revoked"} :
                   kstatus[k] \notin {"none", "revoked"} /\ kstatus' = [kstatus EXCEPT ![k] = st]
      BY <1>1, <2>2, LifecycleCalls
    <3>2. "none" \notin Statuses
      BY DEF Statuses, Proposable
    <3>3. \A l \in Knowledge : /\ kstatus'[l] = "none" <=> kstatus[l] = "none"
                               /\ kstatus'[l] = "revoked" <=> kstatus[l] = "revoked"
      BY <1>1, <3>1, <3>2 DEF KnowledgeTypeOK
    <3>4. OnGround \subseteq OnGround'
      <4>1. Support \subseteq Support' /\ Ground' = Ground
        BY <1>2, <3>1 DEF Support, Ground
      <4>2. \A l \in Knowledge : l \in RevokedNodes' => l \in RevokedNodes
        BY <3>1, <3>3 DEF RevokedNodes
      <4> QED
        BY <4>1, <4>2, GroundGrows
    <3> QED
      BY <3>3, <3>4 DEF LessonInv, LessonsStand
  <2> QED
    BY <2>1, <2>2
<1>5. LessonsStand'
  <2>1. ASSUME NEW e \in derived' \cup evidence', e[1] \in Knowledge PROVE kstatus'[e[1]] # "none"
    <3>1. kstatus[e[1]] # "none"
      BY <1>2, <2>1 DEF LessonInv, LessonsStand
    <3> QED
      BY <1>4, <2>1, <3>1
  <2> QED
    BY <1>4, <2>1 DEF LessonsStand
<1>6. EpisodesAreKept'
  <2>1. \A c \in Knowledge : lessonOf[c] \in Knowledge /\ (Consolidated(c)' <=> Consolidated(c))
    BY <1>1 DEF LessonInv, LessonTypeOK, Consolidated
  <2> QED
    BY <1>1, <1>2, <1>4, <2>1 DEF LessonInv, EpisodesAreKept
<1>7. LessonTypeOK'
  BY <1>1, <1>3, <1>4 DEF LessonInv, LessonTypeOK, Outcomes
<1> QED
  BY <1>1, <1>4, <1>5, <1>6, <1>7 DEF LessonInv

LEMMA LessonInvariant == LessonSpec => []LessonInv
<1>1. LessonInit => LessonInv
  <2> SUFFICES ASSUME LessonInit PROVE LessonInv
    OBVIOUS
  <2>1. KnowledgeTypeOK
    BY DEF LessonInit, KnowledgeInit, KnowledgeTypeOK
  <2>2. LessonTypeOK
    BY <2>1 DEF LessonInit, KnowledgeInit, LessonTypeOK
  <2>3. EpisodesAreKept /\ LessonsStand
    BY DEF LessonInit, KnowledgeInit, EpisodesAreKept, Consolidated, LessonsStand
  <2>4. lessons \in Seq(Knowledge)
    BY DEF LessonInit
  <2> QED
    BY <2>2, <2>3, <2>4 DEF LessonInv, LessonInit, KnowledgeInit
<1>2. LessonInv /\ [LessonNext]_lessonVars => LessonInv'
  <2> SUFFICES ASSUME LessonInv, [LessonNext]_lessonVars PROVE LessonInv'
    OBVIOUS
  <2>1. CASE UNCHANGED lessonVars
    <3>1. UNCHANGED <<kstatus, before, invalidEpisodes, activeSources, derived, evidence>>
      BY <2>1 DEF lessonVars, knowledgeVars
    <3>2. UNCHANGED <<episode, verdict, lessonOf, kept, lessons>>
      BY <2>1 DEF lessonVars
    <3>3. KnowledgeTypeOK'
      BY <3>1 DEF LessonInv, LessonTypeOK, KnowledgeTypeOK
    <3>4. LessonTypeOK'
      BY <3>1, <3>2, <3>3 DEF LessonInv, LessonTypeOK, Outcomes
    <3>5. EpisodesAreKept'
      BY <3>1, <3>2 DEF LessonInv, EpisodesAreKept, Consolidated
    <3>6. LessonsStand'
      <4>1. Support' = Support /\ Ground' = Ground /\ RevokedNodes' = RevokedNodes
        BY <3>1 DEF Support, Ground, RevokedNodes
      <4>2. OnGround \subseteq OnGround'
        BY <4>1, GroundGrows
      <4> QED
        BY <3>1, <4>2 DEF LessonInv, LessonsStand
    <3> QED
      BY <3>1, <3>2, <3>4, <3>5, <3>6 DEF LessonInv
  <2>2. CASE \E e \in Episodes : Capture(e)
    BY <2>2, CaptureStep
  <2>3. CASE \E c \in Knowledge : Consolidate(c)
    BY <2>3, ConsolidateStep
  <2>4. CASE LessonLifecycle
    BY <2>4, LifecycleStep
  <2> QED
    BY <2>1, <2>2, <2>3, <2>4 DEF LessonNext
<1> QED
  BY <1>1, <1>2, PTL DEF LessonSpec

\* Every verdict is one of the ledger's words, what a lesson keeps is what its candidate
\* cited, and the rows of lessons are those that were accepted.
THEOREM LessonTypeCorrect == LessonSpec => []LessonTypeOK
<1>1. LessonInv => LessonTypeOK
  BY DEF LessonInv
<1> QED
  BY <1>1, LessonInvariant, PTL

\* A lesson in use still has ground under it, through its own episodes or through what was
\* attached or related since, and if it is positive no failed work was ever counted as its
\* support, whatever was deduplicated into it, retired, reinstated or revoked since.
THEOREM LessonsStayEarned == LessonSpec => []LessonsAreEarned
<1>1. LessonInv => LessonsAreEarned
  <2> SUFFICES ASSUME LessonInv, NEW l \in InUse PROVE
                 /\ l \in OnGround
                 /\ Polarity[l] = "positive" => \A e \in RestsOn(l) : episode[e] \in Success
    BY DEF LessonsAreEarned
  <2>1. l \in Knowledge /\ kstatus[l] \notin {"none", "revoked"}
    BY DEF InUse, Comparable, NonUse
  <2> QED
    BY <2>1 DEF LessonInv, LessonsStand, EpisodesAreKept, RestsOn, Consolidated
<1> QED
  BY <1>1, LessonInvariant, PTL
=============================================================================
