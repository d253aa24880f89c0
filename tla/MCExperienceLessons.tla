------------------------- MODULE MCExperienceLessons -------------------------
(***************************************************************************)
(* Two tasks, each on a source of its own, the first with an artifact too; *)
(* four candidates of which three say the same, two positive ones that     *)
(* share a task and a negative one of the second; and another statement,   *)
(* which meets the cap of open proposals.  Callers cite the second source  *)
(* for a lesson of the first task, and relate it and the other statement   *)
(* to each other.                                                          *)
(***************************************************************************)
EXTENDS ExperienceLessons

CONSTANTS t1, t2, a1, s1, s2, c1, c2, c3, c4

lType == [k \in Knowledge |-> "fact"]
lSourceOf == [a \in Artifacts |-> s1]
lRelated == {<<c1, c4>>, <<c4, c1>>}
lDerivable == {<<t1, a1>>, <<t1, s1>>, <<t2, s2>>} \cup lRelated \cup (Knowledge \X Episodes)
lCitable == {<<c1, s2>>}
lStatement == [c \in Knowledge |-> IF c = c4 THEN "other" ELSE "same"]
lPolarity == [c \in Knowledge |-> IF c = c2 THEN "negative" ELSE "positive"]
lTrigger == [c \in Knowledge |-> IF c = c2 THEN "failure_gotcha"
                                                   ELSE "validated_novel"]
lCited == [c \in Knowledge |-> CASE c = c1 -> {t1}
                                 [] c = c3 -> {t1, t2}
                                 [] OTHER  -> {t2}]
=============================================================================
