--------------------------- MODULE MCCodexHandoff ---------------------------
(* The instances of CodexHandoff for TLC. *)
EXTENDS CodexHandoff

CONSTANTS a, Outside

ScopeOfHandoff == [h \in Handoff |-> Path \ Outside]
RequiredOfHandoff == [h \in Handoff |-> {a}]
=============================================================================
