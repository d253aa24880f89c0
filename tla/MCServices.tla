----------------------------- MODULE MCServices -----------------------------
(***************************************************************************)
(* Instances of the services that share no state with each other here.     *)
(* A behaviour is of one of them: part names it, its variables move and    *)
(* those of the others stay as they began, so one run checks them all and  *)
(* its states are the sum of theirs.                                       *)
(***************************************************************************)
EXTENDS KnowledgeLifecycle, SessionContext, ReplyGuard, UserInputs, Procedures,
        Credentials, GovernanceTxn, TLC

CONSTANTS k1, k2, e1, a1, s0, s1, s2

VARIABLE part

----------------------------------------------------------------------------
(* Knowledge: an item on another, on an episode, on an artifact of a source; *)
(* evidence of a second source and of one of the company.                    *)
kType == [k \in {k1, k2} |-> "fact"]
kSourceOf == [a \in {a1} |-> s1]
kDerivable == {<<k2, k1>>, <<k1, e1>>, <<e1, a1>>}
kCitable == {<<k1, s2>>, <<k2, s2>>, <<k2, s0>>}

----------------------------------------------------------------------------
Parts == {"knowledge", "session", "reply", "inputs", "procedures", "credentials", "governance"}

\* what a part may begin with is only tried in its own behaviours
ServicesInit ==
    /\ part \in Parts
    /\ KnowledgeInit
    /\ SessionInit
    /\ ReplyInit /\ (part # "reply" => bound = NoTask)
    /\ UserInit
    /\ ProcedureInit /\ (part # "procedures" => ~company)
    /\ CredentialInit
    /\ GovernanceInit /\ (part # "governance" => requests = <<>>)

ServicesNext ==
    \/ /\ part = "knowledge" /\ KnowledgeNext
       /\ UNCHANGED <<part, sessionVars, replyVars, userVars, procedureVars, credentialVars, governanceVars>>
    \/ /\ part = "session" /\ SessionNext
       /\ UNCHANGED <<part, knowledgeVars, replyVars, userVars, procedureVars, credentialVars, governanceVars>>
    \/ /\ part = "reply" /\ ReplyNext
       /\ UNCHANGED <<part, knowledgeVars, sessionVars, userVars, procedureVars, credentialVars, governanceVars>>
    \/ /\ part = "inputs" /\ UserNext
       /\ UNCHANGED <<part, knowledgeVars, sessionVars, replyVars, procedureVars, credentialVars, governanceVars>>
    \/ /\ part = "procedures" /\ ProcedureNext
       /\ UNCHANGED <<part, knowledgeVars, sessionVars, replyVars, userVars, credentialVars, governanceVars>>
    \/ /\ part = "credentials" /\ CredentialNext
       /\ UNCHANGED <<part, knowledgeVars, sessionVars, replyVars, userVars, procedureVars, governanceVars>>
    \/ /\ part = "governance" /\ GovernanceNext
       /\ UNCHANGED <<part, knowledgeVars, sessionVars, replyVars, userVars, procedureVars, credentialVars>>

ServicesSpec == ServicesInit /\ [][ServicesNext]_<<part, knowledgeVars, sessionVars,
                    replyVars, userVars, procedureVars, credentialVars, governanceVars>>

ServicesTypeOK ==
    /\ part \in Parts
    /\ part = "knowledge" => KnowledgeTypeOK
    /\ part = "session" => SessionTypeOK
    /\ part = "reply" => ReplyTypeOK
    /\ part = "inputs" => UserTypeOK
    /\ part = "procedures" => ProcedureTypeOK
    /\ part = "credentials" => CredentialTypeOK
    /\ part = "governance" => GovernanceTypeOK

Symmetry == Permutations(Methods)
=============================================================================
