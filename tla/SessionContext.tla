--------------------------- MODULE SessionContext ---------------------------
(***************************************************************************)
(* Conversations of Claude Code, the rows of vres.sessions that stand for  *)
(* them, and what the rows carry: the inspection-only hold of the latest   *)
(* prompt and the mark of a revocation whose memory the conversation may   *)
(* have read (hooks.py, session_lifecycle.py, session_end_worker.py,       *)
(* session_prompts.py, session_contamination.py, control_preflight.py,     *)
(* migrations 029 and 040).                                                *)
(***************************************************************************)
EXTENDS Integers, Sequences, FiniteSets

CONSTANTS
    Conversations,  \* provider session ids
    Rows,           \* rows of vres.sessions, numbered as they are inserted
    Hosts,          \* processes, numbered as they start
    Items,          \* memory a conversation may read, numbered as it will be revoked
    Calls,          \* tool use ids of the host
    Wishes,         \* what prompts may be: inspection only or not
    Nobody

ASSUME SessionAssumption ==
    /\ Nobody \notin Conversations \cup Rows \cup Hosts \cup Items \cup Calls
    /\ Rows \cup Hosts \cup Items \subseteq Nat
    /\ Wishes \subseteq BOOLEAN

VARIABLES
    running,      \* the conversation each live process is in
    gone,         \* the processes that have ended
    ending,       \* conversations with a detached end worker under way
    step,         \* where the start or prompt hook of a process is
    owner,        \* provider_session_id of each row
    open,         \* rows with ended_at IS NULL
    hostPid,      \* metadata.host_pid of each row
    hold,         \* metadata.vres_read_only_hold.active of each row
    inspecting,   \* conversations whose latest staged prompt is inspection only
    loaded,       \* items the conversation read while the row was open
    revocations,  \* items revoked, in the order of the ledger
    mark,         \* latest contamination of each row: its place in revocations
    ack,          \* the contamination its latest refresh acknowledges
    attestations  \* single-use attestations of the preflight hook

rowVars == <<owner, open, hostPid, hold>>
contextVars == <<loaded, revocations, mark, ack, attestations>>
sessionVars == <<running, gone, ending, step, owner, open, hostPid, hold,
                 inspecting, loaded, revocations, mark, ack, attestations>>

LiveHosts == {p \in Hosts : running[p] # Nobody}
OpenRowsOf(c) == {r \in open : owner[r] = c}
IsRevoked(x) == \E i \in 1..Len(revocations) : revocations[i] = x

SessionInit ==
    /\ running = [p \in Hosts |-> Nobody]
    /\ gone = {}
    /\ ending = {}
    /\ step = [p \in Hosts |-> "idle"]
    /\ owner = [r \in Rows |-> Nobody]
    /\ open = {}
    /\ hostPid = [r \in Rows |-> Nobody]
    /\ hold = [r \in Rows |-> FALSE]
    /\ inspecting = {}
    /\ loaded = [r \in Rows |-> {}]
    /\ revocations = <<>>
    /\ mark = [r \in Rows |-> 0]
    /\ ack = [r \in Rows |-> 0]
    /\ attestations = {}

-----------------------------------------------------------------------------
(* The host: it starts, resumes, clears, ends and loses conversations.     *)

\* A new conversation, or one resumed, in a new process.
Launch(p, c) ==
    /\ p \notin gone \cup LiveHosts
    /\ \A q \in Hosts : q < p => q \in gone \cup LiveHosts
    /\ \A q \in LiveHosts : running[q] # c
    /\ running' = [running EXCEPT ![p] = c]
    /\ step' = [step EXCEPT ![p] = "starting"]
    /\ UNCHANGED <<gone, ending, inspecting, rowVars, contextVars>>

\* /clear goes on in the same process with a conversation nobody had; the
\* host may skip the end hook of the old one.
ClearTo(p, c) ==
    /\ p \in LiveHosts
    /\ step[p] = "idle"
    /\ \A r \in Rows : owner[r] # c
    /\ \A q \in LiveHosts : running[q] # c
    /\ running' = [running EXCEPT ![p] = c]
    /\ step' = [step EXCEPT ![p] = "starting"]
    /\ ending' \in {ending, ending \cup {running[p]}}
    /\ inspecting' = inspecting \ {running[p]}
    /\ UNCHANGED <<gone, rowVars, contextVars>>

\* The end hook launches a detached worker; a process that dies launches none.
EndConversation(p) ==
    /\ p \in LiveHosts
    /\ ending' \in {ending, ending \cup {running[p]}}
    /\ inspecting' = inspecting \ {running[p]}
    /\ running' = [running EXCEPT ![p] = Nobody]
    /\ gone' = gone \cup {p}
    /\ step' = [step EXCEPT ![p] = "idle"]
    /\ UNCHANGED <<rowVars, contextVars>>

\* The user submits a prompt; the notifications of background tasks are not
\* prompts and run none of this.
Prompt(p) ==
    /\ p \in LiveHosts
    /\ step[p] = "idle"
    /\ step' = [step EXCEPT ![p] = "prompting"]
    /\ UNCHANGED <<running, gone, ending, inspecting, rowVars, contextVars>>

-----------------------------------------------------------------------------
(* The start and prompt hooks, a transaction at a time.                    *)

\* open_session: reuse the open row or insert one, one caller at a time.
OpenSession(p) ==
    LET c == running[p] IN
    /\ step[p] \in {"starting", "prompting"}
    /\ step' = [step EXCEPT ![p] = IF @ = "starting" THEN "started" ELSE "prompted"]
    /\ \/ /\ OpenRowsOf(c) # {}
          /\ UNCHANGED rowVars
       \/ /\ OpenRowsOf(c) = {}
          /\ \E r \in Rows :
                /\ owner[r] = Nobody
                /\ \A q \in Rows : q < r => owner[q] # Nobody
                /\ owner' = [owner EXCEPT ![r] = c]
                /\ open' = open \cup {r}
                /\ UNCHANGED <<hostPid, hold>>
    /\ UNCHANGED <<running, gone, ending, inspecting, contextVars>>

\* _observe_session: the open row, if it is still there, gets the process
\* id; rows of other conversations whose process is this one, or is known to
\* be dead, are closed.
Stale(r, p) ==
    /\ owner[r] # running[p]
    /\ hostPid[r] # Nobody
    /\ hostPid[r] = p \/ hostPid[r] \in gone

ObserveSession(p) ==
    /\ step[p] \in {"started", "prompted"}
    /\ step' = [step EXCEPT ![p] = IF @ = "started" THEN "idle" ELSE "staging"]
    /\ hostPid' = [r \in Rows |-> IF r \in OpenRowsOf(running[p]) THEN p ELSE hostPid[r]]
    /\ open' = {r \in open : ~Stale(r, p)}
    /\ UNCHANGED <<running, gone, ending, inspecting, owner, hold, contextVars>>

\* stage_user_input: every user prompt sets or clears the hold of the open
\* row; without one the prompt is not staged.
StagePrompt(p, inspectionOnly) ==
    LET c == running[p] IN
    /\ step[p] = "staging"
    /\ step' = [step EXCEPT ![p] = "idle"]
    /\ \/ /\ OpenRowsOf(c) # {}
          /\ hold' = [r \in Rows |-> IF r \in OpenRowsOf(c) THEN inspectionOnly ELSE hold[r]]
          /\ inspecting' = IF inspectionOnly THEN inspecting \cup {c} ELSE inspecting \ {c}
       \/ /\ OpenRowsOf(c) = {}
          /\ UNCHANGED <<hold, inspecting>>
    /\ UNCHANGED <<running, gone, ending, owner, open, hostPid, contextVars>>

\* The detached worker closes whatever row the conversation has by then.
EndWorker(c) ==
    /\ c \in ending
    /\ ending' = ending \ {c}
    /\ open' = open \ OpenRowsOf(c)
    /\ UNCHANGED <<running, gone, step, owner, hostPid, hold, inspecting, contextVars>>

-----------------------------------------------------------------------------
(* Memory read, revoked and refreshed.                                     *)

Load(p, x) ==
    /\ p \in LiveHosts
    /\ ~IsRevoked(x)
    /\ loaded' = [r \in Rows |->
                    IF r \in OpenRowsOf(running[p]) THEN loaded[r] \cup {x} ELSE loaded[r]]
    /\ UNCHANGED <<running, gone, ending, step, inspecting, rowVars,
                   revocations, mark, ack, attestations>>

\* A revocation marks every row that is open when it commits: the insertion
\* of a row waits for the project's lock.
Marked == open

Revoke(x) ==
    /\ ~IsRevoked(x)
    /\ \A y \in Items : y < x => IsRevoked(y)
    /\ revocations' = Append(revocations, x)
    /\ mark' = [r \in Rows |-> IF r \in Marked THEN Len(revocations) + 1 ELSE mark[r]]
    /\ UNCHANGED <<running, gone, ending, step, inspecting, rowVars, loaded, ack, attestations>>

\* Mutant of IsContaminated: any acknowledgement clears the row for good.
IsContaminatedOnce(r) == mark[r] # 0 /\ ack[r] = 0

IsContaminated(r) == mark[r] # 0 /\ ack[r] # mark[r]

\* The preflight mints one attestation for a call, for the latest mark of
\* the caller's open row.
Attest(p, call) ==
    /\ p \in LiveHosts
    /\ \A a \in attestations : a.call # call
    /\ \E r \in OpenRowsOf(running[p]) :
          /\ mark[r] # 0
          /\ attestations' = attestations \cup {[call |-> call, row |-> r, key |-> mark[r]]}
    /\ UNCHANGED <<running, gone, ending, step, inspecting, rowVars, loaded, revocations, mark, ack>>

\* The tool consumes it: whatever the verdict it is spent, and only the
\* latest contamination of a row still open is acknowledged.
AttestationHolds(a) ==
    /\ a.row \in open
    /\ a.key = mark[a.row]

Spent(a) == [a EXCEPT !.row = Nobody, !.key = 0]

Acknowledge(a) ==
    /\ a.key # 0
    /\ attestations' = (attestations \ {a}) \cup {Spent(a)}
    /\ ack' = IF AttestationHolds(a) THEN [ack EXCEPT ![a.row] = a.key] ELSE ack
    /\ UNCHANGED <<running, gone, ending, step, inspecting, rowVars, loaded, revocations, mark>>

\* It expires: presented too late, it is spent for nothing.
Expire(a) ==
    /\ a.key # 0
    /\ attestations' = (attestations \ {a}) \cup {Spent(a)}
    /\ UNCHANGED <<running, gone, ending, step, inspecting, rowVars, loaded, revocations, mark, ack>>

SessionNext ==
    \/ \E p \in Hosts, c \in Conversations : Launch(p, c) \/ ClearTo(p, c)
    \/ \E p \in Hosts :
          \/ EndConversation(p) \/ Prompt(p)
          \/ OpenSession(p) \/ ObserveSession(p)
          \/ \E wish \in Wishes : StagePrompt(p, wish)
    \/ \E c \in Conversations : EndWorker(c)
    \/ \E p \in Hosts, x \in Items : Load(p, x)
    \/ \E x \in Items : Revoke(x)
    \/ \E p \in Hosts, call \in Calls : Attest(p, call)
    \/ \E a \in attestations : Acknowledge(a) \/ Expire(a)

SessionSpec == SessionInit /\ [][SessionNext]_sessionVars

-----------------------------------------------------------------------------
(* Properties.                                                             *)

SessionTypeOK ==
    /\ running \in [Hosts -> Conversations \cup {Nobody}]
    /\ gone \subseteq Hosts
    /\ ending \subseteq Conversations
    /\ step \in [Hosts -> {"idle", "starting", "prompting", "started", "prompted", "staging"}]
    /\ owner \in [Rows -> Conversations \cup {Nobody}]
    /\ open \subseteq {r \in Rows : owner[r] # Nobody}
    /\ hostPid \in [Rows -> Hosts \cup {Nobody}]
    /\ hold \in [Rows -> BOOLEAN]
    /\ inspecting \subseteq Conversations
    /\ loaded \in [Rows -> SUBSET Items]
    /\ revocations \in Seq(Items)
    /\ \A r \in Rows : {mark[r], ack[r]} \subseteq 0..Len(revocations)
    /\ \A a \in attestations : a.call \in Calls /\ a.row \in Rows \cup {Nobody} /\ a.key \in 0..Len(revocations)

\* A row that is open and has read an item revoked since is contaminated,
\* until its conversation has acknowledged that very revocation or a later
\* one: no order of revocations, attestations, late acknowledgements and
\* reopened rows hides one from the preflight.
ContextIsMarked ==
    \A r \in open, i \in 1..Len(revocations) :
        revocations[i] \in loaded[r] /\ i > ack[r] => IsContaminated(r)

\* migrations/029_user_read_only_hold.sql: "background/system events must not
\* alter it".  The preflight of a live conversation whose latest prompt was
\* inspection only finds its hold.
HoldFollowsPrompt ==
    \A p \in LiveHosts :
        running[p] \in inspecting => \E r \in OpenRowsOf(running[p]) : hold[r]
=============================================================================
