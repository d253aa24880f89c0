----------------------------- MODULE ReplyGuard -----------------------------
(***************************************************************************)
(* The guard of one Claude session's replies: a reply that advances the    *)
(* bound task must come after a checkpoint of the chairman that is newer   *)
(* than the turn and its tools, and a stop that breaks this is blocked     *)
(* once (reply_guard.py and the Stop and PreCompact hooks of hooks.py).    *)
(* Hooks are processes of their own; the user may interrupt a turn and     *)
(* begin the next while a hook of the last one is still at work.           *)
(***************************************************************************)
EXTENDS Naturals

CONSTANTS
    ReplyTasks,   \* unfinished tasks the session may be bound to
    NoTask,
    MaxTurns,     \* bound: turns of the session
    MaxActivity   \* bound: tool calls observed in a turn

ASSUME ReplyAssumption ==
    /\ NoTask \notin ReplyTasks
    /\ MaxTurns \in Nat
    /\ MaxActivity \in Nat

VARIABLES
    turn,       \* the turn of reply_guard, 0 before the first
    bound,      \* the task of the session
    activity,   \* activity_seq
    gate,       \* reply_guard.gate: turn, task, activity and declaration
    blocked,    \* blocked_once
    latestIs,   \* per task: its latest checkpoint against the turn and its
                \* activity: "chairman" if newer and the chairman's, else "other"
    covered,    \* tasks the chairman checkpointed since the last activity
    changed,    \* tasks whose state document changed since the gate
    stopping    \* the Stop hook: "none", "refused" or "allowed"

replyVars == <<turn, bound, activity, gate, blocked, latestIs, covered,
               changed, stopping>>

NoGate == [turn |-> 0, task |-> NoTask, seq |-> 0, material |-> FALSE]

ReplyInit ==
    /\ turn = 0
    /\ bound \in ReplyTasks \cup {NoTask}
    /\ activity = 0
    /\ gate = NoGate
    /\ blocked = FALSE
    /\ latestIs = [t \in ReplyTasks |-> "other"]
    /\ covered = {}
    /\ changed = {}
    /\ stopping = "none"

\* A user prompt begins a turn with a new guard.
BeginTurn ==
    /\ turn < MaxTurns
    /\ turn' = turn + 1
    /\ activity' = 0
    /\ gate' = NoGate
    /\ blocked' = FALSE
    /\ latestIs' = [t \in ReplyTasks |-> "other"]
    /\ covered' = {}
    /\ UNCHANGED <<bound, changed, stopping>>

\* A hook observes a tool call that is not of the reply protocol.
ObserveActivity ==
    /\ turn > 0
    /\ activity < MaxActivity
    /\ activity' = activity + 1
    /\ latestIs' = [t \in ReplyTasks |-> "other"]
    /\ covered' = {}
    /\ UNCHANGED <<turn, bound, gate, blocked, changed, stopping>>

Checkpoint(t) ==
    /\ latestIs' = [latestIs EXCEPT ![t] = "chairman"]
    /\ covered' = covered \cup {t}
    /\ changed' = changed \cup {t}
    /\ UNCHANGED <<turn, bound, activity, gate, blocked, stopping>>

\* The PreCompact hook checkpoints too, but not as the chairman.
AutomaticCheckpoint ==
    /\ bound # NoTask
    /\ latestIs' = [latestIs EXCEPT ![bound] = "other"]
    /\ changed' = changed \cup {bound}
    /\ UNCHANGED <<turn, bound, activity, gate, blocked, covered, stopping>>

\* Another session, or a commit of user input, changes a state document.
StateChanges(t) ==
    /\ changed' = changed \cup {t}
    /\ UNCHANGED <<turn, bound, activity, gate, blocked, latestIs, covered, stopping>>

Bind(t) ==
    /\ bound' = t
    /\ UNCHANGED <<turn, activity, gate, blocked, latestIs, covered, changed, stopping>>

-----------------------------------------------------------------------------
(* task_reply_gate.                                                        *)

CheckpointFits(material) == material => latestIs[bound] = "chairman"

ConfirmGate(material) ==
    /\ turn > 0
    /\ bound # NoTask
    /\ CheckpointFits(material)
    /\ gate' = [turn |-> turn, task |-> bound, seq |-> activity, material |-> material]
    /\ changed' = {}
    /\ UNCHANGED <<turn, bound, activity, blocked, latestIs, covered, stopping>>

-----------------------------------------------------------------------------
(* The Stop hook: it inspects the guard, and marks a block, in two         *)
(* transactions.                                                           *)

\* Mutant of GateCurrent: the declaration is not compared with the activity since.
GateCurrentAnyActivity ==
    gate.turn = turn /\ gate.task = bound /\ bound \notin changed

GateCurrent ==
    /\ gate.turn = turn
    /\ gate.task = bound
    /\ gate.seq = activity
    /\ bound \notin changed

InspectStop ==
    /\ turn > 0
    /\ stopping = "none"
    /\ stopping' = IF bound = NoTask \/ GateCurrent THEN "allowed" ELSE "refused"
    /\ UNCHANGED <<turn, bound, activity, gate, blocked, latestIs, covered, changed>>

\* The mark finds whatever guard the session has by then.  active is the host's
\* stop_hook_active, which says that the stop continues a blocked one; a stop that
\* is marked already, or that the host says so of, is let through with a warning.
Recurrent(active) == bound # NoTask /\ (blocked \/ active)

MarkBlocked(active) ==
    /\ stopping = "refused"
    /\ blocked' = (blocked \/ bound # NoTask)
    /\ stopping' = IF Recurrent(active) THEN "allowed" ELSE "none"
    /\ UNCHANGED <<turn, bound, activity, gate, latestIs, covered, changed>>

\* The staged prompts are committed to the bound task, which changes its state.
FinishStop ==
    /\ stopping = "allowed"
    /\ stopping' = "none"
    /\ changed' = IF bound = NoTask THEN changed ELSE changed \cup {bound}
    /\ UNCHANGED <<turn, bound, activity, gate, blocked, latestIs, covered>>

\* A hook that is killed at its time limit does nothing more.
StopHookDies ==
    /\ stopping # "none"
    /\ stopping' = "none"
    /\ UNCHANGED <<turn, bound, activity, gate, blocked, latestIs, covered, changed>>

ReplyNext ==
    \/ BeginTurn \/ ObserveActivity \/ AutomaticCheckpoint
    \/ \E t \in ReplyTasks : Checkpoint(t) \/ StateChanges(t)
    \/ \E t \in ReplyTasks \cup {NoTask} : Bind(t)
    \/ \E material \in BOOLEAN : ConfirmGate(material)
    \/ \E active \in BOOLEAN : MarkBlocked(active)
    \/ InspectStop \/ FinishStop \/ StopHookDies

ReplySpec == ReplyInit /\ [][ReplyNext]_replyVars

-----------------------------------------------------------------------------
(* Properties.                                                             *)

ReplyTypeOK ==
    /\ turn \in 0..MaxTurns
    /\ bound \in ReplyTasks \cup {NoTask}
    /\ activity \in 0..MaxActivity
    /\ gate \in [turn : 0..MaxTurns, task : ReplyTasks \cup {NoTask},
                 seq : 0..MaxActivity, material : BOOLEAN]
    /\ blocked \in BOOLEAN
    /\ latestIs \in [ReplyTasks -> {"chairman", "other"}]
    /\ covered \subseteq ReplyTasks
    /\ changed \subseteq ReplyTasks
    /\ stopping \in {"none", "refused", "allowed"}

\* A material reply the guard itself allows has a checkpoint of the chairman
\* for the very task it is about, newer than the turn and every tool call
\* observed in it, through rebinding, automatic checkpoints and interruptions.
AllowedReplyIsCheckpointed ==
    [][InspectStop /\ bound # NoTask /\ stopping' = "allowed" /\ gate.material
         => bound \in covered]_replyVars
=============================================================================
