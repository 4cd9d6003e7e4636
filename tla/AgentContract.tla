--------------------------- MODULE AgentContract ---------------------------
(***************************************************************************)
(* What the step engine promises its controller (spec.md 4.1, 6, 8), with *)
(* condensation, tools and the history left out.  Each step delivers      *)
(* exactly one action.  An LLM response is a batch that is owed to the    *)
(* controller and delivered in order, one action per step.  No new        *)
(* response is requested while the agent still owes actions.  A trimmed   *)
(* /exit ends the task without a response.  The controller keeps calling  *)
(* step() on a running agent, so a running agent eventually delivers      *)
(* something.                                                             *)
(***************************************************************************)
EXTENDS Sequences, SequencesExt

CONSTANTS
    Kinds,       \* kinds of action a step may deliver
    MaxBatch     \* most actions in one response

VARIABLES
    state,       \* the controller's AgentState
    owed,        \* actions of the last response not yet delivered
    exitAsked,   \* the latest user message is /exit
    parity       \* parity of the number of actions delivered

vars == <<state, owed, exitAsked, parity>>

\* Delivering an action is a visible step even when it leaves the state as
\* it was (a command after a command).
Delivered == parity' = 1 - parity

\* The controller's reaction to a delivered action.
Outcome(a) == CASE a = "finish"  -> "finished"
                [] a = "message" -> "awaiting_user_input"
                [] OTHER         -> "running"

Init ==
    /\ state = "awaiting_user_input"
    /\ owed = << >>
    /\ exitAsked = FALSE
    /\ parity = 0

\* A fresh response: its first action is delivered, the rest are owed.
Respond(b) ==
    /\ state = "running" /\ owed = << >> /\ ~exitAsked
    /\ state' = Outcome(Head(b))
    /\ owed' = Tail(b)
    /\ Delivered
    /\ UNCHANGED exitAsked

\* The next owed action is delivered.
DeliverOwed ==
    /\ state = "running" /\ owed # << >>
    /\ state' = Outcome(Head(owed))
    /\ owed' = Tail(owed)
    /\ Delivered
    /\ UNCHANGED exitAsked

\* /exit ends the task with nothing owed and no response.
ExitFinish ==
    /\ state = "running" /\ owed = << >> /\ exitAsked
    /\ state' = "finished"
    /\ Delivered
    /\ UNCHANGED <<owed, exitAsked>>

\* The request or its translation fails; nothing is owed.
Fail ==
    /\ state = "running" /\ owed = << >> /\ ~exitAsked
    /\ state' = "error"
    /\ UNCHANGED <<owed, exitAsked, parity>>

AgentMove ==
    \/ \E b \in SeqOf(Kinds, MaxBatch) \ {<< >>} : Respond(b)
    \/ DeliverOwed
    \/ ExitFinish
    \/ Fail

\* A user message resumes the agent; what is owed stays owed.
Message ==
    /\ state' = "running"
    /\ exitAsked' \in BOOLEAN
    /\ UNCHANGED <<owed, parity>>

\* Stopping the agent forgets what it owed.
Stop ==
    /\ state \in {"running", "awaiting_user_input"}
    /\ state' = "stopped"
    /\ owed' = << >>
    /\ UNCHANGED <<exitAsked, parity>>

Next == AgentMove \/ Message \/ Stop

Spec == Init /\ [][Next]_vars /\ WF_vars(AgentMove)

=============================================================================
