------------------------------ MODULE AIAgent ------------------------------
(***************************************************************************)
(* The step engine of AIAgent (src/openhands/agenthub/aiagent/aiagent.py) *)
(* driven by the agent controller that calls step() while the agent is     *)
(* running and applies each returned action to the event history.         *)
(*                                                                         *)
(* step() is synchronous: the controller awaits the whole call, so every   *)
(* path through it (drain the queue, /exit, condensation, completion,      *)
(* failure) is one atomic action, followed in the same step by the         *)
(* controller applying the returned action.  The controller, the          *)
(* condenser and codeact's response_to_actions are not under src/ and are  *)
(* modelled from spec.md (sections 4.3, 4.5, 6).                           *)
(*                                                                         *)
(* History is abstracted to what step() reads from it: the content of the *)
(* latest user message and the length of the condenser's current view.    *)
(***************************************************************************)
EXTENDS ToolRegistry, SequencesExt, Integers

CONSTANTS
    AgentCfg,            \* the AgentConfig (read-only after construction)
    Platform,            \* sys.platform
    Models,              \* llm.config.model values an agent may be built with
    Contents,            \* contents a user message may have (token sequences)
    ToolCallNames,       \* function names an LLM response may call
    MaxBatch,            \* most tool calls in one LLM response
    MaxView,             \* the condenser condenses a view longer than this
    KeepAfterCondense,   \* length of the view right after a condensation
    MaxUserMessages      \* messages the user sends in one session

NoMessage == "none"

VARIABLES
    model,        \* self.llm.config.model
    tools,        \* self.tools, cached at construction
    pending,      \* self.pending_actions
    lastUser,     \* content of state.get_last_user_message(), or NoMessage
    viewLen,      \* events in the condenser's view (saturates at MaxView + 1)
    agentState,   \* the controller's AgentState
    sentTools,    \* params['tools'] of the last completion request
    batch,        \* actions translated from the last LLM response
    lastStep,     \* which path the last step() call took
    returned,     \* kind of the action the last step() call returned
    delivered,    \* auxiliary: parity of the actions the controller applied
    userMsgs      \* messages the user has sent

vars == <<model, tools, pending, lastUser, viewLen, agentState, sentTools,
          batch, lastStep, returned, delivered, userMsgs>>
agentVars == <<model, tools, pending, lastUser, viewLen, agentState, sentTools,
               batch, lastStep, returned, delivered>>

ActionKinds == {"cmd", "think", "finish", "ipython", "edit", "browse",
                "message", "condensation"}
AgentStates == {"running", "awaiting_user_input", "finished", "stopped", "error"}
Steps == {"none", "pending", "exit", "condense", "complete", "fail", "user"}

\* A raw completion response: its tool calls in provider order and whether
\* the assistant message has text content.
Responses == [calls : SeqOf(ToolCallNames, MaxBatch), content : BOOLEAN]

GEMINI_PREVIEW == <<"g","e","m","i","n","i","-","2",".","5","-","p","r","o","-","p",
                    "r","e","v","i","e","w","-","0","3","-","2","5">>

Whitespace == {" ", "\n", "\t"}

\* str.strip(): drop leading and trailing whitespace.
RECURSIVE Strip(_)
Strip(s) ==
    IF s # << >> /\ Head(s) \in Whitespace THEN Strip(Tail(s))
    ELSE IF s # << >> /\ Last(s) \in Whitespace THEN Strip(Front(s))
    ELSE s

\* Mutant: the content compared without strip().
IsExitNoStrip(msg) == msg # NoMessage /\ msg = <<"/exit">>

\* latest_user_message and latest_user_message.content.strip() == '/exit'
IsExit(msg) == msg # NoMessage /\ Strip(msg) = <<"/exit">>

(***************************************************************************)
(* Collaborators modelled from spec.md.                                    *)
(***************************************************************************)

\* Condenser.condensed_history: a View, or a Condensation when the view
\* has outgrown the condenser's limit.
CondensedHistory == IF viewLen > MaxView THEN "condensation" ELSE "view"

\* codeact response_to_actions: each tool call, in order, becomes the action
\* its function name maps to; an unknown name or a response with neither
\* tool calls nor content is a translation failure (an exception).
ToolAction == [execute_bash |-> "cmd", think |-> "think", finish |-> "finish",
               execute_ipython_cell |-> "ipython", str_replace_editor |-> "edit",
               edit_file |-> "edit", web_read |-> "browse", browser |-> "browse"]
TranslationFails(resp) ==
    \/ \E i \in DOMAIN resp.calls : resp.calls[i] \notin DOMAIN ToolAction
    \/ resp.calls = << >> /\ ~resp.content
ResponseToActions(resp) ==
    IF resp.calls = << >> THEN <<"message">>
    ELSE [i \in DOMAIN resp.calls |-> ToolAction[resp.calls[i]]]

\* The controller applies the returned action: a finish ends the run, a
\* message waits for the user, a condensation replaces the view, and any
\* other action is executed and its observation appended.
AddEvents(n) == viewLen' = IF viewLen + n > MaxView THEN MaxView + 1 ELSE viewLen + n

Deliver(a) ==
    /\ returned' = a
    /\ delivered' = IF a = "condensation" THEN delivered ELSE 1 - delivered
    /\ CASE a = "finish"       -> agentState' = "finished" /\ AddEvents(1)
         [] a = "message"      -> agentState' = "awaiting_user_input" /\ AddEvents(1)
         [] a = "condensation" -> agentState' = "running" /\ viewLen' = KeepAfterCondense
         [] OTHER              -> agentState' = "running" /\ AddEvents(2)

(***************************************************************************)
(* The agent.                                                              *)
(***************************************************************************)

\* params['tools'], copied and stripped of `default` entries for the one
\* model that rejects them; the cached self.tools is left as it was.
StripDefaults(ts) == [i \in DOMAIN ts |-> [ts[i] EXCEPT !.hasDefault = FALSE]]

\* Mutant: the defaults are deleted in place, without copy.deepcopy.
ShapeToolsInPlace ==
    /\ sentTools' = IF model = GEMINI_PREVIEW THEN StripDefaults(tools) ELSE tools
    /\ tools' = sentTools'

ShapeTools ==
    /\ sentTools' = IF model = GEMINI_PREVIEW THEN StripDefaults(tools) ELSE tools
    /\ UNCHANGED tools

Init ==
    /\ model \in Models
    /\ tools = GetTools(AgentCfg, model, Platform)
    /\ pending = << >>
    /\ lastUser = NoMessage
    /\ viewLen = 0
    /\ agentState = "awaiting_user_input"
    /\ sentTools = << >>
    /\ batch = << >>
    /\ lastStep = "none"
    /\ returned = "none"
    /\ delivered = 0
    /\ userMsgs = 0

\* Mutant: the queue is drained from the back (pop instead of popleft).
StepPendingPop ==
    /\ agentState = "running"
    /\ pending # << >>
    /\ pending' = Front(pending)
    /\ Deliver(Last(pending))
    /\ lastStep' = "pending"
    /\ UNCHANGED <<model, tools, lastUser, sentTools, batch>>

\* if self.pending_actions: return self.pending_actions.popleft()
StepPending ==
    /\ agentState = "running"
    /\ pending # << >>
    /\ pending' = Tail(pending)
    /\ Deliver(Head(pending))
    /\ lastStep' = "pending"
    /\ UNCHANGED <<model, tools, lastUser, sentTools, batch>>

\* Mutant: the /exit check placed before the queue is drained.
StepExitSkipsQueue ==
    /\ agentState = "running"
    /\ IsExit(lastUser)
    /\ Deliver("finish")
    /\ lastStep' = "exit"
    /\ UNCHANGED <<model, tools, pending, lastUser, sentTools, batch>>

\* The latest user message is /exit: return AgentFinishAction().
StepExit ==
    /\ agentState = "running"
    /\ pending = << >>
    /\ IsExit(lastUser)
    /\ Deliver("finish")
    /\ lastStep' = "exit"
    /\ UNCHANGED <<model, tools, pending, lastUser, sentTools, batch>>

\* The condenser returns a Condensation: return its action.
StepCondense ==
    /\ agentState = "running"
    /\ pending = << >>
    /\ ~IsExit(lastUser)
    /\ CondensedHistory = "condensation"
    /\ Deliver("condensation")
    /\ lastStep' = "condense"
    /\ UNCHANGED <<model, tools, pending, lastUser, sentTools, batch>>

\* Mutant: the translated actions enqueued twice (an extend() left next to
\* the append loop).
StepCompleteEnqueueTwice(resp) ==
    /\ agentState = "running"
    /\ pending = << >>
    /\ ~IsExit(lastUser)
    /\ CondensedHistory = "view"
    /\ ~TranslationFails(resp)
    /\ ShapeTools
    /\ LET actions == ResponseToActions(resp)
       IN /\ batch' = actions
          /\ pending' = Tail(pending \o actions \o actions)
          /\ Deliver(Head(pending \o actions \o actions))
    /\ lastStep' = "complete"
    /\ UNCHANGED <<model, lastUser>>

\* A View: build the request, call the LLM, translate the response, append
\* every action to the queue and return the head.
StepComplete(resp) ==
    /\ agentState = "running"
    /\ pending = << >>
    /\ ~IsExit(lastUser)
    /\ CondensedHistory = "view"
    /\ ~TranslationFails(resp)
    /\ ShapeTools
    /\ LET actions == ResponseToActions(resp)
       IN /\ batch' = actions
          /\ pending' = Tail(pending \o actions)
          /\ Deliver(Head(pending \o actions))
    /\ lastStep' = "complete"
    /\ UNCHANGED <<model, lastUser>>

\* The completion call or the translation raises: step() propagates the
\* exception with the queue untouched; the controller enters ERROR and
\* calls agent.reset().
StepFail ==
    /\ agentState = "running"
    /\ pending = << >>
    /\ ~IsExit(lastUser)
    /\ CondensedHistory = "view"
    /\ ShapeTools
    /\ agentState' = "error"
    /\ pending' = << >>
    /\ lastStep' = "fail"
    /\ UNCHANGED <<model, lastUser, viewLen, batch, returned, delivered>>

(***************************************************************************)
(* The user, through the controller.                                       *)
(***************************************************************************)

\* A user message is appended to history and (re)starts the agent.
UserMessage(c) ==
    /\ userMsgs < MaxUserMessages
    /\ userMsgs' = userMsgs + 1
    /\ lastUser' = c
    /\ AddEvents(1)
    /\ agentState' = "running"
    /\ lastStep' = "user"
    /\ UNCHANGED <<model, tools, pending, sentTools, batch, returned, delivered>>

\* The user stops the agent: the controller enters STOPPED and calls
\* agent.reset(), which clears the queue.
UserStop ==
    /\ agentState \in {"running", "awaiting_user_input"}
    /\ agentState' = "stopped"
    /\ pending' = << >>
    /\ lastStep' = "user"
    /\ UNCHANGED <<model, tools, lastUser, viewLen, sentTools, batch, returned,
                   delivered, userMsgs>>

AgentStep ==
    /\ \/ StepPending
       \/ StepExit
       \/ StepCondense
       \/ \E resp \in Responses : StepComplete(resp)
       \/ StepFail
    /\ UNCHANGED userMsgs

Next ==
    \/ AgentStep
    \/ \E c \in Contents : UserMessage(c)
    \/ UserStop

\* The controller calls step() whenever the agent is running; the user is
\* under no obligation to act, and sends at most MaxUserMessages messages
\* (a user who never stops typing can keep the condenser busy forever).
Spec == Init /\ [][Next]_vars /\ WF_vars(AgentStep)

(***************************************************************************)
(* Properties.                                                             *)
(***************************************************************************)

TypeOK ==
    /\ model \in Models
    /\ tools \in Seq(Tool)
    /\ sentTools \in Seq(Tool)
    /\ pending \in SeqOf(ActionKinds, MaxBatch)
    /\ batch \in SeqOf(ActionKinds, MaxBatch)
    /\ lastUser \in Contents \cup {NoMessage}
    /\ viewLen \in 0 .. MaxView + 1
    /\ agentState \in AgentStates
    /\ lastStep \in Steps
    /\ returned \in ActionKinds \cup {"none"}
    /\ delivered \in {0, 1}
    /\ userMsgs \in 0 .. MaxUserMessages

\* The queue always holds exactly the undelivered tail of the last LLM
\* response, in the provider's order, and the action step() returned just
\* before it is the one preceding that tail: a multi-action response is
\* delivered one action per step() call, none lost, repeated or reordered,
\* until drained or a reset clears it (pending_actions append/popleft).
PendingIsUndeliveredTail ==
    pending # << >> =>
        /\ IsStrictSuffix(pending, batch)
        /\ returned = batch[Len(batch) - Len(pending)]

\* The cached tool list is never mutated, whatever was sent; a request to
\* the Gemini preview model carries no `default` entry, and any other
\* request carries the cached list as is (the deepcopy in step()).
ToolsShaping ==
    /\ tools = GetTools(AgentCfg, model, Platform)
    /\ lastStep \in {"complete", "fail"} =>
          IF model = GEMINI_PREVIEW
          THEN /\ DOMAIN sentTools = DOMAIN tools
               /\ \A i \in DOMAIN sentTools :
                     /\ ~sentTools[i].hasDefault
                     /\ sentTools[i].name = tools[i].name
                     /\ sentTools[i].short = tools[i].short
          ELSE sentTools = tools

\* AgentFinishAction is terminal: when step() returns it, no action of the
\* same LLM response is left to be delivered later.
FinishEndsBatch == returned = "finish" => pending = << >>

(***************************************************************************)
(* Refinement: the step engine implements AgentContract.  The queue is    *)
(* what the agent owes; condensation steps are invisible to the contract  *)
(* (they map to stuttering), so the contract's fairness also requires     *)
(* that condensation cannot go on forever.                                *)
(***************************************************************************)
Contract == INSTANCE AgentContract WITH
    state <- agentState,
    owed <- pending,
    exitAsked <- lastUser # NoMessage /\ Strip(lastUser) = <<"/exit">>,
    Kinds <- ActionKinds \ {"condensation"},
    parity <- delivered

\* Every behaviour of the engine under the controller is one the contract
\* allows: a response is requested only when nothing is owed and no
\* trimmed /exit is pending, owed actions are delivered in response order
\* one per step (pending_actions popleft), a stop forgets them, and a
\* running agent eventually delivers an action rather than condensing
\* forever (the early returns of step() and the controller's loop).
ImplementsContract == Contract!Spec

=============================================================================
