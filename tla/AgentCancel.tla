----------------------------- MODULE AgentCancel -----------------------------
(***************************************************************************)
(* step() abandoned at its suspension point.  spec.md 5 lets the external *)
(* controller abandon a step() call, e.g. on a timeout; the completion    *)
(* call (self.llm.completion) is the one place a step() can be waiting.   *)
(* step() is synchronous code, and nothing in it checks whether its caller *)
(* is still waiting: the abandoned call runs on when the answer arrives,  *)
(* translates it, appends every action to self.pending_actions and pops   *)
(* the head, which it returns to nobody.                                   *)
(*                                                                         *)
(* The controller (not under src/, modelled from spec.md 5 and 7) treats  *)
(* the abandoned call as a failed step: it enters ERROR and calls reset(), *)
(* or it retries at once and steps the agent again.                       *)
(***************************************************************************)
EXTENDS AIAgent

CONSTANT MaxAbandoned   \* abandoned step() calls awaiting their answer at once

VARIABLE inFlight       \* abandoned step() calls still waiting for the LLM

\* The controller gives up on a step() that has sent its completion
\* request: the request went out with the shaped tools, and the controller
\* either enters ERROR and resets the agent or stays RUNNING to retry.
StepAbandoned ==
    /\ agentState = "running"
    /\ pending = << >>
    /\ ~IsExit(lastUser)
    /\ CondensedHistory = "view"
    /\ inFlight < MaxAbandoned
    /\ ShapeTools
    /\ inFlight' = inFlight + 1
    /\ \/ agentState' = "error" /\ pending' = << >>
       \/ agentState' = "running" /\ UNCHANGED pending
    /\ lastStep' = "fail"
    /\ UNCHANGED <<model, lastUser, viewLen, batch, returned, delivered, userMsgs>>

\* The answer to an abandoned call arrives: response_to_actions, the
\* append loop and popleft() run in the abandoned call, on whatever queue
\* the agent has by then; the popped head goes nowhere.  A translation
\* error raises into the abandoned call and is lost with it.
LateCompletion(resp) ==
    /\ inFlight > 0
    /\ inFlight' = inFlight - 1
    /\ IF TranslationFails(resp)
          THEN UNCHANGED <<pending, batch>>
          ELSE LET actions == ResponseToActions(resp)
               IN /\ batch' = actions
                  /\ pending' = Tail(pending \o actions)
    /\ UNCHANGED <<model, tools, lastUser, viewLen, agentState, sentTools,
                   lastStep, returned, delivered, userMsgs>>

CancelSteps ==
    \/ StepAbandoned
    \/ \E resp \in Responses : LateCompletion(resp)

=============================================================================
