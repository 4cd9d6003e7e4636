------------------------- MODULE ConversationMemory -------------------------
(***************************************************************************)
(* What AIAgent.step hands to the conversation memory after the condenser  *)
(* returned a View (aiagent.py 175-178, 211-252): the condensed events and *)
(* the initial user message, looked up in the whole history.  The          *)
(* controller appends events to the history (spec.md 6); the condenser     *)
(* forgets a prefix of it (spec.md 4.3).  An event is its source, its kind  *)
(* and its position in the history.                                        *)
(***************************************************************************)
EXTENDS Naturals, Sequences, SequencesExt

CONSTANTS
    MaxEvents     \* most events in the history

Sources == {"user", "agent", "environment"}
Kinds == {"message", "action", "observation"}

None == [src |-> "none", kind |-> "none", id |-> 0]

VARIABLES
    history,      \* state.history
    forgotten,    \* events before the condenser's view
    request,      \* what _get_messages got, and the history length then
    firstUser     \* ghost: the first message the user typed

vars == <<history, forgotten, request, firstUser>>

Event(src, kind) == [src |-> src, kind |-> kind, id |-> Len(history) + 1]

\* The View of the condenser: the history without the forgotten prefix.
View == SubSeq(history, forgotten + 1, Len(history))

\* Mutant: the source test dropped, any MessageAction is taken.
GetInitialUserMessageAnySource(events) ==
    LET i == SelectInSeq(events, LAMBDA e : e.kind = "message")
    IN IF i = 0 THEN None ELSE events[i]

\* _get_initial_user_message: the first USER-sourced MessageAction.
GetInitialUserMessage(events) ==
    LET i == SelectInSeq(events, LAMBDA e : e.src = "user" /\ e.kind = "message")
    IN IF i = 0 THEN None ELSE events[i]

Init ==
    /\ history = << >>
    /\ forgotten = 0
    /\ request = [initial |-> None, view |-> << >>, len |-> 0]
    /\ firstUser = None

\* The user types a message.
UserMessage ==
    /\ Len(history) < MaxEvents
    /\ history' = Append(history, Event("user", "message"))
    /\ firstUser' = IF firstUser = None THEN Event("user", "message") ELSE firstUser
    /\ UNCHANGED <<forgotten, request>>

\* An event of another source, or a user action that is not a message
\* (a command the user runs in the terminal).
OtherEvent(src, kind) ==
    /\ Len(history) < MaxEvents
    /\ ~(src = "user" /\ kind = "message")
    /\ history' = Append(history, Event(src, kind))
    /\ UNCHANGED <<forgotten, request, firstUser>>

\* The condenser forgets a prefix of the history; the events are kept in
\* state.history.
Condense ==
    /\ \E n \in forgotten + 1 .. Len(history) : forgotten' = n
    /\ UNCHANGED <<history, request, firstUser>>

\* step() after a View: the initial user message from state.history and
\* the condensed events go to _get_messages.
BuildRequest ==
    /\ request' = [initial |-> GetInitialUserMessage(history), view |-> View,
                  len |-> Len(history)]
    /\ UNCHANGED <<history, forgotten, firstUser>>

Next ==
    \/ UserMessage
    \/ \E s \in Sources, k \in Kinds : OtherEvent(s, k)
    \/ Condense
    \/ BuildRequest

Spec == Init /\ [][Next]_vars

\* The request built by step() carries the first message the user typed in
\* this conversation, however much of the history the condenser has
\* forgotten and whatever agent messages or user commands came before.
InitialIsFirstUserMessage ==
    request.initial = IF firstUser # None /\ firstUser.id <= request.len
                      THEN firstUser ELSE None

=============================================================================
