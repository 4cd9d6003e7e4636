----------------------------- MODULE MCAIAgent -----------------------------
(***************************************************************************)
(* AIAgent instantiated for TLC.  A behaviour either constructs an agent   *)
(* (AIAgent.__init__ resolving self.tools) for any AgentConfig, a handful *)
(* of model identifiers and every platform, checked against a declarative *)
(* reference of spec.md 4.2; or runs a session of the agent built with    *)
(* the Gemini preview model or one that takes short tool descriptions, an *)
(* AgentConfig with the command, think, finish and string-replace editor  *)
(* tools, and user messages that are /exit, /exit padded with whitespace, *)
(* and ordinary text; or drives the conversation memory step() consults  *)
(* (ConversationMemory) with events of every source and kind.             *)
(***************************************************************************)
EXTENDS AgentCancel

GPT4o == <<"g","p","t","-","4","o">>
MCModels == {GPT4o, GEMINI_PREVIEW}

MCAgentCfg ==
    [enable_cmd |-> TRUE, enable_think |-> TRUE, enable_finish |-> TRUE,
     enable_browsing |-> FALSE, enable_jupyter |-> FALSE,
     enable_llm_editor |-> FALSE, enable_editor |-> TRUE]

MCContents == {<<"/exit">>, <<" ", "/exit", "\n">>, <<"fit", "a", "model">>}

MCToolCallNames == {"execute_bash", "think", "finish", "unknown_tool"}

MCToolsWithDefaults == {"execute_bash", "str_replace_editor"}

(***************************************************************************)
(* Construction over every configuration.                                  *)
(***************************************************************************)

\* Model identifiers, one character per element.
O3Mini  == <<"o","3","-","m","i","n","i">>
Claude  == <<"c","l","a","u","d","e","-","3","-","5","-","s","o","n","n","e","t">>
RegistryModels == {GPT4o, O3Mini, Claude, GEMINI_PREVIEW}

CONSTANT MaxEvents   \* most events in the history of the memory mode

VARIABLES
    mode,                                         \* "construct", "session" or "memory"
    regConfig, regModel, regPlatform, regTools,   \* one agent construction
    memHistory, memForgotten, memRequest, memFirstUser  \* the memory mode

regVars == <<regConfig, regModel, regPlatform, regTools>>
memVars == <<memHistory, memForgotten, memRequest, memFirstUser>>

Mem == INSTANCE ConversationMemory WITH history <- memHistory,
         forgotten <- memForgotten, request <- memRequest, firstUser <- memFirstUser

\* AIAgent.__init__: self.tools = self._get_tools(); resolved once.
Construct ==
    /\ regTools = << >>
    /\ regTools' = GetTools(regConfig, regModel, regPlatform)
    /\ UNCHANGED <<regConfig, regModel, regPlatform>>

MCInit ==
    /\ mode \in {"construct", "session", "memory"}
    /\ Init
    /\ IF mode = "construct"
          THEN /\ regConfig \in AgentConfigs
               /\ regModel \in RegistryModels
               /\ regPlatform \in Platforms
          ELSE /\ regConfig = MCAgentCfg /\ regModel = GPT4o /\ regPlatform = "linux"
    /\ regTools = << >>
    /\ inFlight = 0
    /\ Mem!Init

MCNext ==
    \/ mode = "construct" /\ Construct /\ UNCHANGED <<mode, vars, inFlight, memVars>>
    \/ mode = "session" /\ Next /\ UNCHANGED <<mode, regVars, inFlight, memVars>>
    \/ mode = "memory" /\ Mem!Next /\ UNCHANGED <<mode, vars, regVars, inFlight>>

\* The agent session keeps its controller fairness; a construction is one
\* step and the session's variables stay at Init throughout it.  The
\* controller awaits every step() call to its end.
allVars == <<mode, vars, regVars, inFlight, memVars>>

MCSpec == MCInit /\ [][MCNext]_allVars /\ WF_vars(AgentStep)

\* A controller that may also abandon a step() waiting for the LLM.
AbandonNext ==
    \/ MCNext
    \/ mode = "session" /\ CancelSteps /\ UNCHANGED <<mode, regVars, memVars>>

AbandonSpec == MCInit /\ [][AbandonNext]_allVars

\* Reference for the contract: the enabled tools in the fixed configuration
\* order, browsing omitted on win32, the LLM editor taking priority over
\* the string-replace editor, and the short description exactly for the
\* two tools that take it when some listed substring occurs in the model.
CanonicalOrder == <<"execute_bash", "think", "finish", "web_read", "browser",
                    "execute_ipython_cell", "edit_file", "str_replace_editor">>
RefEnabled(n) ==
    CASE n = "execute_bash"         -> regConfig["enable_cmd"]
      [] n = "think"                -> regConfig["enable_think"]
      [] n = "finish"               -> regConfig["enable_finish"]
      [] n \in {"web_read", "browser"} -> regConfig["enable_browsing"] /\ regPlatform # "win32"
      [] n = "execute_ipython_cell" -> regConfig["enable_jupyter"]
      [] n = "edit_file"            -> regConfig["enable_llm_editor"]
      [] n = "str_replace_editor"   -> regConfig["enable_editor"] /\ ~regConfig["enable_llm_editor"]
RefShort ==
    \E sub \in {<<"g","p","t","-">>, <<"o","3">>, <<"o","1">>, <<"o","4">>} :
        \E i, j \in 1 .. Len(regModel) : SubSeq(regModel, i, j) = sub
RefTools ==
    LET names == SelectSeq(CanonicalOrder, RefEnabled)
    IN [k \in DOMAIN names |->
          [name |-> names[k],
           short |-> names[k] \in {"execute_bash", "str_replace_editor"} /\ RefShort,
           hasDefault |-> names[k] \in ToolsWithDefaults]]

\* The tool list an agent caches at construction is the reference list:
\* same tools, same order, at most one file editor, no browser on win32,
\* short descriptions exactly where the model-name heuristic asks.
RegistryMatchesReference == regTools # << >> => regTools = RefTools

\* The request built by step() carries the first message the user typed in
\* this conversation, however much of the history the condenser forgot
\* (ConversationMemory, aiagent.py 175-178 and _get_initial_user_message).
InitialIsFirstUserMessage == Mem!InitialIsFirstUserMessage

=============================================================================
