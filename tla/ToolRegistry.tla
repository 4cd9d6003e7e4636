--------------------------- MODULE ToolRegistry ---------------------------
(***************************************************************************)
(* AIAgent._get_tools (src/openhands/agenthub/aiagent/aiagent.py): the    *)
(* ordered list of tool descriptors offered to the LLM, resolved once at   *)
(* agent construction from the AgentConfig, the model identifier and the   *)
(* platform.  A model identifier is a sequence of one-character strings,   *)
(* so that Python's substring test `s in model` is modelled by what it     *)
(* does.  A descriptor keeps what the step engine tells apart: its name,   *)
(* whether the short description was chosen, and whether its parameter    *)
(* schema still carries a `default` entry.                                 *)
(***************************************************************************)
EXTENDS Sequences, Integers

CONSTANTS
    ToolsWithDefaults   \* names of tools whose parameter schema has a `default`

\* The AgentConfig fields _get_tools reads.
ConfigFields == {"enable_cmd", "enable_think", "enable_finish", "enable_browsing",
                 "enable_jupyter", "enable_llm_editor", "enable_editor"}
AgentConfigs == [ConfigFields -> BOOLEAN]

Platforms == {"linux", "darwin", "win32"}

\* Tool names as the codeact tool modules declare them.
ToolNames == {"execute_bash", "think", "finish", "web_read", "browser",
              "execute_ipython_cell", "edit_file", "str_replace_editor"}

Tool == [name : ToolNames, short : BOOLEAN, hasDefault : BOOLEAN]

\* Python `sub in s` for strings: s contains sub contiguously.
ContainsSubstr(s, sub) ==
    \E i \in 0 .. Len(s) - Len(sub) : SubSeq(s, i + 1, i + Len(sub)) = sub

SHORT_TOOL_DESCRIPTION_LLM_SUBSTRS ==
    << <<"g", "p", "t", "-">>, <<"o", "3">>, <<"o", "1">>, <<"o", "4">> >>

\* any(model_substr in self.llm.config.model for model_substr in ...)
UseShortToolDesc(model) ==
    \E i \in DOMAIN SHORT_TOOL_DESCRIPTION_LLM_SUBSTRS :
        ContainsSubstr(model, SHORT_TOOL_DESCRIPTION_LLM_SUBSTRS[i])

\* A descriptor as its module (or create_*_tool factory) builds it.
MkTool(name, short) ==
    [name |-> name, short |-> short, hasDefault |-> name \in ToolsWithDefaults]

\* Mutant: `elif self.config.enable_editor` written as a second `if`.
GetToolsBothEditors(cfg, model, platform) ==
    LET short == UseShortToolDesc(model)
        Opt(cond, s) == IF cond THEN s ELSE << >>
    IN     Opt(cfg["enable_cmd"], <<MkTool("execute_bash", short)>>)
        \o Opt(cfg["enable_think"], <<MkTool("think", FALSE)>>)
        \o Opt(cfg["enable_finish"], <<MkTool("finish", FALSE)>>)
        \o Opt(cfg["enable_browsing"] /\ platform # "win32",
               <<MkTool("web_read", FALSE), MkTool("browser", FALSE)>>)
        \o Opt(cfg["enable_jupyter"], <<MkTool("execute_ipython_cell", FALSE)>>)
        \o Opt(cfg["enable_llm_editor"], <<MkTool("edit_file", FALSE)>>)
        \o Opt(cfg["enable_editor"], <<MkTool("str_replace_editor", short)>>)

\* The if/elif chain of _get_tools, in the order it appends.
GetTools(cfg, model, platform) ==
    LET short == UseShortToolDesc(model)
        Opt(cond, s) == IF cond THEN s ELSE << >>
    IN     Opt(cfg["enable_cmd"], <<MkTool("execute_bash", short)>>)
        \o Opt(cfg["enable_think"], <<MkTool("think", FALSE)>>)
        \o Opt(cfg["enable_finish"], <<MkTool("finish", FALSE)>>)
        \o Opt(cfg["enable_browsing"] /\ platform # "win32",
               <<MkTool("web_read", FALSE), MkTool("browser", FALSE)>>)
        \o Opt(cfg["enable_jupyter"], <<MkTool("execute_ipython_cell", FALSE)>>)
        \o (IF cfg["enable_llm_editor"]
              THEN <<MkTool("edit_file", FALSE)>>
              ELSE Opt(cfg["enable_editor"], <<MkTool("str_replace_editor", short)>>))

=============================================================================
