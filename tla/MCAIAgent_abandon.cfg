CONSTANTS
    ToolsWithDefaults <- MCToolsWithDefaults
    AgentCfg <- MCAgentCfg
    Platform = "linux"
    Models <- MCModels
    Contents <- MCContents
    ToolCallNames <- MCToolCallNames
    MaxBatch = 3
    MaxView = 3
    KeepAfterCondense = 1
    MaxUserMessages = 3
    MaxEvents = 3
    MaxAbandoned = 1
SPECIFICATION AbandonSpec
INVARIANT
    PendingIsUndeliveredTail
\* A construction is one step, and a session ends when the user stops
\* typing and no abandoned call is left; neither continues after that.
CHECK_DEADLOCK FALSE
