CONSTANTS
    ToolsWithDefaults <- MCToolsWithDefaults
    AgentCfg <- MCAgentCfg
    Platform = "linux"
    Models <- MCModels
    Contents <- MCContents
    ToolCallNames <- MCToolCallNames
    MaxBatch = 3
    MaxView = 3
    KeepAfterCondense = 1
    MaxUserMessages = 3
    MaxEvents = 3
    MaxAbandoned = 0
SPECIFICATION MCSpec
INVARIANTS
    TypeOK
    PendingIsUndeliveredTail
    ToolsShaping
    RegistryMatchesReference
    InitialIsFirstUserMessage
PROPERTY
    ImplementsContract
\* A session ends when the user sends no more messages and the agent has
\* stopped, finished, failed or is waiting for input.
CHECK_DEADLOCK FALSE
