CONSTANTS
    MaxItemsValues = {0, 1, 2}
    Width = 2
    MaxRows = 3
    MaxSheets = 2
    MaxRowsArgs = {0, 1, 2}
SPECIFICATION Spec
INVARIANTS
    TopLevelAccounted
    DispatchPreviewsSupported
\* One call is made on one file; nothing follows it.
CHECK_DEADLOCK FALSE
