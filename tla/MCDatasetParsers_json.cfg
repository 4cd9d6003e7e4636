CONSTANTS
    MaxItemsValues = {0, 1, 2}
    Width = 2
    MaxRows = 3
    MaxSheets = 2
    MaxRowsArgs = {0, 1, 2}
SPECIFICATION Spec
INVARIANT
    NoErrorOnValidJson
CHECK_DEADLOCK FALSE
