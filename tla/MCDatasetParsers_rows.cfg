CONSTANTS
    MaxItemsValues <- MCSignedMaxItems
    Width = 1
    MaxRows = 3
    MaxSheets = 2
    MaxRowsArgs = {0, 1, 2}
SPECIFICATION Spec
INVARIANT
    TableRowsAccounted
CHECK_DEADLOCK FALSE
