CONSTANTS
    Dests <- MCDests
    Filenames <- MCFilenames
    RuntimeFiles <- MCRuntimeFiles
    RuntimeDirs <- MCRuntimeDirs
    HiddenNames <- MCHiddenNames
    SplitAtBackslash <- MCSplitAtBackslash
SPECIFICATION Spec
INVARIANT
    ClearLeavesOnlyUploads
