CONSTANTS
    Dests <- MCEscapingDests
    Filenames <- MCEscapingFilenames
    RuntimeFiles <- MCRuntimeFiles
    RuntimeDirs <- MCRuntimeDirs
    HiddenNames <- MCHiddenNames
    SplitAtBackslash <- MCSplitAtBackslash
SPECIFICATION Spec
INVARIANT
    WrittenInsideWorkspace
