CONSTANTS
    Dests <- MCBackslashDests
    Filenames <- MCFilenames
    RuntimeFiles <- MCRuntimeFiles
    RuntimeDirs <- MCRuntimeDirs
    HiddenNames <- MCHiddenNames
    SplitAtBackslash <- MCSplitAtBackslash
SPECIFICATION Spec
INVARIANT
    ReportedPathIsWritten
