CONSTANTS
    ModelPredict <- MCModelPredict
    Data <- MCData
    InputValues <- MCInputValues
    TopN = 2
SPECIFICATION ServiceSpec
INVARIANT
    RegionsAddUpToGlobal
