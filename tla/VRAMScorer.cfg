CONSTANTS
    Nodes <- MCNodes
    Scopes = {1, 2}
    Rescrapes = {u1}
    Report <- MCReport
    Clusters <- MCClusters
    MaxChanges = 1
    DefaultTotal = 32
    Instrumented = TRUE
    MaxInt = 127
    NaN = NaN
    PosInf = PosInf
    NegInf = NegInf
    Platform = "amd64"
    Threshold = 4
    Resolution = 4
    None = None
SPECIFICATION FairSpec
INVARIANT TypeOK
INVARIANT ScoreRanksByVRAM
PROPERTY OlderOnlyByOverlap
PROPERTY FiguresConverge
