CONSTANTS
    Null = Null
    MinConf = 1
    Contents <- MCContents
    DkgInterval = 4
    Start <- MCStart
    SnapshotPeriod = 3
    CacheSize = 1
    MaxHeight = 5
    MaxConnects = 3
    MaxStops = 1
SPECIFICATION Spec
INVARIANT ListIsThatOfTheChain
