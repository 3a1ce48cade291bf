CONSTANTS
    Null = Null
    MinConf = 1
    Contents <- MCContents
    DkgInterval = 2
    Start <- MCStart
    MaxHeight = 8
SPECIFICATION Spec
INVARIANTS
    UniquePropertiesExact
    ValidHasService
    RoundRobin
    PunishedTwiceIsBanned
