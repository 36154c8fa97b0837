SPECIFICATION FairSpec
CONSTANTS
    old = old
    new1 = new1
    new2 = new2
    Instances <- MCInstances
    NoInstance = none
    Requests = {q1}
    Newest = 2
    Latest <- MCLatest
INVARIANTS
    ServingNeedsSchema
    MigrationsRunOnce
PROPERTIES
    CleanExitsAnswerAll
    SignalsEndProcesses
