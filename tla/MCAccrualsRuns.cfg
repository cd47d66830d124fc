SPECIFICATION FairSpec
CONSTANTS
    Investments = {i1}
    Runs = {r1, r2}
    Terms <- SomeTerms
    Patches = {3}
    TicksPerDay = 2
    MaxTime = 7
    LastCrash = 5
    InsertWorks = TRUE
INVARIANTS IndInv
PROPERTIES MaturityKept 
