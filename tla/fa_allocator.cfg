SPECIFICATION FairSpec
CONSTANTS
    c1 = c1
    c2 = c2
    f1 = f1
    f2 = f2
    f3 = f3
    Caller = {c1, c2}
    File = {f1, f2, f3}
    Size = {1, 2}
    DiskFails = TRUE
    NoFile = NoFile
INVARIANT TypeOK
INVARIANT WorkerHasFirst
INVARIANT ListAndSizesAgree
INVARIANT FirstSizeUsed
INVARIANT AsapMeansAllocated
PROPERTY AsapEnds
PROPERTY RequestsServed
