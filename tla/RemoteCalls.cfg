CONSTANTS
    w1 = w1
    w2 = w2
    c1 = c1
    c2 = c2
    p1 = p1
    p2 = p2
    None = None
    Workers <- OneWorker
    Threads <- TwoThreads
    Processes <- OneProcess
    ProcessOf <- Together
    Sync = {"TREAD", "TWRITE"}
    Fallible = {"TP1C"}
    MaxTag = 4
    MaxIds = 2
    Commands <- FirstWrites
SPECIFICATION FairSpec
INVARIANTS TypeOK StatusChecksPass AlwaysListening  OwnHandler
PROPERTIES ImplementsRPC 
