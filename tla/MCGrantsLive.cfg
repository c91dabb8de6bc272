SPECIFICATION FairSpec
CONSTANTS
    Tags = {t1, t2}
    Named = {}
    Unlabelled = {}
    TTLs = {1}
    Grace = 2
    MaxPublish = 1
    LastStart = 0
    MaxTime = 3
    MaxCrashes = 1
PROPERTIES
    DeadTagReclaimed
    WaiterAnswered
