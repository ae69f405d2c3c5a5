CONSTANTS
    Orders = {1, 2}
    Limits = {2}
    ReplyTtl = 1
    PartialCooldown = 1
    MaxDeals = 3
    MaxTime = 2
    MaxCrashes = 1
    MaxDbFaults = 1
    MaxNoAnswers = 1
SPECIFICATION FairSpec
INVARIANTS ReportedOnce 
 
