SPECIFICATION FairRun
CONSTANTS
    s1 = s1
    s2 = s2
    r1 = r1
    r2 = r2
    UserStory = {s1, s2}
    Request = {r1, r2}
    None = None
    MaxGeneration = 1
    MaxCrashes = 2
    MaxOutside = 1
INVARIANT ActiveIsRecorded
INVARIANT PromotionIsRecorded
PROPERTY ResumeReachesReview
CHECK_DEADLOCK FALSE
