SPECIFICATION FairSpec
CONSTANTS
    AutoJoin = FALSE
    Plans <- TwoFollowsOrOneOther
    MaxNews = 1
    MaxLost = 1
    Relogin = 2
INVARIANTS IdsLeadBack EventsWereAccepted
PROPERTIES FollowIsAccepted LoginRecovers
CHECK_DEADLOCK FALSE
