SPECIFICATION FairSpec
CONSTANTS
    Sessions = {s1, s2}
    Kinds = {1, 3}
    Me = me
    Others = {host}
    None = None
    Delay = 2
    MaxAccepts = 2
    MaxCalls = 1
INVARIANTS GivenTwiceAtMost TargetSurvives
PROPERTIES RightController SubmittedJoinsAreLeftAlone EventsArrive ArmedJoinsEnd
CHECK_DEADLOCK FALSE
