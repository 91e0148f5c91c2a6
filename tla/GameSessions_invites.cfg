SPECIFICATION PollingReady
CONSTANTS
    Users = {1, 2, 3}
    Hosts = {1}
    Managers = {1}
    Inviters = {1}
    Overlays = {2}
    NewClasses = {"lobby"}
    SetClasses = {"room"}
    Flaky = {}
    MaxConns = 1
    MaxSessions = 1
    MaxParties = 1
    MaxInviteId = 2
    Restarts = FALSE
INVARIANTS OneInvitePerLane
PROPERTIES AcceptedIsFound JoinAnswersInvites InvalidInviteGoes
CHECK_DEADLOCK FALSE
