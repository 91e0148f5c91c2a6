SPECIFICATION ReadySpec
CONSTANTS
    Users = {1, 2}
    Hosts = {1}
    Managers = {}
    Inviters = {1}
    Overlays = {2}
    NewClasses = {"lobby", "room"}
    SetClasses = {}
    Flaky = {}
    MaxConns = 1
    MaxSessions = 2
    MaxParties = 2
    MaxInviteId = 1
    Restarts = FALSE
INVARIANTS PartyConsistent
PROPERTIES PartyIsCalled
CHECK_DEADLOCK FALSE
