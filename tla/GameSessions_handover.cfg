SPECIFICATION Spec
CONSTANTS
    Users = {1, 2, 3}
    Hosts = {2}
    Managers = {2}
    Inviters = {}
    Overlays = {1}
    NewClasses = {"lobby"}
    SetClasses = {"other"}
    Flaky = {1, 2}
    MaxConns = 2
    MaxSessions = 1
    MaxParties = 0
    MaxInviteId = 0
    Restarts = TRUE
INVARIANTS TypeOK HostPresent LiveSessionsAreFound
PROPERTIES AbsentAreSwept HostComesFromInside PresenceKeepsRooms
CHECK_DEADLOCK FALSE
