SPECIFICATION Spec
CONSTANTS
    Requests = {"r1", "r2"}
    Scenarios <- MCScenarios
    AllowedUsers = {"operator", "viewer"}
    Stranger = "stranger"
    LocalUser = "local"
    Home = "home"
    Abroad = "abroad"
    InitialGrants <- MCInitialGrants
    Pods = {1, 2}
    Obs = {1, 2, 3}
    Nobody = Nobody
    MaxReads = 1
    PageLimit = 2
    MaxChanges = 1
    MaxFaults = 1
INVARIANTS
    GrantsWereHeld
    ActsOnSelection
    SlotsMatchReads
    
    PagesFollow
    LineageExact
 
CHECK_DEADLOCK FALSE
