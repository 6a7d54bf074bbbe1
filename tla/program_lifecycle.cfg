SPECIFICATION FairSpec
CONSTANTS
    cataloger = cataloger
    storepruner = storepruner
    Workflows = {cataloger, storepruner}
    Notified = {cataloger}
    Interval <- MCInterval
    MinDelay <- MCMinDelay
    MaxDelay <- MCMaxDelay
    Jitters <- MCJitters
    alice = alice
    Alice = Alice
    bob = bob
    AccountNames = {alice, Alice, bob}
    Fold <- MCFold
    Me = 1
    Nobody = Nobody
    Directories <- MCDirectories
    Owner = Nobody
    Principals <- MCPrincipals
    MaxRenames = 1
    MaxRequests = 2
    MaxFaults = 1
CHECK_DEADLOCK FALSE
INVARIANTS
    EnvReadyForPolls
    NoLostWakeup
    NothingRunsAfterReturn
    CleanExit
    PermissionsAsNamed
    StoreDirRemoved
PROPERTIES
    StartedThenStops
    KeepsPolling
