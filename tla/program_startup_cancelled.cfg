SPECIFICATION FairSpec
CONSTANTS
    cataloger = cataloger
    storepruner = storepruner
    Workflows = {cataloger, storepruner}
    Notified = {cataloger}
    Interval <- MCInterval
    MinDelay <- MCMinDelay
    MaxDelay <- MCMaxDelay
    Jitters <- MCJitters
    alice = alice
    Alice = Alice
    bob = bob
    AccountNames = {alice, Alice, bob}
    Fold <- MCFold
    Me = 1
    Nobody = Nobody
    Directories <- MCOneDirectory
    Owner = alice
    Principals <- MCNoPrincipals
    MaxRenames = 0
    MaxRequests = 2
    MaxFaults = 1
CHECK_DEADLOCK FALSE
PROPERTIES
    CancelStopsServer
