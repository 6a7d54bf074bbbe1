SPECIFICATION Spec
CONSTANTS
    cataloger = cataloger
    storepruner = storepruner
    Workflows = {cataloger}
    Notified = {cataloger}
    Interval <- MCShortest
    MinDelay <- MCShortest
    MaxDelay <- MCHour
    Jitters <- MCTenth
    alice = alice
    Alice = Alice
    bob = bob
    AccountNames = {alice, Alice, bob}
    Fold <- MCFold
    Me = 1
    Nobody = Nobody
    Directories <- MCOneDirectory
    Owner = alice
    Principals <- MCNoPrincipals
    MaxRenames = 0
    MaxRequests = 0
    MaxFaults = 0
CHECK_DEADLOCK FALSE
INVARIANTS
    DelayWithinBounds
