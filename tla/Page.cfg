\* A game of two problems, a broken connection and a failed step.
SPECIFICATION PageSpec
CONSTANTS
    Nothing = Nothing
    N = 2
    MaxDrops = 1
    MaxFaults = 1
INVARIANTS
    PageFollowsRow
PROPERTIES
    PageHearsBack
CHECK_DEADLOCK FALSE
