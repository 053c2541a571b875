SPECIFICATION RegistryFairSpec
CONSTANTS
    Services = {s1, s2}
    MaxBoots = 2
    MaxLosses = 1
INVARIANTS
    EntriesFollowOwners
    RegistryInv
PROPERTIES
    GoneIsForgotten
    RegisteredIsFound
\* Every provider may have been started as often as it is, and be down.
CHECK_DEADLOCK FALSE
