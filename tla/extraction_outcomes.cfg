SPECIFICATION FairSpec
CONSTANTS
    PluginCount = 3
    MaxGoroutines = 2
CHECK_DEADLOCK FALSE
INVARIANTS
    FileOutlivesPlugins
    DirectoriesRemoved
    ResultFollowsOutcomes
PROPERTIES
    ExtractionEnds
