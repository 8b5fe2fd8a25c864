SPECIFICATION FairSpec
CONSTANTS
    Points = {p1, p2}
    MaxUpdates = 4
INVARIANTS
    RebuildPreservesPart
    PartExclusive
PROPERTIES
    RebuildEnds
