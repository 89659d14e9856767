CONSTANTS
    Takers = {p1, p2}
    Files <- TwoFiles
    MaxIntakes = 2
    MaxKills = 0
SPECIFICATION Spec
INVARIANT OwnManifest
CHECK_DEADLOCK FALSE
