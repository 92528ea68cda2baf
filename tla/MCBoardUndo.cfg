SPECIFICATION BoardSpec
CONSTANTS
    Px = 12
    Depth = 6
    Scripts <- MCScripts
    Lines <- MCLines
    DrawTools = {"roundrect", "frame", "lane", "line"}
    Aligns = {"left", "middle"}
    Restacks = {"front", "forward"}
INVARIANT
    ServerFollows
CHECK_DEADLOCK FALSE
