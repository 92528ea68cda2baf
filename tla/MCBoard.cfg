SPECIFICATION BoardSpec
CONSTANTS
    Px = 12
    Depth = 6
    Scripts <- MCScripts
    Lines <- MCLines
    DrawTools = {"roundrect", "frame", "lane", "line"}
    Aligns = {"left", "middle"}
    Restacks = {"front", "forward"}
INVARIANTS
    HistoryBounded
    
    ArrangeSettles
    RouteAttached
    RouteOrthogonal
    RouteMounted
    SegmentLands
PROPERTIES
    UndoRestores
    RedoRepeats
    UndoIsHistory
    DragIsRigid
    PasteClosed
    DropSettles
CHECK_DEADLOCK FALSE
