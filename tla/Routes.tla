------------------------------- MODULE Routes -------------------------------
(***************************************************************************)
(* The orthogonal line a connector is drawn as (web/src/lib/connectors.ts)  *)
(* and the handles that edit it (web/src/canvas/ConnectorOverlay.tsx).     *)
(* An offset counts the quarters of a side from its start; the code keeps   *)
(* the fraction itself.                                                     *)
(***************************************************************************)
EXTENDS Shapes

Sides == <<"top", "right", "bottom", "left">>
Horizontal == {"left", "right"}
Half == 2

Stub == 24 * Px

\* Less than half a pixel apart.
AlmostEq(a, b) == 2 * Dist(a, b) < Px

-----------------------------------------------------------------------------
\* Ports

\* connectors.ts has a copy of objectAABB, to avoid an import cycle.
ShapeBox(o) == ObjectAABB(o)

OnSide(b, side, t) ==
    LET along == Pt(b.x + (b.w * t) \div 4, b.y + (b.h * t) \div 4) IN
    CASE side = "top" -> Pt(along.x, b.y)
      [] side = "bottom" -> Pt(along.x, b.y + b.h)
      [] side = "left" -> Pt(b.x, along.y)
      [] side = "right" -> Pt(b.x + b.w, along.y)

SideAnchor(o, side, offset) == OnSide(ShapeBox(o), side, Clamp(offset, 0, 4))

SideNormal(side) ==
    CASE side = "top" -> Pt(0, -1) [] side = "bottom" -> Pt(0, 1)
      [] side = "left" -> Pt(-1, 0) [] side = "right" -> Pt(1, 0)

SquaredDistance(p, q) == (p.x - q.x) * (p.x - q.x) + (p.y - q.y) * (p.y - q.y)

\* The nearest port on any side; the first side wins a tie.
NearestOfBox(b, p) ==
    LET offset(side) == IF side \in Horizontal
                        THEN IF b.h > 0 THEN Clamp((4 * (p.y - b.y)) \div b.h, 0, 4) ELSE Half
                        ELSE IF b.w > 0 THEN Clamp((4 * (p.x - b.x)) \div b.w, 0, 4) ELSE Half
        d(i) == SquaredDistance(OnSide(b, Sides[i], offset(Sides[i])), p)
        best == CHOOSE i \in 1 .. 4 : \A j \in 1 .. 4 : d(i) < d(j) \/ (d(i) = d(j) /\ i <= j) IN
    [side |-> Sides[best], offset |-> offset(Sides[best])]

NearestPort(o, p) == NearestOfBox(ShapeBox(o), p)

-----------------------------------------------------------------------------
\* Routes

\* Mutant: a straight run ends where it was first seen to be one.
SimplifyShortening(pts) ==
    LET turn(out, p) ==
            LET n == Len(out) IN
            IF n >= 2 /\ (AlmostEq(out[n - 1].y, p.y) \/ AlmostEq(out[n - 1].x, p.x))
            THEN out ELSE Append(out, p) IN
    IF Len(pts) <= 2 THEN pts ELSE FoldLeft(turn, <<pts[1]>>, Tail(pts))

\* Consecutive duplicates go first, then the middles of straight runs.
SimplifyOrthogonal(pts) ==
    LET same(p, q) == AlmostEq(p.x, q.x) /\ AlmostEq(p.y, q.y)
        undup(out, p) == IF same(Last(out), p) THEN out ELSE Append(out, p)
        straight(p, q, r) == \/ AlmostEq(p.y, q.y) /\ AlmostEq(q.y, r.y)
                             \/ AlmostEq(p.x, q.x) /\ AlmostEq(q.x, r.x)
        turn(out, p) ==
            LET n == Len(out) IN
            IF n >= 2 /\ straight(out[n - 1], out[n], p)
            THEN Append(Front(out), p) ELSE Append(out, p)
        turns(out) == FoldLeft(turn, <<out[1]>>, Tail(out)) IN
    IF Len(pts) <= 2 THEN pts ELSE turns(FoldLeft(undup, <<pts[1]>>, Tail(pts)))

\* From stub to stub: a straight line, an L, a Z or a U.
RouteBetweenStubs(a, fromSide, b, toSide) ==
    LET fromH == fromSide \in Horizontal
        toH == toSide \in Horizontal
        midX == (a.x + b.x) \div 2
        midY == (a.y + b.y) \div 2
        viaX == <<a, Pt(midX, a.y), Pt(midX, b.y), b>>
        viaY == <<a, Pt(a.x, midY), Pt(b.x, midY), b>> IN
    CASE fromH /\ toH ->
            IF \/ fromSide = "right" /\ a.x <= b.x
               \/ fromSide = "left" /\ a.x >= b.x
            THEN IF AlmostEq(a.y, b.y) THEN <<a, Pt(b.x, a.y), b>> ELSE viaX
            ELSE viaY
      [] ~fromH /\ ~toH ->
            IF \/ fromSide = "bottom" /\ a.y <= b.y
               \/ fromSide = "top" /\ a.y >= b.y
            THEN IF AlmostEq(a.x, b.x) THEN <<a, Pt(a.x, b.y), b>> ELSE viaY
            ELSE viaX
      [] fromH /\ ~toH -> <<a, Pt(b.x, a.y), b>>
      [] ~fromH /\ toH -> <<a, Pt(a.x, b.y), b>>

\* Mutant: the points as they are.
EnforceNothing(pts) == SimplifyOrthogonal(pts)

\* An elbow wherever two points are on no common line.
EnforceOrthogonal(pts) ==
    LET elbow(out, p) ==
            LET prev == Last(out) IN
            IF AlmostEq(prev.x, p.x) \/ AlmostEq(prev.y, p.y) THEN Append(out, p)
            ELSE out \o <<Pt(p.x, prev.y), p>> IN
    IF Len(pts) <= 1 THEN pts
    ELSE SimplifyOrthogonal(FoldLeft(elbow, <<pts[1]>>, Tail(pts)))

Out(p, side, d) == Pt(p.x + SideNormal(side).x * d, p.y + SideNormal(side).y * d)

OrthogonalRoute(from, to, fromSide, toSide, fromOffset, toOffset, waypoints, stub) ==
    LET start == SideAnchor(from, fromSide, fromOffset)
        end == SideAnchor(to, toSide, toOffset)
        stubA == Out(start, fromSide, stub)
        stubB == Out(end, toSide, stub)
        middle == IF waypoints # <<>>
                  THEN EnforceOrthogonal(<<stubA>> \o waypoints \o <<stubB>>)
                  ELSE SimplifyOrthogonal(RouteBetweenStubs(stubA, fromSide, stubB, toSide)) IN
    SimplifyOrthogonal(<<start>> \o middle \o <<end>>)

\* Without both ends there is nothing to draw.
NoRoute == <<>>

RouteForConnector(conn, objs) ==
    IF {conn.fromId, conn.toId} \subseteq DOMAIN objs
    THEN OrthogonalRoute(objs[conn.fromId], objs[conn.toId], conn.fromSide, conn.toSide,
                         conn.fromOffset, conn.toOffset, conn.points, Stub)
    ELSE NoRoute

\* The rubber band of a connector being drawn from a port of x: to the port under
\* the pointer, or to a box of two pixels around it.
ConnectorPreviewPoints(objs, x, port, cursor, hover) ==
    LET ghost == [type |-> "rect", x |-> cursor.x - Px, y |-> cursor.y - Px,
                  w |-> 2 * Px, h |-> 2 * Px]
        to == NearestPort(objs[hover], cursor)
        side == NearestPort(ghost, cursor).side IN
    IF hover # NoParent
    THEN OrthogonalRoute(objs[x], objs[hover], port.side, to.side, port.offset, to.offset,
                         <<>>, Stub)
    ELSE OrthogonalRoute(objs[x], ghost, port.side, side, port.offset, Half, <<>>, 16 * Px)

-----------------------------------------------------------------------------
\* What is drawn on a route, and around it

Length(p, q) == Dist(p.x, q.x) + Dist(p.y, q.y)

\* The way from a to b along an axis.
Step(a, b) == CASE AlmostEq(a, b) -> 0 [] a < b -> 1 [] OTHER -> -1

\* The label sits half way along the line.
PolylineMidpoint(pts) ==
    LET n == Len(pts)
        upTo[i \in 1 .. n] == IF i = 1 THEN 0 ELSE upTo[i - 1] + Length(pts[i - 1], pts[i])
        half == upTo[n] \div 2
        i == Min({k \in 1 .. n - 1 : half <= upTo[k + 1]})
        along == half - upTo[i] IN
    IF n = 1 \/ upTo[n] = 0 THEN pts[1]
    ELSE Pt(pts[i].x + Step(pts[i].x, pts[i + 1].x) * along,
            pts[i].y + Step(pts[i].y, pts[i + 1].y) * along)

\* The way the arrow head points: away from the last point that is more than a
\* pixel from the tip.
ArrowHead(pts) ==
    LET tip == Last(pts)
        tails == {i \in 1 .. Len(pts) - 1 : SquaredDistance(tip, pts[i]) > Px * Px}
        tail == IF tails = {} THEN pts[Len(pts) - 1] ELSE pts[Max(tails)] IN
    Pt(Step(tail.x, tip.x), Step(tail.y, tip.y))

\* The box a connector is looked for in, before it is drawn at all.
ConnectorCullBox(conn, objs) ==
    LET a == ObjectAABB(objs[conn.fromId])
        b == ObjectAABB(objs[conn.toId]) IN
    UnionBoxes({a, b} \cup {Box(p.x, p.y, 0, 0) : p \in ToSet(conn.points)})

\* Mutant: looked for between its shapes only.
ConnectorMountedByShapes(conn, objs, view) ==
    BoxIntersects(UnionBoxes({ObjectAABB(objs[conn.fromId]), ObjectAABB(objs[conn.toId])}), view)

\* A connector is in the list of what is mounted for this view.
ConnectorMounted(conn, objs, view) ==
    BoxIntersects(ConnectorCullBox(conn, objs), Padded(view, 80 * Px + Stub))

\* The segments that have a handle: those along an axis of 8 pixels or more.
MidHandles(route) ==
    {i \in 1 .. Len(route) - 1 :
        /\ AlmostEq(route[i].y, route[i + 1].y) \/ AlmostEq(route[i].x, route[i + 1].x)
        /\ Length(route[i], route[i + 1]) >= 8 * Px}

HandleAxis(route, i) == IF AlmostEq(route[i].y, route[i + 1].y) THEN "y" ELSE "x"

\* Mutant: only the first end of the segment moves.
WaypointsMovingStart(route, i, axis, value) ==
    LET n == Len(route)
        moved == [k \in 1 .. n |-> IF k = i /\ k # 1 THEN [route[k] EXCEPT ![axis] = value] ELSE route[k]]
        ortho == EnforceOrthogonal(moved) IN
    IF Len(ortho) <= 2 THEN <<>> ELSE SubSeq(ortho, 2, Len(ortho) - 1)

\* Both ends of the segment move; the anchors of the route do not.
WaypointsAfterSegmentDrag(route, i, axis, value) ==
    LET n == Len(route)
        moved == [k \in 1 .. n |->
                    IF k \in {i, i + 1} /\ k \notin {1, n}
                    THEN [route[k] EXCEPT ![axis] = value] ELSE route[k]]
        ortho == EnforceOrthogonal(moved) IN
    IF Len(ortho) <= 2 THEN <<>> ELSE SubSeq(ortho, 2, Len(ortho) - 1)

\* Where a dragged end is attached: the nearest port of a shape that is no
\* more than 40 pixels away; the first such shape wins a tie.
PortsNear(objs, p) ==
    {x \in Unconnected(objs, DOMAIN objs) : InBox(p, Padded(ObjectAABB(objs[x]), 40 * Px))}

PortDistance(o, port, p) == SquaredDistance(SideAnchor(o, port.side, port.offset), p)

NearestShapePort(objs, p) ==
    LET near == PortsNear(objs, p)
        d[x \in near] == PortDistance(objs[x], NearestPort(objs[x], p), p)
        best == CHOOSE x \in near : \A y \in near : d[x] < d[y] \/ (d[x] = d[y] /\ x <= y) IN
    [id |-> best, port |-> NearestPort(objs[best], p)]
=============================================================================
