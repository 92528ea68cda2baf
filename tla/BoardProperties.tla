-------------------------- MODULE BoardProperties ---------------------------
(***************************************************************************)
(* What holds of the objects while one user edits a board with BoardEditing. *)
(***************************************************************************)
EXTENDS BoardEditing

\* Undo takes a command back, in as many steps as it made.
UndoRestores ==
    [][edits' # edits /\ Len(undo) < Len(undo') /\ Len(undo') < Depth =>
          Restores(objects, objects', Rewind(objects', SubSeq(undo', Len(undo) + 1, Len(undo'))))
      ]_vars

\* After the commands of a script, undone and redone, the parents are containers
\* that exist and form no cycle; every connector has two ends, which are shapes, and
\* no parent; and nothing else has ends.  (Longer sessions can break it: what
\* ServerFollows says of an undone drop can close a cycle.)
TreeSound ==
    \A x \in DOMAIN objects :
        LET o == objects[x]
            parent == ParentIn(objects, x) IN
        /\ x \notin Ancestors(objects, x)
        /\ parent # NoParent => parent \in DOMAIN objects /\ IsContainer(objects[parent])
        /\ IF o.type = "connector"
           THEN parent = NoParent /\ {o.fromId, o.toId} \subseteq Unconnected(objects, DOMAIN objects)
           ELSE {o.fromId, o.toId} = {Unset}

\* A drag moves what it moves by one vector, everything that is in it included,
\* and what changes its frame has its centre in the new one.
DragIsRigid ==
    [][last' = "move" /\ edits' # edits =>
          LET by(x) == Pt(objects'[x].x - objects[x].x, objects'[x].y - objects[x].y)
              moved == {x \in DOMAIN objects : by(x) # Pt(0, 0)}
              centre(x) == Pt(objects'[x].x + objects'[x].w \div 2, objects'[x].y + objects'[x].h \div 2) IN
          /\ \A x, y \in moved : by(x) = by(y)
          /\ \A x \in moved : Unconnected(objects, Descendants(objects, x)) \subseteq moved
          /\ \A x \in DOMAIN objects :
                objects'[x].parentId \notin {objects[x].parentId, NoParent} =>
                    ContainsPoint(objects'[objects'[x].parentId], centre(x))
      ]_vars

\* What is pasted refers only to what is pasted with it, and is nested and
\* connected as the originals are; the originals stay as they are.
PasteClosed ==
    [][last' = "paste" /\ edits' # edits =>
          LET new == DOMAIN objects' \ DOMAIN objects
              shift == 32 * Px * pasted'.count
              place(o, d) == <<o.type, o.x - d, o.y - d, o.w, o.h>>
              source == [x \in Signature(clip) |-> clip[CHOOSE i \in DOMAIN clip : clip[i].id = x].object]
              clones == [x \in new |-> objects'[x]]
              nesting(objs, d) == {<<place(objs[x], d), place(objs[objs[x].parentId], d)>> :
                                      x \in {y \in DOMAIN objs : ParentIn(objs, y) \in DOMAIN objs}}
              wiring(objs, d) == {<<place(objs[objs[c].fromId], d), place(objs[objs[c].toId], d)>> :
                                     c \in {y \in DOMAIN objs : {objs[y].fromId, objs[y].toId} \subseteq DOMAIN objs}} IN
          /\ \A x \in DOMAIN objects : objects'[x] = objects[x]
          /\ \A x \in new : ParentIn(objects', x) \in new \cup {NoParent}
          /\ nesting(clones, shift) = nesting(source, 0)
          /\ wiring(clones, shift) = wiring(source, 0)
      ]_vars

\* What is let go where the guides showed it stays there: the shape that was
\* dropped can be picked up and dropped where it is, and nothing changes.
DropSettles ==
    [][last' = "move" /\ edits' # edits =>
          LET place(o) == Pt(o.x, o.y)
              moved == {x \in Unconnected(objects, DOMAIN objects) : place(objects'[x]) # place(objects[x])}
              again(x) == MovePatches(objects', selected, snap, x, place(objects'[x])) IN
          moved # {} => \E x \in moved : ApplyOps(objects', Updates(again(x))) = objects'
      ]_vars

\* The boxes of the selection fit between the first edge and the last.
Roomy(axis) ==
    LET boxes == [i \in DOMAIN LayoutTargets(objects, selected) |->
                     ObjectAABB(objects[LayoutTargets(objects, selected)[i]])]
        total == FoldLeft(LAMBDA n, b : n + b[Size(axis)], 0, boxes) IN
    boxes # <<>> /\ total <= UnionBoxes(ToSet(boxes))[Size(axis)]

\* To align twice is to do it once, and so is to distribute twice, with room for it.
ArrangeSettles ==
    LET after(patches) == ApplyOps(objects, Updates(patches))
        settles(objs, patches) == ApplyOps(objs, Updates(patches)) = objs IN
    /\ \A kind \in Aligns :
          LET objs == after(AlignPatches(kind, selected, objects)) IN
          settles(objs, AlignPatches(kind, selected, objs))
    /\ \A axis \in {"x", "y"} :
          LET objs == after(DistributePatches(axis, selected, objects)) IN
          Roomy(axis) => settles(objs, DistributePatches(axis, selected, objs))

-----------------------------------------------------------------------------
\* Connectors

Near(p, q) == AlmostEq(p.x, q.x) /\ AlmostEq(p.y, q.y)

Connectors == {c \in DOMAIN objects : objects[c].type = "connector"}

Anchor(c, end) ==
    IF end = "from" THEN SideAnchor(objects[c.fromId], c.fromSide, c.fromOffset)
    ELSE SideAnchor(objects[c.toId], c.toSide, c.toOffset)

\* What the geometry reads of an object is there.
Measured(o) ==
    /\ {o.x, o.y, o.w, o.h} \subseteq Int
    /\ IsPath(o) => o.points \in Seq(Points)

\* The board is one that can be drawn: places and sizes are numbers, connectors
\* have sides, offsets and both their shapes, and of the shapes under the pointer
\* one is on top.
Drawable ==
    /\ \A x \in DOMAIN objects : Measured(objects[x])
    /\ \A id \in Connectors :
          LET c == objects[id] IN
          /\ {c.fromId, c.toId} \subseteq DOMAIN objects
          /\ {c.fromSide, c.toSide} \subseteq ToSet(Sides)
          /\ {c.fromOffset, c.toOffset} \subseteq Int
          /\ c.points \in Seq(Points)
    /\ \A p \in Spots : p \in Points /\ HitTop(objects, p) \in DOMAIN objects \cup {NoParent}

\* The rubber band of a connector that is being drawn from the port c leaves from,
\* with the pointer at p.
RubberBand(c, p) ==
    LET under == HitTop(objects, p) IN
    ConnectorPreviewPoints(objects, c.fromId, [side |-> c.fromSide, offset |-> c.fromOffset], p,
                           IF under = c.fromId THEN NoParent ELSE under)

\* However the shapes were moved and the line was edited, it is drawn from the
\* port it leaves to the port it arrives at; a rubber band over no shape ends
\* where the pointer is.
RouteAttached ==
    \A id \in Connectors :
        LET c == objects[id]
            route == Line(id)
            start == Anchor(c, "from") IN
        /\ Near(Head(route), start) /\ Near(Last(route), Anchor(c, "to"))
        /\ \A p \in Spots :
              LET band == RubberBand(c, p) IN
              /\ Near(Head(band), start)
              /\ HitTop(objects, p) = NoParent => SquaredDistance(Last(band), p) <= Px * Px

\* Every segment runs along an axis, and so does the arrow at the tip.
RouteOrthogonal ==
    \A id \in Connectors :
        LET route == Line(id) IN
        /\ \A i \in 1 .. Len(route) - 1 :
              AlmostEq(route[i].x, route[i + 1].x) \/ AlmostEq(route[i].y, route[i + 1].y)
        /\ (\E p \in ToSet(route) : SquaredDistance(Last(route), p) > Px * Px) =>
              ArrowHead(route) \in {SideNormal(side) : side \in ToSet(Sides)}

\* A view that shows any corner of the line, or the label, has the connector mounted.
RouteMounted ==
    \A id \in Connectors :
        LET route == Line(id) IN
        \A p \in ToSet(route) \cup {PolylineMidpoint(route)} :
            ConnectorMounted(objects[id], objects, Box(p.x, p.y, 0, 0))

Dragged(c, route, i, v) ==
    LET points == WaypointsAfterSegmentDrag(route, i, HandleAxis(route, i), v) IN
    RouteForConnector([c EXCEPT !.points = points], objects)

LineThrough(route, axis, v) ==
    \E i \in 1 .. Len(route) - 1 : AlmostEq(route[i][axis], v) /\ AlmostEq(route[i + 1][axis], v)

\* Neither end of c has its stub across the line at v.
ClearOfStubs(c, axis, v) ==
    LET clear(a, side) ==
            LET b == Out(a, side, Stub) IN v \notin MinOf(a[axis], b[axis]) .. MaxOf(a[axis], b[axis]) IN
    clear(Anchor(c, "from"), c.fromSide) /\ clear(Anchor(c, "to"), c.toSide)

\* An inner segment of a line nobody edited is, when it is dragged to a line and
\* let go there, on that line; and if that is where it was, nothing changes.
SegmentLands ==
    \A id \in Connectors :
        LET c == objects[id]
            route == Line(id) IN
        c.points = <<>> /\ ~Near(Head(route), Last(route)) =>
            \A i \in MidHandles(route) \cap (2 .. Len(route) - 2) :
                LET axis == HandleAxis(route, i)
                    rest == route[i][axis] IN
                /\ \A v \in Lines :
                      ClearOfStubs(c, axis, v) => LineThrough(Dragged(c, route, i, v), axis, v)
                /\ ClearOfStubs(c, axis, rest) =>
                      \A p \in ToSet(Dragged(c, route, i, rest)) : \E q \in ToSet(route) : Near(p, q)
=============================================================================
