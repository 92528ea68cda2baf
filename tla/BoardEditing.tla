---------------------------- MODULE BoardEditing ----------------------------
(***************************************************************************)
(* What one user does to a board: the tools and gestures of BoardCanvas.tsx,  *)
(* the commands of BoardPage.tsx, and the clipboard.                       *)
(***************************************************************************)
EXTENDS EditSession, Arranging, Routes

CONSTANTS
    Scripts,    \* what a session begins with, and the commands it is made of:
                \* [objects, selected, snap, commands, spots, length]; the spots
                \* are where the pointer goes down or up or drags a shape to
    DrawTools,  \* the tools a shape is drawn with
    Aligns, Restacks,   \* the commands of the layout bar that are used
    Lines       \* where the segment of a connector is dragged to

VARIABLES
    selected,   \* the ids picked, in the order they were picked
    clip,       \* the copied objects: [id, object]
    pasted,     \* the clipboard's lastSig and pasteCount: [sig, count]
    snap,       \* whether snapping is on
    script,     \* bound: the commands given, and how many, undo and redo aside
    edits,
    last        \* the command just given

userVars == <<selected, clip, pasted, snap, script, edits, last>>
vars == <<sessionVars, userVars>>

Blank ==
    [type |-> "rect", x |-> 0, y |-> 0, w |-> Px, h |-> Px, z |-> 0, parentId |-> Unset,
     points |-> <<>>, cornerRadius |-> Unset, fill |-> 0, text |-> 0,
     fromId |-> Unset, toId |-> Unset, fromSide |-> "right", toSide |-> "left",
     fromOffset |-> Half, toOffset |-> Half]

ObjectOf(type, b, z) ==
    [Blank EXCEPT !.type = type, !.x = b.x, !.y = b.y, !.w = b.w, !.h = b.h, !.z = z]

ConnectorOf(from, to, z) ==
    [Blank EXCEPT !.type = "connector", !.z = z, !.fromId = from, !.toId = to]

-----------------------------------------------------------------------------
\* What the fields of objects hold, where all ids are below n

IdsPerCommand == 10   \* bound: a command makes fewer new objects

Fields == DOMAIN Blank

Points == [x : Int, y : Int]

FieldOk(field, v, n) ==
    /\ field \in {"parentId", "fromId", "toId"} => v \in Int /\ v < n
    /\ field \in {"x", "y", "w", "h", "z", "fromOffset", "toOffset"} => v \in Int
    /\ field \in {"fromSide", "toSide"} => v \in ToSet(Sides)
    /\ field = "points" => v \in Seq(Points)

IsObject(o, n) == o = [f \in Fields |-> o[f]] /\ \A f \in Fields : FieldOk(f, o[f], n)

IsBoard(objs, n) ==
    /\ objs = [x \in DOMAIN objs |-> objs[x]]
    /\ \A x \in DOMAIN objs : x \in 1 .. n - 1 /\ IsObject(objs[x], n)

ASSUME ScriptsAssumption ==
    \A s \in Scripts :
        /\ IsFiniteSet(DOMAIN s.objects) /\ IsBoard(s.objects, IdsPerCommand)
        /\ s.selected \in Seq(DOMAIN s.objects)
        /\ \A i, j \in DOMAIN s.selected : s.selected[i] = s.selected[j] => i = j
        /\ s.spots \in SUBSET Points

ASSUME LinesAssumption == Lines \in SUBSET Int

ASSUME RestacksAssumption == Restacks \subseteq {"front", "back", "forward", "backward"}

-----------------------------------------------------------------------------
\* Sessions

\* The k-th id of the next command: never used before, and above all others.
NewId(k) == IdsPerCommand * (edits + 1) + k

BoardInit ==
    /\ script \in Scripts
    /\ objects = script.objects /\ server = script.objects
    /\ selected = script.selected
    /\ undo = <<>> /\ redo = <<>>
    /\ clip = <<>> /\ pasted = [sig |-> {}, count |-> 0]
    /\ snap = script.snap
    /\ edits = 0 /\ last = "none"

Spots == script.spots

\* One command of the user.
Allowed(name) == edits < script.length /\ name \in script.commands

Command(name) ==
    /\ Allowed(name)
    /\ edits' = edits + 1 /\ last' = name
    /\ UNCHANGED script

Edit(name, batches, sel) ==
    /\ Command(name)
    /\ Do(batches)
    /\ selected' = sel
    /\ UNCHANGED <<clip, pasted, snap>>

Singly(ops) == [i \in DOMAIN ops |-> <<ops[i]>>]

Updates(patches) == [i \in DOMAIN patches |-> Update(patches[i].id, patches[i].path, patches[i].value)]

\* applyPatches and handleCommitPatches: one batch, and nothing for no patches.
ApplyPatches(name, patches) ==
    Allowed(name) /\ patches # <<>> /\ Edit(name, <<Updates(patches)>>, selected)

-----------------------------------------------------------------------------
\* Tools

\* draftFromDrag and objectFromDraft
NormalizeBox(p, q) == Box(MinOf(p.x, q.x), MinOf(p.y, q.y), Dist(p.x, q.x), Dist(p.y, q.y))

Drawn(tool, p, q) ==
    LET d == NormalizeBox(p, q)
        w == MaxOf(d.w, 4 * Px)
        h == MaxOf(d.h, 4 * Px)
        frame == tool = "frame"
        o == ObjectOf(tool, Box(d.x, d.y, IF frame /\ w < 80 * Px THEN 240 * Px ELSE w,
                                          IF frame /\ h < 80 * Px THEN 180 * Px ELSE h), NextZ(objects)) IN
    CASE tool = "line" -> [o EXCEPT !.x = p.x, !.y = p.y,
                                    !.points = <<Pt(0, 0), Pt(q.x - p.x, q.y - p.y)>>]
      [] tool = "roundrect" -> [o EXCEPT !.cornerRadius = MinOf(16 * Px, MinOf(w, h) \div 2)]
      [] OTHER -> o

TooSmall(tool, p, q) ==
    IF tool = "line" THEN SquaredDistance(p, q) < 9 * Px * Px
    ELSE Dist(p.x, q.x) < 8 * Px /\ Dist(p.y, q.y) < 8 * Px

SelectedFrame ==
    LET frames == Filter(selected, LAMBDA x : x \in DOMAIN objects /\ objects[x].type = "frame") IN
    IF frames = <<>> THEN NoParent ELSE Head(frames)

\* A new lane of the selected frame: all its lanes share the frame's height.
StackLanes(frame) ==
    LET f == objects[frame]
        lanes == Ascending({x \in DOMAIN objects : objects[x].type = "lane" /\ objects[x].parentId = frame})
        n == Len(lanes)
        h == MaxOf(40 * Px, f.h - 28 * Px) \div (n + 1)
        at(i) == Box(f.x, f.y + 28 * Px + (i - 1) * h, f.w, h)
        lane == [ObjectOf("lane", at(n + 1), NextZ(objects)) EXCEPT !.parentId = frame]
        place(i) == [k \in 1 .. 4 |-> LET field == <<"x", "y", "w", "h">>[k] IN
                                      Update(lanes[i], field, at(i)[field])] IN
    <<Create(NewId(1), lane)>> \o FlattenSeq([i \in 1 .. n |-> place(i)])

\* A frame takes what has its centre in it.
Adopted(frame) ==
    Ascending({x \in DOMAIN objects : /\ objects[x].type \notin {"connector", "frame"}
                                      /\ InBox(CenterOf(objects[x]), frame)})

\* finishDraft.  None of its updates is in a batch.
Draw(tool, p, q) ==
    LET o == Drawn(tool, p, q)
        adopted == IF tool = "frame" THEN Adopted(o) ELSE <<>>
        ops == IF tool = "lane" /\ SelectedFrame # NoParent THEN StackLanes(SelectedFrame)
               ELSE <<Create(NewId(1), o)>>
                    \o [i \in DOMAIN adopted |-> Update(adopted[i], "parentId", NewId(1))] IN
    /\ ~TooSmall(tool, p, q)
    /\ Edit("draw", Singly(ops), <<NewId(1)>>)

CommitSpline(p, q) ==
    LET corner == Pt(MinOf(p.x, q.x), MinOf(p.y, q.y))
        rel(r) == Pt(r.x - corner.x, r.y - corner.y)
        o == [ObjectOf("spline", Box(corner.x, corner.y, Px, Px), NextZ(objects))
                 EXCEPT !.points = <<rel(p), rel(q)>>] IN
    Edit("spline", <<<<Create(NewId(1), o)>>>>, <<NewId(1)>>)

\* placeText, placeSticker and the root of placeMindmap.
PlacedBox(kind, p) ==
    CASE kind = "text" -> Box(p.x, p.y, 240 * Px, 48 * Px)
      [] kind = "sticker" -> Box(p.x - 32 * Px, p.y - 32 * Px, 64 * Px, 64 * Px)
      [] kind = "postit" -> Box(p.x - 80 * Px, p.y - 36 * Px, 160 * Px, 72 * Px)

Place(kind, p) ==
    Edit("place", <<<<Create(NewId(1), ObjectOf(kind, PlacedBox(kind, p), NextZ(objects)))>>>>, <<NewId(1)>>)

\* placeMindmap with one shape selected: the next branch right of it, and its line.
MindmapParent ==
    IF Len(selected) = 1 /\ Unconnected(objects, ToSet(selected)) # {} THEN selected[1] ELSE NoParent

GrowMindmap ==
    LET x == MindmapParent
        p == objects[x]
        branches == {c \in DOMAIN objects : objects[c].type = "connector" /\ objects[c].fromId = x}
        node == Box(p.x + p.w + 48 * Px, p.y + Cardinality(branches) * (72 + 20) * Px, 160 * Px, 72 * Px)
        z == NextZ(objects) IN
    /\ x # NoParent
    /\ Edit("mindmap", <<<<Create(NewId(1), ObjectOf("postit", node, z)),
                           Create(NewId(2), ConnectorOf(x, NewId(1), z + 1))>>>>, <<NewId(1)>>)

Mindmap(p) == IF MindmapParent = NoParent THEN Place("postit", p) ELSE GrowMindmap

\* finishConnect
Connect(x, y) ==
    /\ x # y
    /\ {x, y} \subseteq Unconnected(objects, DOMAIN objects)
    /\ Edit("connect", <<<<Create(NewId(1), ConnectorOf(x, y, NextZ(objects)))>>>>, <<NewId(1)>>)

\* EndpointHandle and rewireConnector: the end that is let go at p goes to the
\* nearest port, even one of the shape at the other end, and the waypoints are
\* dropped: four updates, one after the other.
RewireConnector(c, end, x, port) ==
    LET paths == IF end = "from" THEN <<"fromId", "fromSide", "fromOffset">>
                 ELSE <<"toId", "toSide", "toOffset">> IN
    Edit("rewire", Singly(<<Update(c, paths[1], x), Update(c, paths[2], port.side),
                            Update(c, paths[3], port.offset), Update(c, "points", <<>>)>>), selected)

DragEnd(c, end, p) ==
    /\ Allowed("rewire") /\ objects[c].type = "connector" /\ PortsNear(objects, p) # {}
    /\ \E to \in {NearestShapePort(objects, p)} : RewireConnector(c, end, to.id, to.port)

Line(c) == RouteForConnector(objects[c], objects)

\* ConnectorHandles: the handle of segment i is let go on the line at v.
DragSegment(c, v) ==
    /\ Allowed("segment") /\ objects[c].type = "connector"
    /\ LET route == Line(c) IN
       \E i \in MidHandles(route) :
          Edit("segment", <<<<Update(c, "points",
                  WaypointsAfterSegmentDrag(route, i, HandleAxis(route, i), v))>>>>, selected)

\* addImageFiles: each file in the frame under its middle.
AddImages(p, n) ==
    LET at(i) == Box(p.x - 120 * Px + (i - 1) * 24 * Px, p.y - 90 * Px + (i - 1) * 24 * Px, 240 * Px, 180 * Px)
        host(i) == ContainerAt(objects, CenterOf(ObjectOf("image", at(i), 0)), {})
        o(i) == [ObjectOf("image", at(i), NextZ(objects) + i - 1)
                    EXCEPT !.parentId = IF host(i) = NoParent THEN Unset ELSE host(i)] IN
    Edit("images", <<[i \in 1 .. n |-> Create(NewId(i), o(i))]>>, [i \in 1 .. n |-> NewId(i)])

-----------------------------------------------------------------------------
\* Gestures on shapes

\* ensureMoving: the whole selection if x is one of several, otherwise its group.
Moving(objs, sel, x) ==
    MoveSet(objs, IF x \in ToSet(sel) /\ Len(sel) > 1 THEN ToSet(sel) ELSE {GroupRoot(objs, x)})

\* changeImpl: x is let go with its corner at p.
MovePatches(objs, sel, on, x, p) ==
    LET ids == Moving(objs, sel, x)
        order == Ascending(ids)
        to == SnapBox(Box(p.x, p.y, objs[x].w, objs[x].h), on, objs, ids)
        dx == to.x - objs[x].x
        dy == to.y - objs[x].y
        moved(y) ==
            LET o == objs[y]
                parent == ParentAfterMove(objs, y, Pt(o.x + dx + o.w \div 2, o.y + dy + o.h \div 2), ids) IN
            <<Patch(y, "x", o.x + dx), Patch(y, "y", o.y + dy)>>
            \o IF o.type \in {"frame", "group"} \/ ParentIn(objs, y) = parent THEN <<>>
               ELSE <<Patch(y, "parentId", parent)>> IN
    FlattenSeq([i \in DOMAIN order |-> moved(order[i])])

Move(x, p) ==
    /\ objects[x].type # "connector"
    /\ ApplyPatches("move", MovePatches(objects, selected, snap, x, p))

\* changeImpl after commitTransform: the transformer is on a single selected shape.
Resize(x, p) ==
    LET o == objects[x]
        b == SnapResizeBox(Box(o.x, o.y, MaxOf(8 * Px, p.x - o.x), MaxOf(8 * Px, p.y - o.y)),
                           snap, objects, {x}) IN
    /\ selected = <<x>>
    /\ o.type # "connector" /\ ~IsPath(o)
    /\ ApplyPatches("resize", <<Patch(x, "x", b.x), Patch(x, "y", b.y), Patch(x, "w", b.w), Patch(x, "h", b.h)>>)

RoundCorner(x, r) ==
    LET o == objects[x] IN
    /\ selected = <<x>> /\ o.type = "roundrect"
    /\ ApplyPatches("corner", <<Patch(x, "cornerRadius", Clamp(r, 0, MinOf(o.w, o.h) \div 2))>>)

\* growTextBox while n lines are typed, commitEdit at the end; text counts lines.
TextHeight(n) == MaxOf(28 * Px, (25 * n + 8) * Px)

TypeText(x, n) ==
    LET o == objects[x]
        resize == <<Update(x, "h", TextHeight(n))>> IN
    /\ o.type \in {"postit", "text", "frame", "lane", "connector"}
    /\ Edit("type", IF o.type # "text" \/ TextHeight(n) = o.h THEN <<<<Update(x, "text", n)>>>>
                    ELSE IF TextHeight(n) > o.h THEN <<resize, <<Update(x, "text", n)>>>>
                    ELSE <<<<Update(x, "text", n)>>, resize>>, <<x>>)

\* pickImpl: a click picks the group of x, a click with shift adds or removes x.
Pick(x, shift) ==
    LET id == IF shift THEN x ELSE GroupRoot(objects, x)
        several == Len(selected) > 1 /\ {x, id} \cap ToSet(selected) # {} IN
    /\ Command("pick")
    /\ selected' = IF ~shift THEN (IF several THEN selected ELSE <<id>>)
                   ELSE IF x \in ToSet(selected) THEN Filter(selected, LAMBDA y : y # x)
                   ELSE Append(selected, x)
    /\ UNCHANGED <<sessionVars, clip, pasted, snap>>

\* onMouseUp after a marquee: the groups of what it touches; a click picks nothing.
Marquee(p, q) ==
    LET m == NormalizeBox(p, q)
        hits == {x \in Unconnected(objects, DOMAIN objects) : BoxIntersects(ObjectAABB(objects[x]), m)} IN
    /\ Command("pick")
    /\ selected' = IF m.w > 6 * Px \/ m.h > 6 * Px
                   THEN Ascending({GroupRoot(objects, x) : x \in hits}) ELSE <<>>
    /\ UNCHANGED <<sessionVars, clip, pasted, snap>>

-----------------------------------------------------------------------------
\* Commands on the selection

GroupSelected ==
    LET members == LayoutTargets(objects, selected)
        box == Padded(UnionBoxes({ObjectAABB(objects[x]) : x \in ToSet(members)}), 8 * Px) IN
    /\ Len(members) >= 2
    /\ Edit("group", <<<<Create(NewId(1), ObjectOf("group", box, NextZ(objects)))>>
                       \o [i \in DOMAIN members |-> Update(members[i], "parentId", NewId(1))]>>,
            <<NewId(1)>>)

\* The groups that are selected, and those of the members that are.
UngroupSelected ==
    LET picked == {x \in ToSet(selected) : x \in DOMAIN objects}
        groups == Ascending({x \in picked : IsGroup(objects, x)}
                            \cup {g \in {ParentIn(objects, x) : x \in picked} : IsGroup(objects, g)})
        members(g) == Ascending({x \in DOMAIN objects : objects[x].parentId = g}) IN
    Edit("ungroup", <<[i \in DOMAIN groups |-> Delete(groups[i])]>>,
         FlattenSeq([i \in DOMAIN groups |-> members(groups[i])]))

DeleteSelected ==
    /\ selected # <<>>
    /\ Edit("delete", <<[i \in DOMAIN selected |-> Delete(selected[i])]>>, <<>>)

Align(kind) == ApplyPatches("arrange", AlignPatches(kind, selected, objects))
Distribute(axis) == ApplyPatches("arrange", DistributePatches(axis, selected, objects))
Restack(action) == ApplyPatches(action, ZPatches(action, selected, objects))

\* applyColor asks for an update of every selected id, even of what is gone.
ApplyColor(c) ==
    /\ selected # <<>>
    /\ Edit("color", <<[i \in DOMAIN selected |-> Update(selected[i], "fill", c)]>>, selected)

-----------------------------------------------------------------------------
\* The clipboard

\* The selection, what is in it, and the connectors between what is copied.
CollectCopySet ==
    LET roots == ToSet(selected) \cap DOMAIN objects
        shapes == roots \cup UNION {Descendants(objects, x) : x \in roots}
        lines == {c \in DOMAIN objects : /\ objects[c].type = "connector"
                                         /\ {objects[c].fromId, objects[c].toId} \subseteq shapes} IN
    Ascending(shapes \cup lines)

CopySelected ==
    LET ids == CollectCopySet IN
    /\ ids # <<>>
    /\ Len(ids) < IdsPerCommand   \* bound
    /\ Command("copy")
    /\ clip' = [i \in DOMAIN ids |-> [id |-> ids[i], object |-> objects[ids[i]]]]
    /\ pasted' = [sig |-> ToSet(ids), count |-> 0]
    /\ UNCHANGED <<sessionVars, selected, snap>>

Signature(source) == {source[i].id : i \in DOMAIN source}

PasteCount(source) == IF pasted.sig = Signature(source) THEN pasted.count + 1 ELSE 1

\* Mutant: it is kept.
MappedOrKept(x, ids, none) == IF x \in DOMAIN ids THEN ids[x] ELSE x

\* A parent or an end that is not copied too is dropped.
Mapped(x, ids, none) == IF x \in DOMAIN ids THEN ids[x] ELSE none

\* cloneForPaste: containers first, connectors last, those with a lost end not at all.
CloneForPaste(source) ==
    LET rank(o) == CASE o.type = "connector" -> 2 [] IsContainer(o) -> 0 [] OTHER -> 1
        kept == {i \in DOMAIN source :
                    LET o == source[i].object IN
                    o.type = "connector" => {o.fromId, o.toId} \subseteq Signature(source)}
        order == Sorted(kept, LAMBDA i, j : \/ rank(source[i].object) < rank(source[j].object)
                                                  \/ /\ rank(source[i].object) = rank(source[j].object)
                                                     /\ i < j)
        ids == [x \in {source[i].id : i \in kept} |->
                   NewId(CHOOSE k \in DOMAIN order : source[order[k]].id = x)]
        shift == 32 * Px * PasteCount(source)
        clone(i) == LET o == source[i].object IN
                    [o EXCEPT !.x = o.x + shift, !.y = o.y + shift, !.z = NextZ(objects) + i - 1,
                              !.parentId = Mapped(o.parentId, ids, NoParent),
                              !.fromId = Mapped(o.fromId, ids, Unset),
                              !.toId = Mapped(o.toId, ids, Unset)] IN
    [k \in DOMAIN order |-> Create(NewId(k), clone(order[k]))]

PasteClipboard ==
    LET clones == CloneForPaste(clip) IN
    /\ clip # <<>>
    /\ Command("paste")
    /\ Do(<<clones>>)
    /\ selected' = [k \in DOMAIN clones |-> clones[k].id]
    /\ pasted' = [sig |-> Signature(clip), count |-> PasteCount(clip)]
    /\ UNCHANGED <<clip, snap>>

-----------------------------------------------------------------------------
\* What is done and done again is no new command.
Elsewhere ==
    /\ "undo" \in script.commands
    /\ last' = "none"
    /\ UNCHANGED <<selected, clip, pasted, snap, script, edits>>

ToggleSnap == Command("snap") /\ snap' = ~snap /\ UNCHANGED <<sessionVars, selected, clip, pasted>>

\* To what the board was when the session began.
RestoreSnapshot ==
    Command("restore") /\ Restored(script.objects) /\ UNCHANGED <<selected, clip, pasted, snap>>

BoardNext ==
    \/ \E tool \in DrawTools, p, q \in Spots : Draw(tool, p, q)
    \/ \E p, q \in Spots : CommitSpline(p, q) \/ Marquee(p, q)
    \/ \E p \in Spots : Place("text", p) \/ Place("sticker", p) \/ Mindmap(p) \/ AddImages(p, 2)
    \/ \E x, y \in DOMAIN objects : Connect(x, y)
    \/ \E c \in DOMAIN objects, end \in {"from", "to"}, p \in Spots : DragEnd(c, end, p)
    \/ \E c \in DOMAIN objects, v \in Lines : DragSegment(c, v)
    \/ \E x \in DOMAIN objects, p \in Spots : Move(x, p) \/ Resize(x, p)
    \/ \E x \in DOMAIN objects : RoundCorner(x, 8 * Px)
    \/ \E x \in DOMAIN objects, n \in 1 .. 2 : TypeText(x, n)
    \/ \E x \in DOMAIN objects, shift \in BOOLEAN : Pick(x, shift)
    \/ GroupSelected \/ UngroupSelected \/ DeleteSelected
    \/ \E kind \in Aligns : Align(kind)
    \/ \E axis \in {"x", "y"} : Distribute(axis)
    \/ \E action \in Restacks : Restack(action)
    \/ ApplyColor(1)
    \/ CopySelected \/ PasteClipboard \/ ToggleSnap
    \/ RestoreSnapshot
    \/ (Undo \/ Redo \/ Reconnect) /\ Elsewhere

BoardSpec == BoardInit /\ [][BoardNext]_vars
=============================================================================
