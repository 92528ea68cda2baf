---------------------------- MODULE MCBoard ----------------------------
(* Instances of BoardEditing. *)
EXTENDS BoardProperties, TLC

At(type, x, y, w, h, z) == ObjectOf(type, Box(x * Px, y * Px, w * Px, h * Px), z)
In(parent, o) == [o EXCEPT !.parentId = parent]

\* A frame with a lane, a note in the lane and a shape beside it, connected.
Framed ==
    (1 :> At("frame", 0, 0, 256, 192, 1)) @@ (2 :> In(1, At("lane", 0, 32, 256, 64, 2)))
    @@ (3 :> In(2, At("postit", 36, 36, 64, 32, 3))) @@ (4 :> At("roundrect", 320, 64, 64, 32, 4))
    @@ (5 :> ConnectorOf(3, 4, 5))

\* A group of a text and a line, and a sticker.
Grouped ==
    (1 :> At("group", 24, 24, 208, 112, 8)) @@ (2 :> In(1, At("text", 32, 32, 64, 32, 7)))
    @@ (3 :> In(1, [At("line", 96, 64, 64, 64, 9) EXCEPT !.points = <<Pt(0, 0), Pt(-64 * Px, 64 * Px)>>]))
    @@ (4 :> At("sticker", 96, 224, 64, 64, 3)) @@ (5 :> ConnectorOf(2, 3, 1))

Commands == {"draw", "spline", "place", "mindmap", "connect", "rewire", "segment", "images", "move",
             "resize", "corner", "type", "pick", "group", "ungroup", "delete", "arrange", "front",
             "forward", "color", "copy", "paste", "snap", "restore", "undo"}

Script(objs, picked, on, commands, spots, length) ==
    [objects |-> objs, selected |-> picked, snap |-> on, commands |-> commands, spots |-> spots,
     length |-> length]

SomeSpots == {Pt(40 * Px, 44 * Px), Pt(325 * Px, 150 * Px)}

\* Every command once, from six selections, and a few of them one after the other.
EditScripts ==
    {Script(Framed, s, on, Commands, SomeSpots, 1) : s \in {<<1>>, <<3, 4>>, <<2, 4, 3>>}, on \in BOOLEAN}
    \cup {Script(Grouped, s, on, Commands, SomeSpots, 1) :
              s \in {<<1, 4>>, <<4, 3, 2>>, <<4>>}, on \in BOOLEAN}
    \cup {Script(Grouped, <<4, 2>>, TRUE, {"move", "group", "ungroup", "delete", "undo"}, SomeSpots, 2),
          Script(Grouped, <<4, 2>>, TRUE, {"move", "group", "ungroup", "delete"}, SomeSpots, 3),
          Script(Framed, <<2, 4>>, FALSE, {"copy", "paste", "delete", "undo"}, SomeSpots, 4),
          Script(Framed, <<1>>, TRUE, {"draw", "images", "move", "undo"}, SomeSpots, 2),
          Script(Framed, <<3, 4>>, TRUE, {"arrange", "front", "forward", "type", "resize",
                                        "undo"}, SomeSpots, 2),
          Script(Framed, <<4>>, TRUE, {"rewire", "corner", "mindmap", "delete", "undo"}, SomeSpots, 2)}

\* Two shapes, a connector between any two of their sides, and two of the edits
\* that change its line.  The last spot is a quarter of a pixel off the others.
Linked(to, p, q) ==
    (1 :> At("rect", 0, 0, 64, 32, 0)) @@ (2 :> to)
    @@ (3 :> [ConnectorOf(1, 2, 1) EXCEPT !.fromSide = p, !.toSide = q, !.fromOffset = 1, !.toOffset = 1])

LineSpots == {Pt(0, 0), Pt(96 * Px, 20 * Px), Pt(64 * Px, 96 * Px + Px \div 4)}

LineScripts ==
    {Script(Linked(to, p, q), <<2>>, FALSE, {"move", "resize", "segment", "rewire"}, LineSpots, 2) :
        to \in {At("rect", 160, 96, 64, 32, 0),
                [At("line", 160, 96, 64, 32, 0) EXCEPT !.points = <<Pt(0, 0), Pt(-64 * Px, 32 * Px)>>]},
        p \in ToSet(Sides), q \in ToSet(Sides)}

MCScripts == EditScripts \cup LineScripts

MCLines == {-16 * Px, 160 * Px}
=============================================================================
