------------------------------- MODULE Shapes -------------------------------
(***************************************************************************)
(* The geometry and the object tree of the canvas: web/src/lib/ops.ts and   *)
(* the part of connectors.ts that attaches lines to shapes.                *)
(*                                                                         *)
(* Lengths are integers, Px units to the pixel, so that the halves and the  *)
(* quarters the code computes stay exact.  A list of coordinate pairs is a  *)
(* sequence of points.  Objects are a function from ids to records; ids are *)
(* numbers, in the order the objects were inserted, which is the order of   *)
(* Object.values.  A z of "a7" is the number 7.                            *)
(***************************************************************************)
EXTENDS Integers, Sequences, SequencesExt, FiniteSetsExt

CONSTANT Px

NoParent == 0   \* the empty parentId
Unset == -1     \* a field the object does not have

ASSUME PxAssumption == Px \in Nat \ {0}

MinOf(a, b) == IF a < b THEN a ELSE b
MaxOf(a, b) == IF a < b THEN b ELSE a
Clamp(v, lo, hi) == MaxOf(lo, MinOf(v, hi))
Dist(a, b) == IF a < b THEN b - a ELSE a - b

\* The elements of S from the first, where before(_, _) orders them strictly.
Sorted(S, before(_, _)) ==
    [i \in 1 .. Cardinality(S) |->
        CHOOSE x \in S : Cardinality({y \in S \ {x} : before(y, x)}) = i - 1]

\* SelectSeq, of which the provers know nothing, by what it is made of.
Filter(s, Test(_)) == FlattenSeq([i \in DOMAIN s |-> IF Test(s[i]) THEN <<s[i]>> ELSE <<>>])

Pt(x, y) == [x |-> x, y |-> y]
Box(x, y, w, h) == [x |-> x, y |-> y, w |-> w, h |-> h]

-----------------------------------------------------------------------------
\* Boxes

IsPath(o) == o.type \in {"line", "spline"}

\* A line is where its points are, whatever x, y, w and h it was drawn with.
ObjectAABB(o) ==
    IF IsPath(o) /\ o.points # <<>>
    THEN LET xs == {o.x + p.x : p \in ToSet(o.points)}
             ys == {o.y + p.y : p \in ToSet(o.points)} IN
         Box(Min(xs), Min(ys), Max({Px, Max(xs) - Min(xs)}), Max({Px, Max(ys) - Min(ys)}))
    ELSE Box(o.x, o.y, o.w, o.h)

\* Boxes that touch intersect.
BoxIntersects(a, b) ==
    /\ a.x + a.w >= b.x /\ b.x + b.w >= a.x
    /\ a.y + a.h >= b.y /\ b.y + b.h >= a.y

Padded(b, pad) == Box(b.x - pad, b.y - pad, b.w + 2 * pad, b.h + 2 * pad)

IntersectsView(box, view) == BoxIntersects(box, Padded(view, 80 * Px))

InBox(p, b) == p.x \in b.x .. b.x + b.w /\ p.y \in b.y .. b.y + b.h

ContainsPoint(o, p) == InBox(p, ObjectAABB(o))

CenterOf(o) == LET b == ObjectAABB(o) IN Pt(b.x + b.w \div 2, b.y + b.h \div 2)

UnionBoxes(boxes) ==
    LET x == Min({b.x : b \in boxes})
        y == Min({b.y : b \in boxes})
        r == Max({b.x + b.w : b \in boxes})
        e == Max({b.y + b.h : b \in boxes}) IN
    Box(x, y, Max({Px, r - x}), Max({Px, e - y}))

-----------------------------------------------------------------------------
\* The tree the parentIds make

ParentIn(objs, x) ==
    IF x \in DOMAIN objs /\ objs[x].parentId # Unset THEN objs[x].parentId ELSE NoParent

\* The parents of x, their parents, and so on; an id that is no object's ends
\* the walk, and so does, here, a cycle, where the code would not return.
Ancestors(objs, x) ==
    FoldLeft(LAMBDA up, i : up \cup ({ParentIn(objs, a) : a \in up} \ {NoParent}),
             {ParentIn(objs, x)} \ {NoParent},
             [i \in 1 .. Cardinality(DOMAIN objs) |-> i])

IsAncestor(objs, a, x) == a \in Ancestors(objs, x)

Descendants(objs, x) == {d \in DOMAIN objs : IsAncestor(objs, x, d)}

Unconnected(objs, ids) == {x \in ids \cap DOMAIN objs : objs[x].type # "connector"}

\* Mutant: what is in a shape stays behind.
MoveSetRoots(objs, ids) == Unconnected(objs, ids)

MoveSet(objs, ids) ==
    LET roots == Unconnected(objs, ids) IN
    roots \cup Unconnected(objs, UNION {Descendants(objs, x) : x \in roots})

IsGroup(objs, x) == x \in DOMAIN objs /\ objs[x].type = "group"

GroupRoot(objs, x) ==
    FoldLeft(LAMBDA cur, i : IF IsGroup(objs, ParentIn(objs, cur))
                             THEN ParentIn(objs, cur) ELSE cur,
             x, [i \in 1 .. Cardinality(DOMAIN objs) |-> i])

\* The smallest frame or lane under p that neither moves nor is in what moves.
ContainersAt(objs, p, moving) ==
    {x \in DOMAIN objs \ moving : /\ objs[x].type \in {"frame", "lane"}
                                  /\ Ancestors(objs, x) \cap moving = {}
                                  /\ ContainsPoint(objs[x], p)}

ContainerAt(objs, p, moving) ==
    LET hits == ContainersAt(objs, p, moving)
        area(x) == objs[x].w * objs[x].h IN
    IF hits = {} THEN NoParent
    ELSE CHOOSE x \in hits : \A y \in hits : area(x) < area(y) \/ (area(x) = area(y) /\ x <= y)

\* Co-moved containers keep their children, groups keep their members.
ParentAfterMove(objs, x, p, moving) ==
    LET current == ParentIn(objs, x) IN
    IF current # NoParent /\ (current \in moving \/ IsGroup(objs, current))
    THEN current ELSE ContainerAt(objs, p, moving)

-----------------------------------------------------------------------------
\* The order objects are drawn in

Digits[n \in Nat] == IF n < 10 THEN <<n>> ELSE Append(Digits[n \div 10], n % 10)

\* "a<m>" < "a<n>", compared as the strings they are: "-" comes before the
\* digits, and a string before the ones it begins.
ZStringLess(m, n) ==
    LET text(k) == IF k < 0 THEN <<-1>> \o Digits[-k] ELSE Digits[k]
        s == text(m)
        t == text(n)
        differ == {i \in 1 .. Min({Len(s), Len(t)}) : s[i] # t[i]} IN
    IF differ = {} THEN Len(s) < Len(t) ELSE s[Min(differ)] < t[Min(differ)]

Rank(type) == CASE type = "frame" -> 0 [] type = "lane" -> 1 [] type = "group" -> 2
                [] type = "connector" -> 4 [] OTHER -> 3

\* x is drawn before, that is below, y.
RenderOrder(objs, x, y) ==
    LET a == objs[x]
        b == objs[y] IN
    \/ Rank(a.type) < Rank(b.type)
    \/ /\ Rank(a.type) = Rank(b.type)
       /\ IF a.z = b.z THEN x < y ELSE ZStringLess(a.z, b.z)

\* The object the pointer is on: the topmost one under it.
HitTop(objs, p) ==
    LET hits == {x \in Unconnected(objs, DOMAIN objs) : ContainsPoint(objs[x], p)} IN
    IF hits = {} THEN NoParent
    ELSE CHOOSE x \in hits : \A y \in hits \ {x} : RenderOrder(objs, y, x)

NextZ(objs) == Max({0} \cup {objs[x].z + 1 : x \in DOMAIN objs})
=============================================================================
