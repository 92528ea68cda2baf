----------------------------- MODULE Arranging ------------------------------
(***************************************************************************)
(* Where the canvas puts what is dragged, aligned, distributed or restacked: *)
(* web/src/lib/snap.ts and web/src/lib/layout.ts.                          *)
(***************************************************************************)
EXTENDS Shapes

Grid == 32 * Px
Threshold == 8 * Px

Ascending(ids) == Sorted(ids, LAMBDA x, y : x < y)

-----------------------------------------------------------------------------
\* Snapping, on one axis at a time

Size(axis) == IF axis = "x" THEN "w" ELSE "h"

\* The start, the middle and the end of every box that does not move.
CollectObjectTargets(objs, exclude, axis) ==
    LET ids == Ascending(Unconnected(objs, DOMAIN objs) \ exclude)
        lines(x) == LET b == ObjectAABB(objs[x]) IN
                    <<b[axis], b[axis] + b[Size(axis)] \div 2, b[axis] + b[Size(axis)]>> IN
    FlattenSeq([i \in DOMAIN ids |-> lines(ids[i])])

GridTargetsNear(v) ==
    LET base == ((2 * v + Grid) \div (2 * Grid)) * Grid IN
    [i \in 1 .. 5 |-> base + (i - 3) * Grid]

\* The nearest line closer than the threshold, the first of several; v itself
\* if there is none.
SnapValue(v, targets) ==
    LET all == targets \o GridTargetsNear(v)
        near == {i \in DOMAIN all : Dist(v, all[i]) < Threshold} IN
    IF near = {} THEN v
    ELSE all[CHOOSE i \in near : \A j \in near :
                 Dist(v, all[i]) < Dist(v, all[j])
                 \/ (Dist(v, all[i]) = Dist(v, all[j]) /\ i <= j)]

\* Mutant: the first that is near a line pulls.
SnapAxisFirst(pos, size, targets) ==
    LET at == <<pos, pos + size \div 2, pos + size>>
        pull == [i \in 1 .. 3 |-> SnapValue(at[i], targets) - at[i]]
        pulls == {i \in 1 .. 3 : pull[i] # 0} IN
    IF pulls = {} THEN pos ELSE pos + pull[Min(pulls)]

\* Of the start, the middle and the end the one that has the least way to go to
\* its line pulls.  One that is near no line has no way to go, and holds the box.
SnapAxis(pos, size, targets) ==
    LET at == <<pos, pos + size \div 2, pos + size>>
        pull == [i \in 1 .. 3 |-> SnapValue(at[i], targets) - at[i]]
        way(i) == Dist(pull[i], 0)
        best == CHOOSE i \in 1 .. 3 : \A j \in 1 .. 3 :
                    way(i) < way(j) \/ (way(i) = way(j) /\ i <= j) IN
    pos + pull[best]

SnapBox(box, enabled, objs, exclude) ==
    IF enabled
    THEN Pt(SnapAxis(box.x, box.w, CollectObjectTargets(objs, exclude, "x")),
            SnapAxis(box.y, box.h, CollectObjectTargets(objs, exclude, "y")))
    ELSE Pt(box.x, box.y)

\* Both edges snap, whichever one is dragged; no side gets shorter than 8 pixels.
SnapResizeBox(box, enabled, objs, exclude) ==
    LET xs == CollectObjectTargets(objs, exclude, "x")
        ys == CollectObjectTargets(objs, exclude, "y")
        x == SnapValue(box.x, xs)
        y == SnapValue(box.y, ys) IN
    IF enabled
    THEN Box(x, y, MaxOf(8 * Px, SnapValue(box.x + box.w, xs) - x),
                   MaxOf(8 * Px, SnapValue(box.y + box.h, ys) - y))
    ELSE box

-----------------------------------------------------------------------------
\* Patches: what a command asks to be updated, in order

Patch(id, path, value) == [id |-> id, path |-> path, value |-> value]

LayoutTargets(objs, ids) == Filter(ids, LAMBDA x : x \in Unconnected(objs, DOMAIN objs))

\* Mutant: an object is taken to be where its box is.
AlignPatchesAsBoxes(kind, ids, objs) ==
    LET items == LayoutTargets(objs, ids)
        axis == IF kind \in {"left", "center", "right"} THEN "x" ELSE "y"
        size == Size(axis)
        b(i) == ObjectAABB(objs[items[i]])
        lo == Min({b(i)[axis] : i \in DOMAIN items})
        hi == Max({b(i)[axis] + b(i)[size] : i \in DOMAIN items})
        to(i) == CASE kind \in {"left", "top"} -> lo
                   [] kind \in {"right", "bottom"} -> hi - b(i)[size]
                   [] OTHER -> (lo + hi) \div 2 - b(i)[size] \div 2 IN
    IF Len(items) < 2 THEN <<>>
    ELSE [i \in DOMAIN items |-> Patch(items[i], axis, to(i))]

\* The boxes move to a common edge or middle; an object keeps its distance from
\* its box, which is not where a line's x and y are.
AlignPatches(kind, ids, objs) ==
    LET items == LayoutTargets(objs, ids)
        axis == IF kind \in {"left", "center", "right"} THEN "x" ELSE "y"
        size == Size(axis)
        b(i) == ObjectAABB(objs[items[i]])
        lo == Min({b(i)[axis] : i \in DOMAIN items})
        hi == Max({b(i)[axis] + b(i)[size] : i \in DOMAIN items})
        to(i) == CASE kind \in {"left", "top"} -> lo
                   [] kind \in {"right", "bottom"} -> hi - b(i)[size]
                   [] OTHER -> (lo + hi) \div 2 - b(i)[size] \div 2 IN
    IF Len(items) < 2 THEN <<>>
    ELSE [i \in DOMAIN items |->
             Patch(items[i], axis, to(i) + objs[items[i]][axis] - b(i)[axis])]

\* Equal gaps between the first and the last, by where they start.
DistributePatches(axis, ids, objs) ==
    LET items == LayoutTargets(objs, ids)
        size == Size(axis)
        b(x) == ObjectAABB(objs[x])
        before(x, y) == \/ b(x)[axis] < b(y)[axis]
                        \/ /\ b(x)[axis] = b(y)[axis]
                           /\ \E i, j \in DOMAIN items : i < j /\ items[i] = x /\ items[j] = y
        row == Sorted(ToSet(items), before)
        n == Len(items)
        taken[i \in 0 .. n] == IF i = 0 THEN 0 ELSE taken[i - 1] + b(row[i])[size]
        span == b(row[n])[axis] + b(row[n])[size] - b(row[1])[axis]
        gap == (span - taken[n]) \div (n - 1)
        to(i) == b(row[1])[axis] + taken[i - 1] + (i - 1) * gap IN
    IF n < 3 THEN <<>>
    ELSE [i \in 1 .. n |-> Patch(row[i], axis, to(i) + objs[row[i]][axis] - b(row[i])[axis])]

\* The stack from the bottom, by the numbers in z.
Stack(objs) ==
    Sorted(DOMAIN objs, LAMBDA x, y : \/ objs[x].z < objs[y].z
                                            \/ (objs[x].z = objs[y].z /\ x < y))

\* To the front or the back: numbers beyond all others, in the order of ids.
BeyondPatches(action, ids, objs) ==
    LET here == Filter(ids, LAMBDA x : x \in DOMAIN objs)
        zs == {objs[x].z : x \in DOMAIN objs}
        first == IF action = "front" THEN Max(zs) + 1 ELSE Min(zs) - Len(here) IN
    [i \in DOMAIN here |-> Patch(here[i], "z", first + i - 1)]

\* Forward or backward: each trades places with its neighbour, unless that is
\* selected too.  The z that are traded are those of before all trades.
StepPatches(action, ids, objs) ==
    LET dir == IF action = "forward" THEN 1 ELSE -1
        stack == Stack(objs)
        order == IF dir = 1 THEN Reverse(stack) ELSE stack
        trade(st, x) ==
            LET i == SelectInSeq(st.stack, LAMBDA y : y = x)
                j == i + dir IN
            IF x \notin ToSet(ids) \/ j \notin DOMAIN st.stack \/ st.stack[j] \in ToSet(ids)
            THEN st
            ELSE LET y == st.stack[j] IN
                 [stack |-> [st.stack EXCEPT ![i] = y, ![j] = x],
                  out |-> st.out \o <<Patch(x, "z", objs[y].z), Patch(y, "z", objs[x].z)>>] IN
    FoldLeft(trade, [stack |-> stack, out |-> <<>>], order).out

ZPatches(action, ids, objs) ==
    IF ToSet(ids) \cap DOMAIN objs = {} THEN <<>>
    ELSE IF action \in {"front", "back"} THEN BeyondPatches(action, ids, objs)
    ELSE StepPatches(action, ids, objs)
=============================================================================
