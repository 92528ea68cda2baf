---------------------------- MODULE UndoHistory -----------------------------
(***************************************************************************)
(* What the undo and redo stacks of useBoardSession.ts promise: `past` holds *)
(* the newest steps, at most Depth of them, and `future` the steps that were *)
(* undone since the last edit.                                             *)
(***************************************************************************)
EXTENDS Integers, Sequences

CONSTANT Depth   \* 80 in the code, and never 0

VARIABLES past, future

\* The newest Depth steps.
Newest(steps) ==
    IF Len(steps) <= Depth THEN steps
    ELSE SubSeq(steps, Len(steps) - Depth + 1, Len(steps))

IsStack(s) == Len(s) \in 0 .. Depth /\ s = [i \in 1 .. Len(s) |-> s[i]]

HistoryInit == past = <<>> /\ future = <<>>

\* An edit pushes a step, or one after the other several: what is older goes
\* only when there are Depth newer ones, and what was undone is gone.
Pushed ==
    /\ future' = <<>>
    /\ IsStack(past')
    /\ \E n \in 0 .. Len(past) :
          /\ n < Len(past) => Len(past') = Depth
          /\ n <= Len(past')
          /\ SubSeq(past, Len(past) - n + 1, Len(past)) = SubSeq(past', 1, n)

Undone ==
    /\ past # <<>>
    /\ past' = SubSeq(past, 1, Len(past) - 1)
    /\ future' = Append(future, past[Len(past)])

Redone ==
    /\ future # <<>>
    /\ future' = SubSeq(future, 1, Len(future) - 1)
    /\ past' = Newest(Append(past, future[Len(future)]))

Forgotten == past' = <<>> /\ future' = <<>>

HistoryNext == Pushed \/ Undone \/ Redone \/ Forgotten

HistorySpec == HistoryInit /\ [][HistoryNext]_<<past, future>>

\* Only `past` is cut to Depth, but there is never more to redo than was undone.
HistoryBounded == Len(past) + Len(future) <= Depth
=============================================================================
