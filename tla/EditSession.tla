---------------------------- MODULE EditSession -----------------------------
(***************************************************************************)
(* One user's objects, their copy on the server, and the undo and redo stacks *)
(* (web/src/lib/useBoardSession.ts over web/src/lib/ops.ts).               *)
(*                                                                         *)
(* The connection is up and every operation is answered before the next      *)
(* command; BoardSync is about what happens otherwise.                     *)
(***************************************************************************)
EXTENDS Shapes

CONSTANT Depth   \* how many steps the undo stack keeps

ASSUME DepthAssumption == Depth \in Nat \ {0}

VARIABLES
    objects,   \* the replica that is drawn
    server,    \* the server's document
    undo,      \* steps: [undo |-> inverse operations, redo |-> operations]
    redo

sessionVars == <<objects, server, undo, redo>>

H == INSTANCE UndoHistory WITH past <- undo, future <- redo

-----------------------------------------------------------------------------
\* Operations

Create(x, o) == [type |-> "create", id |-> x, path |-> "", value |-> o]
Update(x, path, v) == [type |-> "update", id |-> x, path |-> path, value |-> v]
Delete(x) == [type |-> "delete", id |-> x, path |-> "", value |-> Unset]

IsContainer(o) == o.type \in {"group", "frame", "lane"}

Put(objs, x, o) == [y \in DOMAIN objs \cup {x} |-> IF y = x THEN o ELSE objs[y]]

\* Mutant: what was connected stays.
CascadeKeepingLines(objs, x) ==
    [y \in DOMAIN objs \ {x} |->
        IF objs[y].parentId = x THEN [objs[y] EXCEPT !.parentId = NoParent] ELSE objs[y]]

\* The children of a container stay, in no container; what is connected to the
\* object goes with it.
Cascade(objs, x) ==
    LET child(y) == IsContainer(objs[x]) /\ objs[y].parentId = x
        attached(y) == objs[y].type = "connector" /\ x \in {objs[y].fromId, objs[y].toId}
        rest == {y \in DOMAIN objs \ {x} : child(y) \/ ~attached(y)} IN
    [y \in rest |-> IF child(y) THEN [objs[y] EXCEPT !.parentId = NoParent] ELSE objs[y]]

ApplyOp(objs, op) ==
    IF op.type = "create" THEN Put(objs, op.id, op.value)
    ELSE IF op.id \notin DOMAIN objs THEN objs
    ELSE IF op.type = "update" THEN [objs EXCEPT ![op.id][op.path] = op.value]
    ELSE Cascade(objs, op.id)

ApplyOps(objs, ops) == FoldLeft(ApplyOp, objs, ops)

\* The fields an object may be without; an update to nothing is sent without a
\* value, and refused, and so is one of the corner radius.
Refused(op) ==
    /\ op.type = "update"
    /\ \/ op.path = "cornerRadius"
       \/ op.path = "parentId" /\ op.value = Unset

ServerApplyOps(objs, ops) == ApplyOps(objs, Filter(ops, LAMBDA op : ~Refused(op)))

\* Mutant: an inverse that sets what the operation sets.
InverseOfNew(objs, op) ==
    IF op.type = "create" THEN <<Delete(op.id)>>
    ELSE IF op.id \notin DOMAIN objs THEN <<>>
    ELSE IF op.type = "update" THEN <<op>>
    ELSE <<Create(op.id, objs[op.id])>>

\* Computed from the objects that are drawn, which an edit of several operations
\* changes only at its end.
InverseOf(objs, op) ==
    IF op.type = "create" THEN <<Delete(op.id)>>
    ELSE IF op.id \notin DOMAIN objs THEN <<>>
    ELSE IF op.type = "update" THEN <<Update(op.id, op.path, objs[op.id][op.path])>>
    ELSE <<Create(op.id, objs[op.id])>>

-----------------------------------------------------------------------------
\* Batches, undo and redo

\* Mutant: only the last operation is done again.
StepOfLast(objs, batch) ==
    [undo |-> FlattenSeq([i \in DOMAIN batch |-> InverseOf(objs, batch[i])]),
     redo |-> IF batch = <<>> THEN <<>> ELSE <<Last(batch)>>]

\* The step of a batch holds what can be undone.
StepOf(objs, batch) ==
    [undo |-> FlattenSeq([i \in DOMAIN batch |-> InverseOf(objs, batch[i])]),
     redo |-> Filter(batch, LAMBDA op : InverseOf(objs, op) # <<>>)]

\* deleteObject sends nothing for what is not there.
Sent(objs, batch) ==
    Filter(batch, LAMBDA op : op.type = "delete" => op.id \in DOMAIN objs)

\* The steps of the batches that can be undone.
StepsOf(objs, batches) ==
    Filter([i \in DOMAIN batches |-> StepOf(objs, batches[i])], LAMBDA step : step.undo # <<>>)

\* Mutant: what was undone can still be redone.
PushUndoKeepingRedo(steps) == undo' = H!Newest(undo \o steps) /\ UNCHANGED redo

PushUndo(steps) ==
    /\ undo' = H!Newest(undo \o steps)
    /\ redo' = IF steps = <<>> THEN redo ELSE <<>>

\* A command: its batches one after the other, in one event handler.
Do(batches) ==
    LET sent == [i \in DOMAIN batches |-> Sent(objects, batches[i])]
        ops == FlattenSeq(sent) IN
    /\ objects' = ApplyOps(objects, ops)
    /\ server' = ServerApplyOps(server, ops)
    /\ PushUndo(StepsOf(objects, sent))

ReplayOps(ops) ==
    /\ objects' = ApplyOps(objects, ops)
    /\ server' = ServerApplyOps(server, ops)

Undo ==
    /\ undo # <<>>
    /\ ReplayOps(Reverse(Last(undo).undo))
    /\ undo' = Front(undo)
    /\ redo' = Append(redo, Last(undo))

Redo ==
    /\ redo # <<>>
    /\ ReplayOps(Last(redo).redo)
    /\ redo' = Front(redo)
    /\ undo' = H!Newest(Append(undo, Last(redo)))

\* The state a new connection begins with replaces the objects and leaves the
\* stacks as they are.
Reconnect ==
    /\ objects # server
    /\ objects' = server
    /\ UNCHANGED <<server, undo, redo>>

\* A snapshot was restored: the second state of a connection.
Restored(objs) ==
    /\ objects' = objs
    /\ server' = objs
    /\ undo' = <<>> /\ redo' = <<>>

-----------------------------------------------------------------------------
Rewind(objs, steps) == FoldLeft(LAMBDA o, step : ApplyOps(o, Reverse(step.undo)), objs, Reverse(steps))

\* A step rewound restores the objects it was made from.  A deletion is the
\* exception: what it made the others lose, it does not give back to them.
Restores(before, after, back) ==
    LET gone == DOMAIN before \ DOMAIN after IN
    /\ \A x \in DOMAIN before \ DOMAIN back :
          /\ before[x].type = "connector"
          /\ gone \cap {before[x].fromId, before[x].toId} # {}
    /\ \A x \in DOMAIN back :
          /\ x \in DOMAIN before
          /\ back[x] = IF before[x].parentId \in gone
                       THEN [before[x] EXCEPT !.parentId = back[x].parentId]
                       ELSE before[x]

\* What is undone while it is still in effect can be done again: the same objects
\* come back, with the same exception for what the undo deletes.
RedoRepeats ==
    [][Len(redo') > Len(redo) =>
          LET again == Last(redo').redo IN
          ApplyOps(objects, again) = objects => Restores(objects, objects', ApplyOps(objects', again))
      ]_sessionVars

\* The stacks do what UndoHistory promises.
UndoIsHistory == H!HistorySpec

\* The stacks together never hold more than Depth steps.
HistoryBounded == H!HistoryBounded

\* "Real-time multi-user boards (WebSocket sync)" (README.md:11): the server is
\* told everything the user sees.  It is not: an object that was in no frame
\* before it was dropped into one stays in it there, when that is undone.
ServerFollows ==
    /\ DOMAIN server = DOMAIN objects
    /\ \A x \in DOMAIN objects : ParentIn(server, x) = ParentIn(objects, x)
=============================================================================
