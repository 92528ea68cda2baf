---------------------------- MODULE MCBoardSync -----------------------------
(***************************************************************************)
(* Small instances of BoardSync for TLC.  The document starts with a frame  *)
(* "a", a shape "b" in it and a connector "k" between them.                *)
(***************************************************************************)
EXTENDS BoardSync

CONSTANTS c1, c2, mcp, a, b, k, v0, v1, v2

Shape(parent, v) == [type |-> "shape", parentId |-> parent, fromId |-> NoId,
                     toId |-> NoId, cornerRadius |-> v0, val |-> v]
Frame(v) == [Shape(NoId, v) EXCEPT !.type = "frame"]

Set(id, path, v) == [type |-> "update", objectId |-> id, path |-> path, value |-> v]
New(id, obj) == [type |-> "create", objectId |-> id, value |-> obj]
Del(id) == [type |-> "delete", objectId |-> id]

Connector(from, to) ==
    [Shape(NoId, v0) EXCEPT !.type = "connector", !.fromId = from, !.toId = to]

MCDoc == (a :> Frame(v0)) @@ (b :> Shape(a, v0)) @@ (k :> Connector(a, b))

EditsBy(f) == [x \in Clients \cup {Agent} |-> IF x \in DOMAIN f THEN f[x] ELSE {}]
NoLive == [x \in Clients |-> {}]

\* One writer, and the agent, who deletes what the writer is editing.
OneWriter == EditsBy((c1 :> {Set(b, "val", v1)}) @@ (mcp :> {Del(b)}))

\* Edits of different actors commute.
Commuting == EditsBy((c1 :> {Set(a, "val", v1), Set(a, "val", v2)}) @@
                     (c2 :> {Set(b, "parentId", NoId)}) @@
                     (mcp :> {Set(k, "val", v1)}))

\* The only writer drags, and drops.
Alone == EditsBy(c1 :> {Set(b, "val", v1)})
Dragging == [x \in Clients |-> {Set(b, "val", v2)}]
=============================================================================
