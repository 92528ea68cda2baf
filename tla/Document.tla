------------------------------ MODULE Document ------------------------------
(***************************************************************************)
(* The board document: a partial map from object ids to objects, and the   *)
(* three edits an operation can ask for.  The server applies an operation  *)
(* with Document.Apply (internal/model/model.go); every browser applies    *)
(* the same operation to its replica with applyOp (web/src/lib/ops.ts).    *)
(* The two are translated separately here, so that their agreement is      *)
(* something to check.                                                     *)
(*                                                                         *)
(* Data is abstracted to what the edits read: an object keeps its type,    *)
(* the three references it can hold, its corner radius (a field the two    *)
(* sides treat differently) and one field, val, for all the others.        *)
(***************************************************************************)
EXTENDS FiniteSets

CONSTANTS
    ObjIds, \* ids an object may have
    Vals,   \* values of the scalar fields
    NoId,   \* the empty string in parentId, fromId and toId
    Absent  \* what an id that is no key of Document.Objects is bound to

-----------------------------------------------------------------------------
\* "shape" stands for every type that is neither a container nor a connector.
Types == {"shape", "group", "frame", "lane", "connector"}

IsContainer(type) == type \in {"group", "frame", "lane"}

Ref == ObjIds \cup {NoId}

Object == [type: Types, parentId: Ref, fromId: Ref, toId: Ref,
           cornerRadius: Vals, val: Vals]

ASSUME DocumentAssumption == NoId \notin ObjIds /\ Absent \notin Object

\* Document.Objects: some of the ids are bound, each to an object.
Objects == [ObjIds -> Object \cup {Absent}]

Bound(objs) == {x \in ObjIds : objs[x] # Absent}

NoObjects == [x \in ObjIds |-> Absent]

\* Mutant: setPath has no case for parentId.
ServerPathsButParent == {"fromId", "toId", "val"}

\* Fields setPath of the server has a case for ("val" for all the scalars) ...
ServerPaths == {"parentId", "fromId", "toId", "val"}

\* ... and the fields the browser's editing code updates.
Paths == ServerPaths \cup {"cornerRadius"}

Creates == [type: {"create"}, objectId: ObjIds, value: Object]

Updates == [type: {"update"}, objectId: ObjIds, path: {"val", "cornerRadius"},
            value: Vals]
           \cup
           [type: {"update"}, objectId: ObjIds, path: {"parentId", "fromId", "toId"},
            value: Ref]

Deletes == [type: {"delete"}, objectId: ObjIds]

Edit == Creates \cup Updates \cup Deletes

(***************************************************************************)
(* The server: Document.Apply.                                             *)
(***************************************************************************)

\* Mutant: connectors survive the objects they are attached to.
CascadeDeleteKeepingConnectors(objs, id) ==
    [x \in ObjIds |->
        IF x = id \/ x \notin Bound(objs) THEN Absent
        ELSE IF IsContainer(objs[id].type) /\ objs[x].parentId = id
        THEN [objs[x] EXCEPT !.parentId = NoId]
        ELSE objs[x]]

\* Children of a deleted container are unparented, and that `continue`s past
\* the test that removes connectors.
CascadeDelete(objs, id) ==
    LET Child(x)   == IsContainer(objs[id].type) /\ objs[x].parentId = id
        Dropped(x) == /\ objs[x].type = "connector"
                      /\ id \in {objs[x].fromId, objs[x].toId}
    IN  [x \in ObjIds |->
            IF x = id \/ x \notin Bound(objs) THEN Absent
            ELSE IF Child(x) THEN [objs[x] EXCEPT !.parentId = NoId]
            ELSE IF Dropped(x) THEN Absent
            ELSE objs[x]]

\* The error returns of Apply and of setPath.
Rejects(objs, e) ==
    \/ e.type \in {"update", "delete"} /\ e.objectId \notin Bound(objs)
    \/ e.type = "update" /\ e.path \notin ServerPaths

Apply(objs, e) ==
    CASE e.type = "create" -> [objs EXCEPT ![e.objectId] = e.value]
      [] e.type = "update" ->
            [objs EXCEPT ![e.objectId] = [@ EXCEPT ![e.path] = e.value]]
      [] e.type = "delete" -> CascadeDelete(objs, e.objectId)

(***************************************************************************)
(* A browser: applyOpToMap, which applyOp and applyOps share.              *)
(***************************************************************************)
\* Mutant: parentId: undefined in the place of parentId: ''.
CascadeDeleteUndefined(objs, id) ==
    [x \in ObjIds |->
        IF x = id \/ x \notin Bound(objs) THEN Absent
        ELSE IF objs[x].parentId = id THEN [objs[x] EXCEPT !.parentId = Absent]
        ELSE objs[x]]

CascadeDeleteLocal(objs, id) ==
    LET kept == {x \in Bound(objs) \ {id} :
                    \/ objs[x].parentId = id /\ IsContainer(objs[id].type)
                    \/ objs[x].type # "connector"
                    \/ objs[x].fromId # id /\ objs[x].toId # id}
    IN  [x \in ObjIds |->
            IF x \notin kept THEN Absent
            ELSE IF IsContainer(objs[id].type) /\ objs[x].parentId = id
            THEN [objs[x] EXCEPT !.parentId = NoId]
            ELSE objs[x]]

\* An operation a browser cannot apply leaves its replica as it was.  It knows
\* no list of paths: an update sets whatever field it names.
ApplyOp(objs, e) ==
    IF e.type = "create" THEN [objs EXCEPT ![e.objectId] = e.value]
    ELSE IF e.objectId \notin Bound(objs) THEN objs
    ELSE IF e.type = "update"
    THEN [objs EXCEPT ![e.objectId] = [@ EXCEPT ![e.path] = e.value]]
    ELSE CascadeDeleteLocal(objs, e.objectId)
=============================================================================
