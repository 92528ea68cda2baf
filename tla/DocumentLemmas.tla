--------------------------- MODULE DocumentLemmas ---------------------------
(***************************************************************************)
(* Both sides' edits keep a document a document, and agree on every edit   *)
(* the server has a case for.                                              *)
(***************************************************************************)
EXTENDS Document, TLAPS

\* An accepted edit yields a document.
LEMMA ApplyType ==
    ASSUME NEW objs \in Objects, NEW e \in Edit, ~Rejects(objs, e)
    PROVE  Apply(objs, e) \in Objects
<1>1. CASE e \in Creates
  BY <1>1 DEF Creates, Apply, Objects
<1>2. CASE e \in Updates
  <2>1. e.type = "update" /\ e.objectId \in ObjIds /\ objs[e.objectId] \in Object
    BY <1>2 DEF Updates, Rejects, Bound, Objects
  <2>2. [objs[e.objectId] EXCEPT ![e.path] = e.value] \in Object
    BY <1>2, <2>1 DEF Updates, Object
  <2> QED
    BY <2>1, <2>2 DEF Apply, Objects
<1>3. CASE e \in Deletes
  <2>1. e.type = "delete" /\ e.objectId \in ObjIds
    BY <1>3 DEF Deletes
  <2>2. \A x \in Bound(objs) : [objs[x] EXCEPT !.parentId = NoId] \in Object
    BY DEF Bound, Objects, Object, Ref
  <2> QED
    BY <2>1, <2>2 DEF Apply, CascadeDelete, Objects, Bound
<1> QED
  BY <1>1, <1>2, <1>3 DEF Edit

\* A browser's edit yields a document, whatever it asks.
LEMMA ApplyOpType ==
    ASSUME NEW objs \in Objects, NEW e \in Edit
    PROVE  ApplyOp(objs, e) \in Objects
<1>1. CASE e \in Creates
  BY <1>1 DEF Creates, ApplyOp, Objects
<1>2. CASE e \in Updates /\ e.objectId \in Bound(objs)
  <2>1. e.type = "update" /\ e.objectId \in ObjIds /\ objs[e.objectId] \in Object
    BY <1>2 DEF Updates, Bound, Objects
  <2>2. [objs[e.objectId] EXCEPT ![e.path] = e.value] \in Object
    BY <1>2, <2>1 DEF Updates, Object
  <2> QED
    BY <1>2, <2>1, <2>2 DEF ApplyOp, Objects
<1>3. CASE e \in Deletes /\ e.objectId \in Bound(objs)
  <2>1. e.type = "delete"
    BY <1>3 DEF Deletes
  <2>2. \A x \in Bound(objs) : [objs[x] EXCEPT !.parentId = NoId] \in Object
    BY DEF Bound, Objects, Object, Ref
  <2> QED
    BY <1>3, <2>1, <2>2 DEF ApplyOp, CascadeDeleteLocal, Objects, Bound
<1>4. CASE e \notin Creates /\ e.objectId \notin Bound(objs)
  BY <1>4 DEF ApplyOp, Edit, Updates, Deletes
<1> QED
  BY <1>1, <1>2, <1>3, <1>4 DEF Edit

\* What a deletion leaves is the same on both sides.
LEMMA CascadesAgree ==
    ASSUME NEW objs \in Objects, NEW id \in Bound(objs)
    PROVE  CascadeDelete(objs, id) = CascadeDeleteLocal(objs, id)
BY DocumentAssumption DEF CascadeDelete, CascadeDeleteLocal, Bound, IsContainer

\* An edit of a field the server knows has one outcome: the browser's replica
\* becomes what the server's copy becomes, and stays what it was where the
\* server answers with an error.
LEMMA EditsAgree ==
    ASSUME NEW objs \in Objects, NEW e \in Edit,
           e.type = "update" => e.path \in ServerPaths
    PROVE  ApplyOp(objs, e) = IF Rejects(objs, e) THEN objs ELSE Apply(objs, e)
<1>1. CASE e \in Creates
  BY <1>1 DEF Creates, ApplyOp, Apply, Rejects
<1>2. CASE e \in Updates
  BY <1>2 DEF Updates, ApplyOp, Apply, Rejects
<1>3. CASE e \in Deletes
  BY <1>3, CascadesAgree DEF Deletes, ApplyOp, Apply, Rejects
<1> QED
  BY <1>1, <1>2, <1>3 DEF Edit
=============================================================================
