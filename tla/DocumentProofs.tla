--------------------------- MODULE DocumentProofs ---------------------------
(***************************************************************************)
(* The server's copy of a document and a browser's replica stay documents  *)
(* and stay equal, and a deletion leaves nothing attached to what it took. *)
(***************************************************************************)
EXTENDS DocumentEdits, DocumentLemmas

\* The two implementations agree on every sequence of edits, on documents of any
\* size, as long as no edit names a field setPath does not know.
THEOREM Agreement == ASSUME Understood PROVE Spec => [](TypeOK /\ SidesAgree)
<1> DEFINE Inv == TypeOK /\ SidesAgree
<1>1. Init => Inv
  BY DEF Init, TypeOK, SidesAgree, NoObjects, Objects
<1>2. Inv /\ [Next]_vars => Inv'
  <2> SUFFICES ASSUME Inv, [Next]_vars PROVE Inv'
    OBVIOUS
  <2>1. ASSUME NEW e \in Edits, Make(e) PROVE Inv'
    <3>1. e \in Edit /\ (e.type = "update" => e.path \in ServerPaths)
      BY EditsAssumption, Understood DEF Understood
    <3>2. doc \in Objects /\ replica = doc
      BY DEF TypeOK, SidesAgree
    <3>3. doc' \in Objects
      BY <2>1, <3>1, <3>2, ApplyType DEF Make
    <3>4. replica' = doc'
      BY <2>1, <3>1, <3>2, EditsAgree DEF Make
    <3> QED
      BY <3>3, <3>4 DEF TypeOK, SidesAgree
  <2>2. CASE UNCHANGED vars
    BY <2>2 DEF vars, TypeOK, SidesAgree
  <2> QED
    BY <2>1, <2>2 DEF Next
<1> QED
  BY <1>1, <1>2, PTL DEF Spec

\* Every edit a browser can ask for, of a field the server knows or not, leaves
\* a document on either side.
THEOREM Documents == Spec => []TypeOK
<1>1. Init => TypeOK
  BY DEF Init, TypeOK, NoObjects, Objects
<1>2. TypeOK /\ [Next]_vars => TypeOK'
  <2> SUFFICES ASSUME TypeOK, [Next]_vars PROVE TypeOK'
    OBVIOUS
  <2>1. ASSUME NEW e \in Edits, Make(e) PROVE TypeOK'
    <3>1. e \in Edit
      BY EditsAssumption
    <3>2. doc' \in Objects
      BY <2>1, <3>1, ApplyType DEF Make, TypeOK
    <3>3. replica' \in Objects
      BY <2>1, <3>1, ApplyOpType DEF Make, TypeOK
    <3> QED
      BY <3>2, <3>3 DEF TypeOK
  <2>2. CASE UNCHANGED vars
    BY <2>2 DEF vars, TypeOK
  <2> QED
    BY <2>1, <2>2 DEF Next
<1> QED
  BY <1>1, <1>2, PTL DEF Spec

-----------------------------------------------------------------------------
\* What DeleteDetaches says of a step from the document before to after.
Detached(before, after) ==
    LET gone == Bound(before) \ Bound(after) IN
    \A id \in gone : \A x \in Bound(after) :
       /\ after[x].parentId = id => ~IsContainer(before[id].type)
       /\ after[x].type = "connector" /\ id \in {after[x].fromId, after[x].toId} =>
             \/ IsContainer(before[id].type) /\ before[x].parentId = id
             \/ before[id].type = "connector" /\ gone # {id}

\* A step that unbinds no id has nothing to detach.
LEMMA NothingGone ==
    ASSUME NEW before, NEW after, Bound(before) \subseteq Bound(after)
    PROVE  Detached(before, after)
BY DEF Detached

\* An accepted create or update unbinds no id.
LEMMA EditBinds ==
    ASSUME NEW objs \in Objects, NEW e \in Creates \cup Updates, ~Rejects(objs, e)
    PROVE  Bound(objs) \subseteq Bound(Apply(objs, e))
<1>1. CASE e \in Creates
  <2>1. e.type = "create" /\ e.value # Absent
    BY <1>1, DocumentAssumption DEF Creates
  <2> QED
    BY <2>1 DEF Apply, Bound, Objects
<1>2. CASE e \in Updates
  <2>1. e.type = "update" /\ e.objectId \in ObjIds /\ objs[e.objectId] \in Object
    BY <1>2 DEF Updates, Rejects, Bound, Objects
  <2>2. [objs[e.objectId] EXCEPT ![e.path] = e.value] \in Object
    BY <1>2, <2>1 DEF Updates, Object
  <2>3. [objs[e.objectId] EXCEPT ![e.path] = e.value] # Absent
    BY <2>2, DocumentAssumption
  <2> QED
    BY <2>1, <2>3 DEF Apply, Bound, Objects
<1> QED
  BY <1>1, <1>2

\* cascadeDelete of a bound object: what it takes with the object are connectors,
\* and what it leaves is detached.
LEMMA CascadeDetaches ==
    ASSUME NEW objs \in Objects, NEW id \in Bound(objs)
    PROVE  Detached(objs, CascadeDelete(objs, id))
<1> DEFINE after == CascadeDelete(objs, id)
           gone  == Bound(objs) \ Bound(after)
<1>1. id \in gone
  BY DEF CascadeDelete, Bound
<1>2. \A x \in Bound(objs) : [objs[x] EXCEPT !.parentId = NoId] # Absent
  <2>1. \A x \in Bound(objs) : [objs[x] EXCEPT !.parentId = NoId] \in Object
    BY DEF Bound, Objects, Object, Ref
  <2> QED
    BY <2>1, DocumentAssumption
<1>3. \A y \in gone : y # id => objs[y].type = "connector"
  BY <1>2 DEF CascadeDelete, Bound
<1>4. \A x \in Bound(after) :
         /\ x \in Bound(objs) /\ x # id
         /\ \/ /\ IsContainer(objs[id].type) /\ objs[x].parentId = id
               /\ after[x] = [objs[x] EXCEPT !.parentId = NoId]
            \/ /\ ~(IsContainer(objs[id].type) /\ objs[x].parentId = id)
               /\ after[x] = objs[x]
               /\ ~(objs[x].type = "connector" /\ id \in {objs[x].fromId, objs[x].toId})
  BY <1>2 DEF CascadeDelete, Bound
<1>5. NoId \notin ObjIds /\ id \in ObjIds
  BY DocumentAssumption DEF Bound
<1>6. \A x \in Bound(objs) : objs[x] \in Object
  BY DEF Bound, Objects
<1> HIDE DEF after
<1>7. ASSUME NEW x \in Bound(after)
      PROVE  /\ after[x].parentId = id => ~IsContainer(objs[id].type)
             /\ after[x].type = "connector" /\ id \in {after[x].fromId, after[x].toId} =>
                   IsContainer(objs[id].type) /\ objs[x].parentId = id
  BY <1>4, <1>5, <1>6 DEF Object
<1>8. ASSUME NEW y \in gone, y # id
      PROVE  objs[y].type = "connector" /\ ~IsContainer(objs[y].type) /\ gone # {y}
  BY <1>1, <1>3, <1>8 DEF IsContainer
<1>9. \A y \in gone : \A x \in Bound(after) :
         /\ after[x].parentId = y => ~IsContainer(objs[y].type)
         /\ after[x].type = "connector" /\ y \in {after[x].fromId, after[x].toId} =>
               \/ IsContainer(objs[y].type) /\ objs[x].parentId = y
               \/ objs[y].type = "connector" /\ gone # {y}
  <2> HIDE DEF gone
  <2> QED
    BY <1>7, <1>8
<1> QED
  BY <1>9 DEF Detached, after

\* Whatever the edits, a deletion leaves nothing inside the deleted container and
\* no connector at the deleted object, but for cascadeDelete's two exceptions.
THEOREM DeletionsDetach == Spec => DeleteDetaches
<1>1. TypeOK /\ [Next]_vars => [Detached(doc, doc')]_vars
  <2> SUFFICES ASSUME TypeOK, NEW e \in Edits, Make(e) PROVE Detached(doc, doc')
    BY DEF Next
  <2>1. e \in Edit /\ doc \in Objects
    BY EditsAssumption DEF TypeOK
  <2>2. CASE Rejects(doc, e)
    BY <2>2, NothingGone DEF Make
  <2>3. CASE ~Rejects(doc, e) /\ e \in Deletes
    <3>1. e.type = "delete" /\ e.objectId \in Bound(doc)
      BY <2>3 DEF Deletes, Rejects
    <3>2. doc' = CascadeDelete(doc, e.objectId)
      BY <2>3, <3>1 DEF Make, Apply
    <3> QED
      BY <2>1, <3>1, <3>2, CascadeDetaches
  <2>4. CASE ~Rejects(doc, e) /\ e \notin Deletes
    <3>1. e \in Creates \cup Updates /\ doc' = Apply(doc, e)
      BY <2>1, <2>4 DEF Edit, Make
    <3> QED
      BY <2>1, <2>4, <3>1, EditBinds, NothingGone
  <2> QED
    BY <2>2, <2>3, <2>4
<1>2. [Detached(doc, doc')]_vars <=>
         [LET gone == Bound(doc) \ Bound(doc') IN
          \A id \in gone : \A x \in Bound(doc') :
             /\ doc'[x].parentId = id => ~IsContainer(doc[id].type)
             /\ doc'[x].type = "connector" /\ id \in {doc'[x].fromId, doc'[x].toId} =>
                   \/ IsContainer(doc[id].type) /\ doc[x].parentId = id
                   \/ doc[id].type = "connector" /\ gone # {id}]_vars
  BY DEF Detached
<1> QED
  BY <1>1, <1>2, Documents, PTL DEF Spec, DeleteDetaches
=============================================================================
