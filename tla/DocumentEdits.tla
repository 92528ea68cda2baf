--------------------------- MODULE DocumentEdits ----------------------------
(***************************************************************************)
(* A document under a sequence of edits, made once with Document.Apply and *)
(* once with applyOp: the server's copy and the replica of a browser that  *)
(* sees the same edits in the same order.                                  *)
(***************************************************************************)
EXTENDS Document

CONSTANT Edits   \* the edits that may be asked for

ASSUME EditsAssumption == Edits \subseteq Edit

VARIABLES doc, replica
vars == <<doc, replica>>

\* NewDocument
Init == doc = NoObjects /\ replica = NoObjects

\* The hub leaves the document alone when Apply returns an error; the browser
\* has applied the edit before it asked.
Make(e) ==
    /\ doc' = IF Rejects(doc, e) THEN doc ELSE Apply(doc, e)
    /\ replica' = ApplyOp(replica, e)

Next == \E e \in Edits : Make(e)

Spec == Init /\ [][Next]_vars

-----------------------------------------------------------------------------
\* Both sides hold a document: an edit never leaves an object with a field of
\* the wrong kind (a parentId that is no id, a bound id without an object).
TypeOK == doc \in Objects /\ replica \in Objects

\* Edits of fields the server knows.
Understood == \A e \in Edits : e.type = "update" => e.path \in ServerPaths

\* The two implementations of the edits, in Go and in TypeScript, agree: on the
\* outcome of every edit, on what a deletion takes with it, and, with a browser
\* that is optimistic, on the edits that do nothing.
SidesAgree == replica = doc

\* A deletion unparents the children of a container, and leaves no connector
\* attached to the object, with two exceptions cascadeDelete makes: a connector
\* that was a child of the deleted container keeps the ends it had, and what was
\* attached to a connector the deletion took with it stays attached.
DeleteDetaches ==
    [][LET gone == Bound(doc) \ Bound(doc') IN
       \A id \in gone : \A x \in Bound(doc') :
          /\ doc'[x].parentId = id => ~IsContainer(doc[id].type)
          /\ doc'[x].type = "connector" /\ id \in {doc'[x].fromId, doc'[x].toId} =>
                \/ IsContainer(doc[id].type) /\ doc[x].parentId = id
                \/ doc[id].type = "connector" /\ gone # {id}]_vars
=============================================================================
