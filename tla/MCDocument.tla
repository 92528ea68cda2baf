----------------------------- MODULE MCDocument -----------------------------
(***************************************************************************)
(* Three objects, any of them a shape, a frame or a connector attached at  *)
(* one end, with every reference between them.                             *)
(***************************************************************************)
EXTENDS DocumentEdits

Values == {o \in Object : /\ o.type \in {"shape", "frame", "connector"}
                          /\ NoId \in {o.fromId, o.toId}
                          /\ o.type # "connector" => o.fromId = o.toId}

\* Creations, deletions and new parents.
CascadeEdits == {e \in Edit : /\ e.type = "create" => e.value \in Values
                              /\ e.type = "update" => e.path = "parentId"}
=============================================================================
