------------------------------ MODULE MCStaff ------------------------------
(* Small instances of the staff administration for TLC. *)
EXTENDS Staff, TLC

MCSeedRoles == <<"ADMIN", "SUPER_ADMIN">>
MCSeedUsers == <<<<"superadmin", "SUPER_ADMIN">>>>

(* An edit changes one field.                                                *)
OneChange ==
  \A w \in Workers : call'[w].step \in {"mayGrant", "update"} =>
    LET c == call'[w] IN
    (IF c.ids = {} THEN 0 ELSE 1) + Cardinality({c.status, c.email} \ {None}) = 1

(* Links and documents have nothing to do with each other, nor with the seed. *)
NoLinks     == \A l \in LinkIds : links[l].status = "NEVER"
NoDocuments == \A d \in DocumentIds : documents[d].status = "NONE"

Seeds       == seed.at \in 1 .. LastStatement

OneConcern == (~NoLinks => NoDocuments /\ ~Seeds) /\ (~NoDocuments => ~Seeds)

Symmetry == Permutations(Workers) \cup Permutations(UserIds) \cup Permutations(RoleIds)
=============================================================================
