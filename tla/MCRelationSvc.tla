--------------------------- MODULE MCRelationSvc ---------------------------
(***************************************************************************)
(* RelationSvc for two people and two calls at a time, and for a group of  *)
(* two founders, one more user and four calls, two at a time.  Additions   *)
(* name one user, who may be the caller.                                   *)
(***************************************************************************)
EXTENDS RelationSvc

PickOne == {{u} : u \in Users}
Alike == Permutations(Servers)
=============================================================================
