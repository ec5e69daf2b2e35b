---------------------------- MODULE RelationSvc ----------------------------
(***************************************************************************)
(* internal/relation: friends and groups.  They have no row in common, so  *)
(* their calls do not affect each other and a behaviour is one of either.  *)
(***************************************************************************)
EXTENDS Friends, Groups

VARIABLE part
vars == <<part, friendVars, groupVars>>

Init == part \in {"friends", "groups"} /\ InitFriends /\ InitGroups

Next ==
    /\ UNCHANGED part
    /\ \/ part = "friends" /\ NextFriends /\ UNCHANGED groupVars
       \/ part = "groups" /\ NextGroups /\ UNCHANGED friendVars

Spec == Init /\ [][Next]_vars
=============================================================================
