---------------------------- MODULE MCContentSync ----------------------------
(* Instances of ContentSync: two pages, in two sections or in the same one. *)
EXTENDS ContentSync, TLC

CONSTANTS s1, s2, p1, p2
PagesApart == p1 :> s1 @@ p2 :> s2
PagesTogether == p1 :> s1 @@ p2 :> s1
=============================================================================
