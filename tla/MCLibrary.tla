------------------------------- MODULE MCLibrary -------------------------------
(* Model checking Library: two pages with a folder each.                   *)
EXTENDS Library

CONSTANTS game1, app1

TwoPages   == << "Games", "Applications" >>
TwoTitles  == {game1, app1}
TheirPages == [ t \in TwoTitles |-> IF t = app1 THEN "Applications" ELSE "Games" ]
AllReadable == {}
================================================================================
