------------------------------ MODULE MCNavigation ------------------------------
(* Model checking Navigation: a page of recent titles, one of games, and a *)
(* tab without a page; the null items hold an index too small or too large.*)
EXTENDS Navigation

TwoTabs  == << 0, 1 >>
FewRows  == << 1, 2 >>
OneEach  == {<< 0, 3 >>, << 3, 0 >>}
================================================================================
