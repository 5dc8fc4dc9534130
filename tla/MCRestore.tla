------------------------------- MODULE MCRestore -------------------------------
(* Model checking Restore: a title with four snapshots, of which the second  *)
(* equals the newer one as far as the server compares them, and the list is *)
(* still longer than the array; and a title with none, so that every list,  *)
(* transfer and selection can meet the menu of another title.               *)
EXTENDS Restore, TLC

CONSTANTS game, app

TwoTitles == {game, app}

Saves(u, t) == [ r \in Roots |-> IF r = "UDATA" THEN u ELSE t ]

FourSnaps ==
  [ i \in 1..4 |->
      (app :> Saves(NoSave, NoSave)) @@
      (game :> CASE i = 1 -> Saves(NoSave, "x3")
                 [] i = 2 -> Saves(NoSave, "x3")
                 [] i = 3 -> Saves("g2", "x3")
                 [] i = 4 -> Saves("g1", "x1")) ]
================================================================================
