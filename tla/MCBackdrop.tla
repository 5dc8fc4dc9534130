------------------------------ MODULE MCBackdrop ------------------------------
(* Model checking Backdrop: four requests, so that each slot is used twice, *)
(* on a pool of two, which a burst of requests fills.                       *)
EXTENDS Backdrop

MCPaths == {"p", "q"}
MCUsers == 1..MaxSeq
================================================================================
