----------------------------- MODULE MCThumbnails -----------------------------
(* Model checking Thumbnails: more titles than the cache holds images, so  *)
(* that evictions happen, and a pool that two titles can fill.             *)
EXTENDS Thumbnails

CONSTANTS t1, t2

TwoTitles == {t1, t2}

NoFile  == {}
OneFile == {t1}
================================================================================
