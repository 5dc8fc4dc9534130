---------------------------- MODULE MCJpegDecoder ----------------------------
(* Model checking JpegDecoder: three slots, so that a list of two can form *)
(* above a stale link, and two clients.                                    *)
EXTENDS JpegDecoder, TLC

CONSTANTS u1, u2

MCUsers == {u1, u2}

UserSymmetry == Permutations(MCUsers)
==============================================================================
