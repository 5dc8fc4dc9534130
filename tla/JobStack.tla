-------------------------------- MODULE JobStack --------------------------------
(***************************************************************************)
(* What the decoder of src/src/libs/jpg_decoder promises its clients: a    *)
(* bounded stack of jobs, served newest first by one worker.  A job that   *)
(* is cancelled before the worker starts on it is dropped without a        *)
(* callback; one that was not may be called back, or may fail silently.    *)
(***************************************************************************)
EXTENDS Integers, Sequences

CONSTANTS Capacity, Users, Nobody

VARIABLES
  waiting,  \* the jobs not started, newest first: [user, cancelled]
  active,   \* the job the worker has, or Nobody
  phase,    \* how far it is with it: "none", "started", "working", "over"
  open      \* whether the decoder accepts jobs

vars == << waiting, active, phase, open >>

Load == Len(waiting) + (IF active = Nobody THEN 0 ELSE 1)

Init == waiting = << >> /\ active = Nobody /\ phase = "none" /\ open = TRUE

Submit(u) ==
  /\ open /\ Load < Capacity
  /\ waiting' = << [user |-> u, cancelled |-> FALSE] >> \o waiting
  /\ UNCHANGED << active, phase, open >>

CancelWaiting(i) ==
  /\ open /\ ~waiting[i].cancelled
  /\ waiting' = [waiting EXCEPT ![i].cancelled = TRUE]
  /\ UNCHANGED << active, phase, open >>

CancelActive ==
  /\ open /\ active # Nobody /\ ~active.cancelled
  /\ active' = [active EXCEPT !.cancelled = TRUE]
  /\ UNCHANGED << waiting, phase, open >>

Start ==
  /\ active = Nobody /\ waiting # << >>
  /\ active'  = Head(waiting)
  /\ waiting' = Tail(waiting)
  /\ phase'   = "started"
  /\ UNCHANGED open

(* Only a job that is not cancelled is worked on, and so called back.      *)
Work ==
  /\ phase = "started" /\ ~active.cancelled
  /\ phase' = "working"
  /\ UNCHANGED << waiting, active, open >>

Conclude ==
  /\ phase \in {"started", "working"}
  /\ phase' = "over"
  /\ UNCHANGED << waiting, active, open >>

Retire ==
  /\ phase = "over"
  /\ active' = Nobody
  /\ phase'  = "none"
  /\ UNCHANGED << waiting, open >>

Close == open /\ open' = FALSE /\ UNCHANGED << waiting, active, phase >>

Reopen ==
  /\ ~open /\ active = Nobody
  /\ waiting' = << >>
  /\ open'    = TRUE
  /\ UNCHANGED << active, phase >>

Next ==
  \/ \E u \in Users : Submit(u)
  \/ \E i \in 1..Len(waiting) : CancelWaiting(i)
  \/ CancelActive
  \/ Start \/ Work \/ Conclude \/ Retire
  \/ Close \/ Reopen

Spec == Init /\ [][Next]_vars

================================================================================
