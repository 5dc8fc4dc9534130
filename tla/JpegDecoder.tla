------------------------------ MODULE JpegDecoder ------------------------------
(***************************************************************************)
(* The asynchronous JPEG decoder, src/src/libs/jpg_decoder/jpg_decoder.c.  *)
(*                                                                         *)
(* Three parties touch its state: the thread inside jpeg_decoder_queue(),  *)
(* jpeg_decoder_abort(), jpeg_decoder_init() or _deinit() (the client),    *)
(* the decoder thread, and, through the complete callback, the decoder     *)
(* thread running client code.  Every caller in the program holds the LVGL *)
(* lock (the draw event and the timer of dash_scroller.c, the focus change *)
(* of dash_backdrop.c), so at most one call is in progress: `call'.  The   *)
(* decoder thread runs in between any two of its steps.                    *)
(*                                                                         *)
(* A job's file and its pixels are abstracted to the outcome of decoding   *)
(* it; user_data is the identity of the client that queued it.             *)
(***************************************************************************)
EXTENDS Integers, Sequences

CONSTANTS
  PoolSize,   \* JPEG_DECODER_QUEUE_SIZE: the number of jpeg_t in the pool
  Users,      \* the user_data values: the client objects a job is done for
  Null        \* the null pointer

Slots == 1..PoolSize

ASSUME PoolSizeAssumption == PoolSize \in Nat \ {0}
ASSUME NullAssumption == Null \notin Slots /\ Null \notin Users
ASSUME NobodyAssumption ==
         Null \notin [user : Users \cup {Null}, cancelled : BOOLEAN]

VARIABLES
  state,      \* state[s]: "free", "queued" or "aborted" (jpeg_t.state)
  user,       \* user[s]: jpeg_t.user_data
  next,       \* next[s]: jpeg_t.next; it is never cleared
  qhead,      \* jpegdecomp_qhead
  mpool_free, \* jpeg_mpool_free
  sem,        \* the value of the semaphore jpegdecomp_queue
  running,    \* jpeg_decoder_running
  call,       \* the call of jpeg_decoder_queue in progress
  dpc,        \* where the decoder thread is
  cur,        \* its local `jpeg'
  image,      \* whether cur's decompressed_image is non-null
  stack       \* history: the slots linked and not yet popped, oldest first

queueVars   == << state, user, next, qhead, mpool_free, sem >>
decoderVars == << dpc, cur, image >>
vars        == << state, user, next, qhead, mpool_free, sem, running, call,
                  dpc, cur, image, stack >>

SlotState == {"free", "queued", "aborted"}
CallPc    == {"idle", "fill", "link", "post"}
DecoderPc == {"wait", "pop", "begin", "decode", "deliver", "release", "exit"}

Idle == [pc |-> "idle", slot |-> Null, user |-> Null]

FreeSlots == {s \in Slots : state[s] = "free"}

(***************************************************************************)
(* jpeg_decoder_init: a zeroed pool, and a new thread that waits.          *)
(***************************************************************************)
Init ==
  /\ state      = [s \in Slots |-> "free"]
  /\ user       = [s \in Slots |-> Null]
  /\ next       = [s \in Slots |-> Null]
  /\ qhead      = Null
  /\ mpool_free = 1
  /\ sem        = 0
  /\ running    = TRUE
  /\ call       = Idle
  /\ dpc        = "wait"
  /\ cur        = Null
  /\ image      = FALSE
  /\ stack      = << >>

(***************************************************************************)
(* jpeg_decoder_queue, in the four steps the decoder thread can tell       *)
(* apart: pick a slot under the mutex, fill it, link it under the mutex,   *)
(* post the semaphore.                                                     *)
(***************************************************************************)

(* Mutant: the first slot of the pool, whatever state it is in.            *)
Allocatable_Any(s) == mpool_free = s \/ (mpool_free = Null /\ s = 1)

(* The slot the pool hands out: the quick one once, then the first free.   *)
Allocatable(s) ==
  \/ mpool_free = s
  \/ /\ mpool_free = Null
     /\ s \in FreeSlots
     /\ \A t \in FreeSlots : s <= t

QueueAlloc(u) ==
  /\ running /\ call = Idle
  /\ \E s \in Slots :
       /\ Allocatable(s)
       /\ call' = [pc |-> "fill", slot |-> s, user |-> u]
  /\ mpool_free' = Null
  /\ UNCHANGED << state, user, next, qhead, sem, running, stack, decoderVars >>

(* Mutant: the semaphore is posted already before the job is linked.       *)
QueueFill_Posts ==
  /\ call.pc = "fill"
  /\ user'  = [user EXCEPT ![call.slot] = call.user]
  /\ state' = [state EXCEPT ![call.slot] = "queued"]
  /\ call'  = [call EXCEPT !.pc = "link"]
  /\ sem'   = sem + 1
  /\ UNCHANGED << next, qhead, mpool_free, running, stack, decoderVars >>

QueueFill ==
  /\ call.pc = "fill"
  /\ user'  = [user EXCEPT ![call.slot] = call.user]
  /\ state' = [state EXCEPT ![call.slot] = "queued"]
  /\ call'  = [call EXCEPT !.pc = "link"]
  /\ UNCHANGED << next, qhead, mpool_free, sem, running, stack, decoderVars >>

(* Mutant: the new head is not linked to the rest of the list.             *)
QueueLink_Drops ==
  /\ call.pc = "link"
  /\ qhead' = call.slot
  /\ stack' = Append(stack, call.slot)
  /\ call'  = [call EXCEPT !.pc = "post"]
  /\ UNCHANGED << state, user, next, mpool_free, sem, running, decoderVars >>

(* With an empty list the slot keeps the `next' of its previous use.       *)
QueueLink ==
  /\ call.pc = "link"
  /\ next'  = IF qhead = Null THEN next ELSE [next EXCEPT ![call.slot] = qhead]
  /\ qhead' = call.slot
  /\ stack' = Append(stack, call.slot)
  /\ call'  = [call EXCEPT !.pc = "post"]
  /\ UNCHANGED << state, user, mpool_free, sem, running, decoderVars >>

(* Mutant: the wake-up is forgotten.                                       *)
QueuePost_Forgets ==
  /\ call.pc = "post"
  /\ call' = Idle
  /\ UNCHANGED << state, user, next, qhead, mpool_free, sem, running, stack,
                  decoderVars >>

QueuePost ==
  /\ call.pc = "post"
  /\ sem'  = sem + 1
  /\ call' = Idle
  /\ UNCHANGED << state, user, next, qhead, mpool_free, running, stack,
                  decoderVars >>

(***************************************************************************)
(* jpeg_decoder_abort(handle): a compare-and-swap under the mutex.  The    *)
(* handle may be null, or of a job that finished long ago.                 *)
(***************************************************************************)
Aborted(s) ==
  IF s # Null /\ state[s] = "queued" THEN [state EXCEPT ![s] = "aborted"] ELSE state

Abort(s) ==
  /\ running /\ call = Idle
  /\ state' = Aborted(s)
  /\ UNCHANGED << user, next, qhead, mpool_free, sem, running, call, stack,
                  decoderVars >>

(***************************************************************************)
(* The decoder thread.                                                     *)
(***************************************************************************)
(* Mutant: the wait does not block.                                        *)
SemWait_Polls ==
  /\ dpc = "wait"
  /\ sem' = sem - 1
  /\ dpc' = IF running THEN "pop" ELSE "exit"
  /\ UNCHANGED << state, user, next, qhead, mpool_free, running, call, cur,
                  image, stack >>

SemWait ==
  /\ dpc = "wait" /\ sem > 0
  /\ sem' = sem - 1
  /\ dpc' = IF running THEN "pop" ELSE "exit"
  /\ UNCHANGED << state, user, next, qhead, mpool_free, running, call, cur,
                  image, stack >>

Pop ==
  /\ dpc = "pop" /\ qhead # Null
  /\ cur'   = qhead
  /\ qhead' = next[qhead]
  /\ stack' = SubSeq(stack, 1, Len(stack) - 1)
  /\ dpc'   = "begin"
  /\ UNCHANGED << state, user, next, mpool_free, sem, running, call, image >>

(* Mutant: an aborted job is left behind without freeing its slot.         *)
DropAborted_Leaks ==
  /\ dpc = "begin" /\ state[cur] = "aborted"
  /\ dpc' = "wait" /\ cur' = Null
  /\ UNCHANGED << queueVars, running, call, image, stack >>

(* The job was aborted while it waited: it is dropped without a callback.  *)
DropAborted ==
  /\ dpc = "begin" /\ state[cur] = "aborted"
  /\ dpc' = "release"
  /\ UNCHANGED << queueVars, running, call, cur, image, stack >>

(* The file cannot be opened or is no JPEG: no callback either.            *)
OpenFails ==
  /\ dpc = "begin" /\ state[cur] # "aborted"
  /\ dpc' = "release"
  /\ UNCHANGED << queueVars, running, call, cur, image, stack >>

(* Mutant: the state is not looked at before the work begins.              *)
StartDecode_Unchecked ==
  /\ dpc = "begin"
  /\ image' \in BOOLEAN
  /\ dpc'   = IF image' THEN "decode" ELSE "deliver"
  /\ UNCHANGED << queueVars, running, call, cur, stack >>

(* The header was read; the buffer may or may not have been allocated.     *)
StartDecode ==
  /\ dpc = "begin" /\ state[cur] # "aborted"
  /\ image' \in BOOLEAN
  /\ dpc'   = IF image' THEN "decode" ELSE "deliver"
  /\ UNCHANGED << queueVars, running, call, cur, stack >>

(* Mutant: an abort skips the scanline instead of leaving the loop.        *)
DecodeSeesAbort_Loops ==
  /\ dpc = "decode" /\ state[cur] = "aborted"
  /\ UNCHANGED << queueVars, running, call, stack, decoderVars >>

(* The scanline loop leaves on an abort, at the end of the image, or by    *)
(* the longjmp of a corrupt file, which skips the callback.                *)
DecodeSeesAbort ==
  /\ dpc = "decode" /\ state[cur] = "aborted"
  /\ image' = FALSE
  /\ dpc'   = "deliver"
  /\ UNCHANGED << queueVars, running, call, cur, stack >>

DecodeDone ==
  /\ dpc = "decode" /\ state[cur] # "aborted"
  /\ dpc' = "deliver"
  /\ UNCHANGED << queueVars, running, call, cur, image, stack >>

DecodeFails ==
  /\ dpc = "decode" /\ state[cur] # "aborted"
  /\ dpc'   = "release"
  /\ image' = FALSE
  /\ UNCHANGED << queueVars, running, call, cur, stack >>

(* complete_cb(decompressed_image, mem, w, h, user_data).                  *)
Deliver ==
  /\ dpc = "deliver"
  /\ dpc'   = "release"
  /\ image' = FALSE
  /\ UNCHANGED << queueVars, running, call, cur, stack >>

Release ==
  /\ dpc = "release"
  /\ state' = [state EXCEPT ![cur] = "free"]
  /\ cur'   = Null
  /\ dpc'   = "wait"
  /\ UNCHANGED << user, next, qhead, mpool_free, sem, running, call, image,
                  stack >>

(***************************************************************************)
(* jpeg_decoder_deinit wakes the thread up and joins it; what is still     *)
(* queued is abandoned.  A later jpeg_decoder_init starts afresh.          *)
(***************************************************************************)
Deinit ==
  /\ running /\ call = Idle
  /\ running' = FALSE
  /\ sem'     = sem + 1
  /\ UNCHANGED << state, user, next, qhead, mpool_free, call, stack,
                  decoderVars >>

Reinit ==
  /\ ~running /\ dpc = "exit"
  /\ state'      = [s \in Slots |-> "free"]
  /\ user'       = [s \in Slots |-> Null]
  /\ next'       = [s \in Slots |-> Null]
  /\ qhead'      = Null
  /\ mpool_free' = 1
  /\ sem'        = 0
  /\ running'    = TRUE
  /\ dpc'        = "wait"
  /\ stack'      = << >>
  /\ UNCHANGED << call, cur, image >>

(***************************************************************************)
(* The specification.                                                      *)
(***************************************************************************)
QueueStep == QueueFill \/ QueueLink \/ QueuePost

Client ==
  \/ \E u \in Users : QueueAlloc(u)
  \/ QueueStep
  \/ \E s \in Slots : Abort(s)
  \/ Deinit
  \/ Reinit

DecoderThread ==
  \/ SemWait \/ Pop
  \/ DropAborted \/ OpenFails \/ StartDecode
  \/ DecodeSeesAbort \/ DecodeDone \/ DecodeFails
  \/ Deliver \/ Release

Next == Client \/ DecoderThread

Spec == Init /\ [][Next]_vars

(* Both threads are preemptively scheduled and a call once begun goes on.  *)
FairSpec == Spec /\ WF_vars(DecoderThread) /\ WF_vars(QueueStep)

(***************************************************************************)
(* Properties.                                                             *)
(***************************************************************************)

(* Every variable holds a value of its C type.                             *)
TypeOK ==
  /\ state      \in [Slots -> SlotState]
  /\ user       \in [Slots -> Users \cup {Null}]
  /\ next       \in [Slots -> Slots \cup {Null}]
  /\ qhead      \in Slots \cup {Null}
  /\ mpool_free \in Slots \cup {Null}
  /\ sem        \in Nat
  /\ running    \in BOOLEAN
  /\ call       \in [pc : CallPc, slot : Slots \cup {Null},
                     user : Users \cup {Null}]
  /\ dpc        \in DecoderPc
  /\ cur        \in Slots \cup {Null}
  /\ image      \in BOOLEAN
  /\ stack      \in Seq(Slots)

Top == stack[Len(stack)]

InStack(s) == \E i \in 1..Len(stack) : stack[i] = s

(* The linked list read from qhead is, for as many entries as are waiting, *)
(* exactly the stack of waiting jobs, although `next' is never cleared and *)
(* what lies below may be stale or cyclic (jpg_decoder.c:89-92, 262-272).  *)
ListIsStack ==
  /\ stack # << >> => qhead = Top
  /\ \A i \in 1..(Len(stack) - 1) : next[stack[i + 1]] = stack[i]

(* A slot has at most one role: handed to the caller, waiting (once), or   *)
(* in the decoder's hands; so no step rewrites the fn, the user_data or    *)
(* the `next' of a job that another one is using (jpg_decoder.c:231-262).  *)
SlotHasOneRole ==
  /\ \A i, j \in 1..Len(stack) : stack[i] = stack[j] => i = j
  /\ ~InStack(cur)
  /\ call.pc \in {"fill", "link"} => call.slot # cur /\ ~InStack(call.slot)

(* A token of the semaphore stands for a linked job, whatever the timing   *)
(* of the posts and of the stop: the unguarded qhead dereference of        *)
(* jpg_decoder.c:90-91 never meets a null pointer.                         *)
PopFindsJob == dpc = "pop" => qhead # Null /\ stack # << >>

(* The pool leaks no slot: one that is not free is waiting, being linked   *)
(* or in the decoder's hands, so it comes back (jpg_decoder.c:186-187).    *)
BusySlotsAccounted ==
  \A s \in Slots :
    state[s] # "free" =>
      \/ s = cur
      \/ InStack(s)
      \/ call.pc = "link" /\ call.slot = s

(* Every slot is in one place, and no more than one.                       *)
SlotsAreKept == SlotHasOneRole /\ BusySlotsAccounted

(* Seen through the pointers, the decoder is a bounded stack of jobs: this *)
(* run of the list from qhead, as long as the semaphore says, is its       *)
(* waiting jobs, newest first.                                             *)
Pending ==
  sem + (IF call.pc = "post" THEN 1 ELSE 0) + (IF dpc = "pop" THEN 1 ELSE 0)
      - (IF running \/ dpc = "exit" THEN 0 ELSE 1)

Nth[i \in 1..Pending] == IF i = 1 THEN qhead ELSE next[Nth[i - 1]]

JobIn(s) == [user |-> user[s], cancelled |-> state[s] = "aborted"]

WaitingJobs == [i \in 1..Pending |-> JobIn(Nth[i])]

ActiveJob == IF cur = Null THEN Null ELSE JobIn(cur)

Phase ==
  CASE dpc = "begin"                 -> "started"
    [] dpc \in {"decode", "deliver"} -> "working"
    [] dpc = "release"               -> "over"
    [] OTHER                         -> "none"

Abstract ==
  INSTANCE JobStack WITH
    Capacity <- PoolSize,
    Nobody   <- Null,
    waiting  <- WaitingJobs,
    active   <- ActiveJob,
    phase    <- Phase,
    open     <- running

(* The decoder implements the job stack: jobs are started newest first     *)
(* with the user_data they were queued with, none is lost or served twice, *)
(* and one aborted while it waited is never worked on (jpg_decoder.c).     *)
ImplementsJobStack == Abstract!Spec

(* Once the client stops queueing, the pool empties: no wake-up is lost    *)
(* and no failure path keeps its slot.                                     *)
Drains ==
  <>[](running /\ call.pc = "idle") => <>[](\A s \in Slots : state[s] = "free")

(* A deinit ends: the decoder thread finishes its job and returns, so      *)
(* SDL_WaitThread in jpeg_decoder_deinit comes back.                       *)
DeinitReturns == ~running ~> dpc = "exit"

(***************************************************************************)
(* The inductive invariant behind them (proved in JpegDecoderProofs).      *)
(***************************************************************************)
(* The quick slot is there only before the first call ever made.           *)
QuickSlotUnused ==
  mpool_free # Null =>
    /\ mpool_free = 1 /\ call = Idle /\ stack = << >> /\ cur = Null
    /\ \A s \in Slots : state[s] = "free"

CallShape ==
  /\ call.pc # "idle" => call.slot \in Slots /\ call.user \in Users /\ running
  /\ call.pc = "idle" => call = Idle
  /\ call.pc = "fill" => state[call.slot] = "free"
  /\ call.pc = "link" =>
       state[call.slot] = "queued" /\ user[call.slot] = call.user

DecoderShape ==
  /\ cur # Null <=> dpc \in {"begin", "decode", "deliver", "release"}
  /\ cur # Null => state[cur] # "free"
  /\ dpc = "exit" => ~running
  /\ ~running => call = Idle /\ (dpc = "exit" \/ sem > 0)

WaitingAreBusy == \A i \in 1..Len(stack) : state[stack[i]] # "free"

TokensMatch == Len(stack) = Pending

IInv ==
  /\ TypeOK /\ QuickSlotUnused /\ CallShape /\ DecoderShape
  /\ WaitingAreBusy /\ TokensMatch
  /\ ListIsStack /\ SlotHasOneRole /\ BusySlotsAccounted

================================================================================
