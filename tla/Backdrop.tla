-------------------------------- MODULE Backdrop --------------------------------
(***************************************************************************)
(* The blurred backdrop behind the rail, src/src/dash_backdrop.c.          *)
(*                                                                         *)
(* Focusing a title asks the JPEG decoder for its fanart; two canvas slots *)
(* take turns so that one image fades in while the other fades out, and a  *)
(* sequence number tells a decode that is no longer wanted.  The update    *)
(* runs under the LVGL lock; the callback reads the sequence number twice  *)
(* without it and takes it only to show the image.  The user_data of a job *)
(* is the number of its request: it determines the slot.                   *)
(***************************************************************************)
EXTENDS JpegDecoder

CONSTANTS
  Paths,    \* the images the focused titles have
  NoPath,   \* a title without art, and the empty current_backdrop_path
  MaxSeq    \* bound on the number of requests

ASSUME BackdropAssumption ==
  /\ NoPath \notin Paths /\ MaxSeq \in Nat
  /\ 1..MaxSeq \subseteq Users

Canvases == {"a", "b"}

VARIABLES
  seq,         \* backdrop_seq
  use_slot_a,
  current,     \* current_backdrop_path
  shown,       \* shown[x]: the request whose image the slot's mem is, or 0
  faded,       \* faded[x]: whether the slot's canvas fades "in" or "out"
  cb           \* the callback: "off", "blur", "recheck" or "lock"

backdropVars == << seq, use_slot_a, current, shown, faded, cb >>
allVars      == << vars, backdropVars >>

BackdropInit ==
  /\ Init
  /\ seq = 0 /\ use_slot_a = TRUE /\ current = NoPath
  /\ shown = [x \in Canvases |-> 0]
  /\ faded = [x \in Canvases |-> "out"]
  /\ cb = "off"

(* The requests take the slots in turn, beginning with a.                  *)
SlotOf(n) == IF n % 2 = 1 THEN "a" ELSE "b"

(***************************************************************************)
(* dash_backdrop_update(thumb_path).                                       *)
(***************************************************************************)

(* A title without art: both images fade out; the sequence stays.          *)
UpdateNoArt ==
  /\ call = Idle
  /\ current # NoPath
  /\ current' = NoPath
  /\ faded'   = [x \in Canvases |-> "out"]
  /\ UNCHANGED << vars, seq, use_slot_a, shown, cb >>

(* Mutant: the slots do not take turns.                                    *)
Update_SameSlot(p) ==
  /\ call = Idle /\ seq < MaxSeq
  /\ p # current
  /\ current' = p
  /\ faded'   = [faded EXCEPT ![IF use_slot_a THEN "b" ELSE "a"] = "out"]
  /\ seq'     = seq + 1
  /\ QueueAlloc(seq + 1)
  /\ UNCHANGED << use_slot_a, shown, cb >>

(* A new image: the other slot fades out at once.  When the decoder's pool *)
(* is full the job is not queued, and nothing else happens.                *)
Update(p) ==
  /\ call = Idle /\ seq < MaxSeq
  /\ p # current
  /\ current'    = p
  /\ use_slot_a' = ~use_slot_a
  /\ faded'      = [faded EXCEPT ![IF use_slot_a THEN "b" ELSE "a"] = "out"]
  /\ seq'        = seq + 1
  /\ \/ QueueAlloc(seq + 1)
     \/ ~(\E s \in Slots : Allocatable(s)) /\ UNCHANGED vars
  /\ UNCHANGED << shown, cb >>

(***************************************************************************)
(* backdrop_decode_cb.                                                     *)
(***************************************************************************)
CallbackDiscards ==
  /\ dpc = "deliver"
  /\ \/ cb = "off" /\ (~image \/ user[cur] # seq)
     \/ cb = "recheck" /\ user[cur] # seq
  /\ Deliver
  /\ cb' = "off"
  /\ UNCHANGED << seq, use_slot_a, current, shown, faded >>

(* Mutant: the sequence numbers are not compared.                          *)
CallbackGoesOn_Unchecked ==
  /\ dpc = "deliver"
  /\ \/ cb = "off" /\ image /\ cb' = "blur"
     \/ cb = "blur" /\ cb' = "recheck"
     \/ cb = "recheck" /\ cb' = "lock"
  /\ UNCHANGED << vars, seq, use_slot_a, current, shown, faded >>

CallbackGoesOn ==
  /\ dpc = "deliver"
  /\ \/ cb = "off" /\ image /\ user[cur] = seq /\ cb' = "blur"
     \/ cb = "blur" /\ cb' = "recheck"
     \/ cb = "recheck" /\ user[cur] = seq /\ cb' = "lock"
  /\ UNCHANGED << vars, seq, use_slot_a, current, shown, faded >>

CallbackShows ==
  LET x == SlotOf(user[cur]) IN
  /\ cb = "lock" /\ call = Idle
  /\ Deliver
  /\ shown' = [shown EXCEPT ![x] = user[cur]]
  /\ faded' = [faded EXCEPT ![x] = "in"]
  /\ cb'    = "off"
  /\ UNCHANGED << seq, use_slot_a, current >>

DecoderRuns ==
  /\ \/ SemWait \/ Pop \/ OpenFails \/ StartDecode \/ DecodeDone \/ DecodeFails
     \/ Release
  /\ UNCHANGED backdropVars

QueueRuns == QueueStep /\ UNCHANGED backdropVars

BackdropNext ==
  \/ UpdateNoArt
  \/ \E p \in Paths : Update(p)
  \/ QueueRuns \/ DecoderRuns
  \/ CallbackDiscards \/ CallbackGoesOn \/ CallbackShows

BackdropSpec == BackdropInit /\ [][BackdropNext]_allVars

BackdropFairSpec ==
  BackdropSpec
    /\ WF_allVars(QueueRuns) /\ WF_allVars(DecoderRuns)
    /\ WF_allVars(CallbackDiscards \/ CallbackGoesOn \/ CallbackShows)

(***************************************************************************)
(* Properties.                                                             *)
(***************************************************************************)

(* Every variable of the backdrop holds a value of its type.               *)
BackdropTypeOK ==
  /\ seq \in 0..MaxSeq /\ use_slot_a \in BOOLEAN
  /\ current \in Paths \cup {NoPath}
  /\ shown \in [Canvases -> 0..MaxSeq]
  /\ faded \in [Canvases -> {"in", "out"}]
  /\ cb \in {"off", "blur", "recheck", "lock"}

(* The decoder serves newest first, yet no image is ever followed by an    *)
(* older one, in either slot: the sequence check drops what comes late.    *)
ImagesShowInOrder ==
  [][\A x \in Canvases :
       shown'[x] # shown[x] => \A y \in Canvases : shown'[x] > shown[y]]_allVars

(* At rest: no request is being queued, waits or is decoded.               *)
Settled == call = Idle /\ \A s \in Slots : state[s] = "free"

(* An image that was asked for last and decoded is not thrown away: the    *)
(* slot it fades in on is the one the next request will fade out.          *)
FadedInIsNextOut ==
  Settled /\ current # NoPath /\ shown[SlotOf(seq)] = seq /\ seq > 0 =>
    /\ faded[SlotOf(seq)] = "in"
    /\ SlotOf(seq) = (IF use_slot_a THEN "b" ELSE "a")

(* The values, and which slot is which at rest.                            *)
BackdropInv == BackdropTypeOK /\ FadedInIsNextOut

(* Once the user rests on a title, its decode ends: shown or discarded.    *)
BackdropSettles == <>[](call = Idle) => <>[]Settled

================================================================================
