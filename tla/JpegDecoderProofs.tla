--------------------------- MODULE JpegDecoderProofs ---------------------------
(***************************************************************************)
(* Proofs about JpegDecoder, for a pool of any size and any set of users.  *)
(***************************************************************************)
EXTENDS JpegDecoder, SequenceTheorems, FiniteSetTheorems,
        WellFoundedInduction, TLAPS

USE PoolSizeAssumption, NullAssumption DEF Slots

(***************************************************************************)
(* The history stack.                                                      *)
(***************************************************************************)

(* Linking a slot puts it above what the stack had.                        *)
LEMMA PushFacts ==
  ASSUME NEW S, NEW seq \in Seq(S), NEW e \in S
  PROVE  /\ Append(seq, e) \in Seq(S)
         /\ Len(Append(seq, e)) = Len(seq) + 1
         /\ \A i \in 1..Len(seq) : Append(seq, e)[i] = seq[i]
         /\ Append(seq, e)[Len(seq) + 1] = e
  OBVIOUS

(* Popping a slot leaves what was below it.                                *)
LEMMA PopFacts ==
  ASSUME NEW S, NEW seq \in Seq(S), seq # << >>
  PROVE  /\ Len(seq) \in Nat \ {0}
         /\ SubSeq(seq, 1, Len(seq) - 1) \in Seq(S)
         /\ Len(SubSeq(seq, 1, Len(seq) - 1)) = Len(seq) - 1
         /\ \A i \in 1..(Len(seq) - 1) : SubSeq(seq, 1, Len(seq) - 1)[i] = seq[i]
<1>1. Len(seq) \in Nat \ {0}
  BY EmptySeq
<1> DEFINE n == Len(seq) - 1
<1>2. n \in Nat /\ \A i \in 1..n : seq[i] \in S
  BY <1>1
<1> HIDE DEF n
<1>3. /\ SubSeq(seq, 1, n) \in Seq(S)
      /\ Len(SubSeq(seq, 1, n)) = IF 1 <= n THEN n - 1 + 1 ELSE 0
      /\ \A i \in 1..(n - 1 + 1) : SubSeq(seq, 1, n)[i] = seq[1 + i - 1]
  BY <1>2, SubSeqProperties
<1>4. Len(SubSeq(seq, 1, n)) = n
  BY <1>2, <1>3
<1>5. \A i \in 1..n : SubSeq(seq, 1, n)[i] = seq[i]
  <2> TAKE i \in 1..n
  <2>1. i \in 1..(n - 1 + 1) /\ 1 + i - 1 = i
    BY <1>2
  <2> QED
    BY <1>3, <2>1
<1>6. QED
  BY <1>1, <1>3, <1>4, <1>5 DEF n

(***************************************************************************)
(* The inductive invariant holds initially ...                             *)
(***************************************************************************)
LEMMA InitIInv == Init => IInv
<1> SUFFICES ASSUME Init PROVE IInv
  OBVIOUS
<1> USE DEF Init, Idle
<1>1. TypeOK
  <2>1. state \in [Slots -> SlotState] /\ user \in [Slots -> Users \cup {Null}]
    BY DEF SlotState
  <2>2. next \in [Slots -> Slots \cup {Null}] /\ mpool_free \in Slots \cup {Null}
    OBVIOUS
  <2>3. call \in [pc : CallPc, slot : Slots \cup {Null}, user : Users \cup {Null}]
    BY DEF CallPc
  <2>4. stack \in Seq(Slots) /\ dpc \in DecoderPc
    BY DEF DecoderPc
  <2>5. QED
    BY <2>1, <2>2, <2>3, <2>4 DEF TypeOK
<1>2. QuickSlotUnused /\ CallShape /\ DecoderShape
  BY DEF QuickSlotUnused, CallShape, DecoderShape
<1>3. WaitingAreBusy /\ TokensMatch /\ ListIsStack
  BY DEF WaitingAreBusy, TokensMatch, Pending, ListIsStack
<1>4. SlotHasOneRole /\ BusySlotsAccounted
  BY DEF SlotHasOneRole, BusySlotsAccounted, InStack
<1>5. QED
  BY <1>1, <1>2, <1>3, <1>4 DEF IInv

(***************************************************************************)
(* ... and every step keeps it.                                            *)
(***************************************************************************)
Busy == {"begin", "decode", "deliver", "release"}

(* While the decoder works on a job, only it and the image change.         *)
LEMMA DecoderAdvances ==
  ASSUME IInv, dpc \in Busy, dpc' \in Busy, image' \in BOOLEAN,
         UNCHANGED << queueVars, running, call, cur, stack >>
  PROVE  IInv'
<1> USE DEF IInv, queueVars, Busy
<1>1. TypeOK'
  BY DEF TypeOK, DecoderPc
<1>2. (QuickSlotUnused /\ CallShape /\ DecoderShape)'
  BY DEF QuickSlotUnused, CallShape, DecoderShape
<1>3. (WaitingAreBusy /\ TokensMatch /\ ListIsStack)'
  BY DEF WaitingAreBusy, TokensMatch, Pending, ListIsStack, Top
<1>4. (SlotHasOneRole /\ BusySlotsAccounted)'
  BY DEF SlotHasOneRole, BusySlotsAccounted, InStack
<1>5. QED
  BY <1>1, <1>2, <1>3, <1>4

(* A call takes a slot that has no role yet. *)
LEMMA AllocKeepsIInv ==
  ASSUME IInv, NEW u \in Users, QueueAlloc(u)
  PROVE  IInv'
<1> USE DEF IInv, QueueAlloc, Allocatable, FreeSlots, Idle, queueVars, decoderVars
<1>1. TypeOK'
  BY DEF TypeOK, SlotState, CallPc, DecoderPc
<1>2. QuickSlotUnused'
  BY DEF TypeOK, QuickSlotUnused, CallShape, DecoderShape
<1>3. CallShape'
  BY DEF TypeOK, QuickSlotUnused, CallShape, SlotHasOneRole
<1>4. DecoderShape'
  BY DEF TypeOK, DecoderShape, SlotHasOneRole, CallShape
<1>5. WaitingAreBusy'
  BY DEF TypeOK, WaitingAreBusy, SlotHasOneRole, CallShape, InStack
<1>6. TokensMatch'
  BY DEF TypeOK, TokensMatch, Pending, CallShape, DecoderShape
<1>7. ListIsStack'
  BY DEF TypeOK, ListIsStack, Top, SlotHasOneRole, CallShape, InStack
<1>8. SlotHasOneRole'
  <2>1. PICK s \in Slots : Allocatable(s) /\ call'.slot = s
    OBVIOUS
  <2>2. state[s] = "free"
    BY <2>1 DEF QuickSlotUnused
  <2>3. s # cur /\ ~InStack(s)
    BY <2>2 DEF DecoderShape, WaitingAreBusy, InStack
  <2>4. QED
    BY <2>1, <2>3 DEF SlotHasOneRole, InStack
<1>9. BusySlotsAccounted'
  BY DEF TypeOK, BusySlotsAccounted, InStack, CallShape, DecoderShape
<1>10. QED
  BY <1>1, <1>2, <1>3, <1>4, <1>5, <1>6, <1>7, <1>8, <1>9

(* Filling the slot makes it busy and its own caller's. *)
LEMMA FillKeepsIInv ==
  ASSUME IInv, QueueFill
  PROVE  IInv'
<1> USE DEF IInv, QueueFill, Idle, queueVars, decoderVars
<1>1. TypeOK'
  BY DEF TypeOK, SlotState, CallPc, DecoderPc
<1>2. QuickSlotUnused'
  BY DEF TypeOK, QuickSlotUnused, CallShape, DecoderShape
<1>3. CallShape'
  BY DEF TypeOK, QuickSlotUnused, CallShape, SlotHasOneRole
<1>4. DecoderShape'
  BY DEF TypeOK, DecoderShape, SlotHasOneRole, CallShape
<1>5. WaitingAreBusy'
  BY DEF TypeOK, WaitingAreBusy, SlotHasOneRole, CallShape, InStack
<1>6. TokensMatch'
  BY DEF TypeOK, TokensMatch, Pending, CallShape, DecoderShape
<1>7. ListIsStack'
  BY DEF TypeOK, ListIsStack, Top, SlotHasOneRole, CallShape, InStack
<1>8. SlotHasOneRole'
  BY DEF TypeOK, SlotHasOneRole, InStack, WaitingAreBusy, CallShape, DecoderShape, QuickSlotUnused
<1>9. BusySlotsAccounted'
  BY DEF TypeOK, BusySlotsAccounted, InStack, CallShape, DecoderShape
<1>10. QED
  BY <1>1, <1>2, <1>3, <1>4, <1>5, <1>6, <1>7, <1>8, <1>9

(* Linking makes the slot the top of the stack. *)
LEMMA LinkKeepsIInv ==
  ASSUME IInv, QueueLink
  PROVE  IInv'
<1> USE DEF IInv, QueueLink, Idle, queueVars, decoderVars
<1>0. call.slot \in Slots /\ stack \in Seq(Slots) /\ Len(stack) \in Nat
  BY DEF CallShape, TypeOK
<1>a. /\ stack' \in Seq(Slots)
      /\ Len(stack') = Len(stack) + 1
      /\ \A i \in 1..Len(stack) : stack'[i] = stack[i]
      /\ stack'[Len(stack) + 1] = call.slot
  BY <1>0, PushFacts
<1>1. TypeOK'
  <2>1. next' \in [Slots -> Slots \cup {Null}] /\ qhead' \in Slots
    BY <1>0 DEF TypeOK
  <2>2. call' \in [pc : CallPc, slot : Slots \cup {Null}, user : Users \cup {Null}]
    BY DEF TypeOK, CallPc
  <2>3. QED
    BY <1>a, <2>1, <2>2 DEF TypeOK
<1>2. QuickSlotUnused'
  BY DEF TypeOK, QuickSlotUnused, CallShape, DecoderShape
<1>3. CallShape'
  BY DEF TypeOK, QuickSlotUnused, CallShape, SlotHasOneRole
<1>4. DecoderShape'
  BY DEF TypeOK, DecoderShape, SlotHasOneRole, CallShape
<1>5. WaitingAreBusy'
  BY DEF TypeOK, WaitingAreBusy, SlotHasOneRole, CallShape, InStack
<1>6. TokensMatch'
  BY DEF TypeOK, TokensMatch, Pending, CallShape, DecoderShape
<1>7. ListIsStack'
  <2>1. stack' # << >> /\ qhead' = Top'
    BY <1>0, <1>a DEF Top
  <2>2. ASSUME NEW i \in 1..(Len(stack') - 1)
        PROVE  next'[stack'[i + 1]] = stack'[i]
    <3>1. i \in 1..Len(stack) /\ stack'[i] = stack[i] /\ stack[i] \in Slots
      BY <1>0, <1>a
    <3>2. stack # << >> /\ qhead = Top /\ qhead # Null
      BY <1>0, <3>1 DEF ListIsStack, Top
    <3>3. CASE i = Len(stack)
      BY <1>0, <1>a, <3>1, <3>2, <3>3 DEF Top, TypeOK
    <3>4. CASE i # Len(stack)
      <4>1. i \in 1..(Len(stack) - 1) /\ i + 1 \in 1..Len(stack)
        BY <1>0, <3>1, <3>4
      <4>2. next[stack[i + 1]] = stack[i] /\ stack[i + 1] # call.slot
        BY <4>1 DEF ListIsStack, SlotHasOneRole, InStack
      <4>3. QED
        BY <1>0, <1>a, <3>1, <4>1, <4>2 DEF TypeOK
    <3>5. QED
      BY <3>3, <3>4
  <2>3. QED
    BY <2>1, <2>2 DEF ListIsStack
<1>8. SlotHasOneRole'
  BY DEF TypeOK, SlotHasOneRole, InStack, WaitingAreBusy, CallShape, DecoderShape, QuickSlotUnused
<1>9. BusySlotsAccounted'
  <2> SUFFICES ASSUME NEW s \in Slots, state[s] # "free"
               PROVE  s = cur \/ InStack(s)'
    BY DEF BusySlotsAccounted
  <2>1. CASE InStack(s)
    BY <1>0, <1>a, <2>1 DEF InStack
  <2>2. CASE s = call.slot
    <3>1. Len(stack) + 1 \in 1..Len(stack')
      BY <1>0, <1>a
    <3>2. QED
      BY <1>a, <2>2, <3>1 DEF InStack
  <2>3. QED
    BY <2>1, <2>2 DEF BusySlotsAccounted
<1>10. QED
  BY <1>1, <1>2, <1>3, <1>4, <1>5, <1>6, <1>7, <1>8, <1>9

(* Posting turns the call's claim into a token. *)
LEMMA PostKeepsIInv ==
  ASSUME IInv, QueuePost
  PROVE  IInv'
<1> USE DEF IInv, QueuePost, Idle, queueVars, decoderVars
<1>1. TypeOK'
  BY DEF TypeOK, SlotState, CallPc, DecoderPc
<1>2. QuickSlotUnused'
  BY DEF TypeOK, QuickSlotUnused, CallShape, DecoderShape
<1>3. CallShape'
  BY DEF TypeOK, QuickSlotUnused, CallShape, SlotHasOneRole
<1>4. DecoderShape'
  BY DEF TypeOK, DecoderShape, SlotHasOneRole, CallShape
<1>5. WaitingAreBusy'
  BY DEF TypeOK, WaitingAreBusy, SlotHasOneRole, CallShape, InStack
<1>6. TokensMatch'
  BY DEF TypeOK, TokensMatch, Pending, CallShape, DecoderShape
<1>7. ListIsStack'
  BY DEF TypeOK, ListIsStack, Top, SlotHasOneRole, CallShape, InStack
<1>8. SlotHasOneRole'
  BY DEF TypeOK, SlotHasOneRole, InStack, WaitingAreBusy, CallShape, DecoderShape, QuickSlotUnused
<1>9. BusySlotsAccounted'
  BY DEF TypeOK, BusySlotsAccounted, InStack, CallShape, DecoderShape
<1>10. QED
  BY <1>1, <1>2, <1>3, <1>4, <1>5, <1>6, <1>7, <1>8, <1>9

(* An abort leaves the slot busy. *)
LEMMA AbortKeepsIInv ==
  ASSUME IInv, NEW s \in Slots, Abort(s)
  PROVE  IInv'
<1> USE DEF IInv, Abort, Aborted, Idle, queueVars, decoderVars
<1>1. TypeOK'
  BY DEF TypeOK, SlotState, CallPc, DecoderPc
<1>2. QuickSlotUnused'
  BY DEF TypeOK, QuickSlotUnused, CallShape, DecoderShape
<1>3. CallShape'
  BY DEF TypeOK, QuickSlotUnused, CallShape, SlotHasOneRole
<1>4. DecoderShape'
  BY DEF TypeOK, DecoderShape, SlotHasOneRole, CallShape
<1>5. WaitingAreBusy'
  BY DEF TypeOK, WaitingAreBusy, SlotHasOneRole, CallShape, InStack
<1>6. TokensMatch'
  BY DEF TypeOK, TokensMatch, Pending, CallShape, DecoderShape
<1>7. ListIsStack'
  BY DEF TypeOK, ListIsStack, Top, SlotHasOneRole, CallShape, InStack
<1>8. SlotHasOneRole'
  BY DEF TypeOK, SlotHasOneRole, InStack, WaitingAreBusy, CallShape, DecoderShape, QuickSlotUnused
<1>9. BusySlotsAccounted'
  BY DEF TypeOK, BusySlotsAccounted, InStack, CallShape, DecoderShape
<1>10. QED
  BY <1>1, <1>2, <1>3, <1>4, <1>5, <1>6, <1>7, <1>8, <1>9

(* The stop is a token without a job. *)
LEMMA DeinitKeepsIInv ==
  ASSUME IInv, Deinit
  PROVE  IInv'
<1> USE DEF IInv, Deinit, Idle, queueVars, decoderVars
<1>1. TypeOK'
  <2>1. sem' \in Nat
    BY DEF TypeOK
  <2>2. running' \in BOOLEAN
    OBVIOUS
  <2>3. QED
    BY <2>1, <2>2 DEF TypeOK
<1>2. QuickSlotUnused'
  BY DEF TypeOK, QuickSlotUnused, CallShape, DecoderShape
<1>3. CallShape'
  BY DEF TypeOK, QuickSlotUnused, CallShape, SlotHasOneRole
<1>4. DecoderShape'
  BY DEF TypeOK, DecoderShape, SlotHasOneRole, CallShape
<1>5. WaitingAreBusy'
  BY DEF TypeOK, WaitingAreBusy, SlotHasOneRole, CallShape, InStack
<1>6. TokensMatch'
  BY DEF TypeOK, TokensMatch, Pending, CallShape, DecoderShape
<1>7. ListIsStack'
  BY DEF TypeOK, ListIsStack, Top, SlotHasOneRole, CallShape, InStack
<1>8. SlotHasOneRole'
  BY DEF TypeOK, SlotHasOneRole, InStack, WaitingAreBusy, CallShape, DecoderShape, QuickSlotUnused
<1>9. BusySlotsAccounted'
  BY DEF TypeOK, BusySlotsAccounted, InStack, CallShape, DecoderShape
<1>10. QED
  BY <1>1, <1>2, <1>3, <1>4, <1>5, <1>6, <1>7, <1>8, <1>9

(* A new start is as the first. *)
LEMMA ReinitKeepsIInv ==
  ASSUME IInv, Reinit
  PROVE  IInv'
<1> USE DEF IInv, Reinit, Idle, queueVars, decoderVars
<1>1. TypeOK'
  BY DEF TypeOK, SlotState, CallPc, DecoderPc
<1>2. QuickSlotUnused'
  BY DEF TypeOK, QuickSlotUnused, CallShape, DecoderShape
<1>3. CallShape'
  BY DEF TypeOK, QuickSlotUnused, CallShape, SlotHasOneRole
<1>4. DecoderShape'
  BY DEF TypeOK, DecoderShape, SlotHasOneRole, CallShape
<1>5. WaitingAreBusy'
  BY DEF TypeOK, WaitingAreBusy, SlotHasOneRole, CallShape, InStack
<1>6. TokensMatch'
  BY DEF TypeOK, TokensMatch, Pending, CallShape, DecoderShape
<1>7. ListIsStack'
  BY DEF TypeOK, ListIsStack, Top, SlotHasOneRole, CallShape, InStack
<1>8. SlotHasOneRole'
  BY DEF TypeOK, SlotHasOneRole, InStack, WaitingAreBusy, CallShape, DecoderShape, QuickSlotUnused
<1>9. BusySlotsAccounted'
  BY DEF TypeOK, BusySlotsAccounted, InStack, CallShape, DecoderShape
<1>10. QED
  BY <1>1, <1>2, <1>3, <1>4, <1>5, <1>6, <1>7, <1>8, <1>9

(* A token taken is a job claimed, or the stop. *)
LEMMA SemWaitKeepsIInv ==
  ASSUME IInv, SemWait
  PROVE  IInv'
<1> USE DEF IInv, SemWait, Idle, queueVars, decoderVars
<1>1. TypeOK'
  BY DEF TypeOK, SlotState, CallPc, DecoderPc
<1>2. QuickSlotUnused'
  BY DEF TypeOK, QuickSlotUnused, CallShape, DecoderShape
<1>3. CallShape'
  BY DEF TypeOK, QuickSlotUnused, CallShape, SlotHasOneRole
<1>4. DecoderShape'
  BY DEF TypeOK, DecoderShape, SlotHasOneRole, CallShape
<1>5. WaitingAreBusy'
  BY DEF TypeOK, WaitingAreBusy, SlotHasOneRole, CallShape, InStack
<1>6. TokensMatch'
  BY DEF TypeOK, TokensMatch, Pending, CallShape, DecoderShape
<1>7. ListIsStack'
  BY DEF TypeOK, ListIsStack, Top, SlotHasOneRole, CallShape, InStack
<1>8. SlotHasOneRole'
  BY DEF TypeOK, SlotHasOneRole, InStack, WaitingAreBusy, CallShape, DecoderShape, QuickSlotUnused
<1>9. BusySlotsAccounted'
  BY DEF TypeOK, BusySlotsAccounted, InStack, CallShape, DecoderShape
<1>10. QED
  BY <1>1, <1>2, <1>3, <1>4, <1>5, <1>6, <1>7, <1>8, <1>9

(* A pop moves the top slot into the decoder's hands. *)
LEMMA PopKeepsIInv ==
  ASSUME IInv, Pop
  PROVE  IInv'
<1> USE DEF IInv, Pop, Idle, queueVars, decoderVars
<1>0. stack \in Seq(Slots) /\ stack # << >> /\ Len(stack) \in Nat \ {0}
  <2>1. Len(stack) \in Nat \ {0} /\ stack \in Seq(Slots)
    BY DEF TypeOK, TokensMatch, Pending, DecoderShape, CallShape
  <2>2. QED
    BY <2>1
<1>a. /\ stack' \in Seq(Slots)
      /\ Len(stack') = Len(stack) - 1
      /\ \A i \in 1..(Len(stack) - 1) : stack'[i] = stack[i]
  BY <1>0, PopFacts
<1>b. qhead = stack[Len(stack)] /\ qhead \in Slots /\ cur' = qhead
  BY <1>0 DEF ListIsStack, Top
<1>1. TypeOK'
  BY <1>a, <1>b DEF TypeOK, DecoderPc
<1>2. QuickSlotUnused'
  BY <1>0 DEF QuickSlotUnused
<1>3. CallShape'
  BY DEF TypeOK, QuickSlotUnused, CallShape, SlotHasOneRole
<1>4. DecoderShape'
  BY <1>0, <1>b DEF DecoderShape, WaitingAreBusy
<1>5. WaitingAreBusy'
  BY <1>0, <1>a DEF WaitingAreBusy
<1>6. TokensMatch'
  <2>1. Len(stack') = Len(stack) - 1 /\ dpc = "pop" /\ dpc' = "begin"
    BY <1>a
  <2>2. sem' = sem /\ call' = call /\ running' = running
    OBVIOUS
  <2>3. sem \in Int /\ Len(stack) \in Int
    BY <1>0 DEF TypeOK
  <2>4. Pending' = Pending - 1
    BY <2>1, <2>2, <2>3 DEF Pending
  <2>5. Len(stack) = Pending
    BY DEF TokensMatch
  <2>6. QED
    BY <2>1, <2>4, <2>5 DEF TokensMatch
<1>7. ListIsStack'
  <2>1. ASSUME stack' # << >> PROVE qhead' = Top'
    <3>1. Len(stack) - 1 \in Nat \ {0}
      BY <1>0, <1>a, <2>1, EmptySeq
    <3>2. PICK n \in Nat \ {0} : n = Len(stack) - 1
      BY <3>1
    <3>4. n \in 1..(Len(stack) - 1) /\ n + 1 = Len(stack)
      BY <1>0, <3>2
    <3>5. next[stack[n + 1]] = stack[n]
      BY <3>4 DEF ListIsStack
    <3>3. QED
      BY <1>a, <1>b, <3>2, <3>4, <3>5 DEF Top
  <2>2. ASSUME NEW i \in 1..(Len(stack') - 1)
        PROVE  next[stack'[i + 1]] = stack'[i]
    <3>1. i \in 1..(Len(stack) - 1) /\ i + 1 \in 1..(Len(stack) - 1)
      BY <1>0, <1>a
    <3>2. QED
      BY <1>a, <3>1 DEF ListIsStack
  <2>3. QED
    BY <2>1, <2>2 DEF ListIsStack
<1>8. SlotHasOneRole'
  <2>1. ASSUME NEW i \in 1..Len(stack'), NEW j \in 1..Len(stack'),
               stack'[i] = stack'[j]
        PROVE  i = j
    <3>1. i \in 1..(Len(stack) - 1) /\ j \in 1..(Len(stack) - 1)
      BY <1>a
    <3>2. stack[i] = stack[j]
      BY <1>a, <2>1, <3>1
    <3>3. i \in 1..Len(stack) /\ j \in 1..Len(stack)
      BY <1>0, <3>1
    <3>4. QED
      BY <3>2, <3>3 DEF SlotHasOneRole
  <2>2. ~InStack(cur)'
    <3>1. ASSUME NEW i \in 1..Len(stack') PROVE stack'[i] # qhead
      <4>1. /\ i \in 1..Len(stack) /\ i # Len(stack) /\ stack'[i] = stack[i]
            /\ Len(stack) \in 1..Len(stack)
        BY <1>0, <1>a
      <4>2. QED
        BY <1>b, <4>1 DEF SlotHasOneRole
    <3>2. QED
      BY <1>b, <3>1 DEF InStack
  <2>3. ASSUME call.pc \in {"fill", "link"}
        PROVE  call.slot # qhead /\ ~InStack(call.slot)'
    BY <1>0, <1>a, <1>b, <2>3 DEF SlotHasOneRole, InStack
  <2>4. QED
    BY <1>b, <2>1, <2>2, <2>3 DEF SlotHasOneRole
<1>9. BusySlotsAccounted'
  <2> SUFFICES ASSUME NEW s \in Slots, state[s] # "free", s # qhead,
                      ~(call.pc = "link" /\ call.slot = s)
               PROVE  InStack(s)'
    BY <1>b DEF BusySlotsAccounted
  <2>1. cur = Null
    BY DEF DecoderShape
  <2>2. PICK i \in 1..Len(stack) : stack[i] = s
    BY <2>1 DEF BusySlotsAccounted, InStack
  <2>3. i \in 1..Len(stack')
    BY <1>0, <1>a, <1>b, <2>2
  <2>4. QED
    BY <1>0, <1>a, <2>2, <2>3 DEF InStack
<1>10. QED
  BY <1>1, <1>2, <1>3, <1>4, <1>5, <1>6, <1>7, <1>8, <1>9

(* A released slot has no role left. *)
LEMMA ReleaseKeepsIInv ==
  ASSUME IInv, Release
  PROVE  IInv'
<1> USE DEF IInv, Release, Idle, queueVars, decoderVars
<1>1. TypeOK'
  BY DEF TypeOK, SlotState, CallPc, DecoderPc
<1>2. QuickSlotUnused'
  BY DEF TypeOK, QuickSlotUnused, CallShape, DecoderShape
<1>3. CallShape'
  BY DEF TypeOK, QuickSlotUnused, CallShape, SlotHasOneRole
<1>4. DecoderShape'
  BY DEF TypeOK, DecoderShape, SlotHasOneRole, CallShape
<1>5. WaitingAreBusy'
  BY DEF TypeOK, WaitingAreBusy, SlotHasOneRole, CallShape, InStack
<1>6. TokensMatch'
  BY DEF TypeOK, TokensMatch, Pending, CallShape, DecoderShape
<1>7. ListIsStack'
  BY DEF TypeOK, ListIsStack, Top, SlotHasOneRole, CallShape, InStack
<1>8. SlotHasOneRole'
  BY DEF TypeOK, SlotHasOneRole, InStack, WaitingAreBusy, CallShape, DecoderShape, QuickSlotUnused
<1>9. BusySlotsAccounted'
  BY DEF TypeOK, BusySlotsAccounted, InStack, CallShape, DecoderShape
<1>10. QED
  BY <1>1, <1>2, <1>3, <1>4, <1>5, <1>6, <1>7, <1>8, <1>9

LEMMA StepKeepsIInv == IInv /\ [Next]_vars => IInv'
<1> SUFFICES ASSUME IInv, [Next]_vars PROVE IInv'
  OBVIOUS
<1>1. CASE Client
  BY <1>1, AllocKeepsIInv, FillKeepsIInv, LinkKeepsIInv, PostKeepsIInv,
     AbortKeepsIInv, DeinitKeepsIInv, ReinitKeepsIInv DEF Client, QueueStep
<1>2. CASE DecoderThread
  <2>1. CASE SemWait \/ Pop \/ Release
    BY <2>1, SemWaitKeepsIInv, PopKeepsIInv, ReleaseKeepsIInv
  <2>2. CASE DropAborted \/ OpenFails
    <3>1. /\ dpc \in Busy /\ dpc' \in Busy /\ image' \in BOOLEAN
          /\ UNCHANGED << queueVars, running, call, cur, stack >>
      BY <2>2 DEF DropAborted, OpenFails, Busy, IInv, TypeOK
    <3>2. QED
      BY <3>1, DecoderAdvances
  <2>3. CASE StartDecode \/ DecodeSeesAbort \/ DecodeDone \/ DecodeFails \/ Deliver
    <3>1. /\ dpc \in Busy /\ dpc' \in Busy /\ image' \in BOOLEAN
          /\ UNCHANGED << queueVars, running, call, cur, stack >>
      BY <2>3 DEF StartDecode, DecodeSeesAbort, DecodeDone, DecodeFails,
                  Deliver, Busy, IInv, TypeOK
    <3>2. QED
      BY <3>1, DecoderAdvances
  <2>4. QED
    BY <1>2, <2>1, <2>2, <2>3 DEF DecoderThread
<1>3. CASE UNCHANGED vars
  <2> USE <1>3 DEF vars, IInv
  <2>1. TypeOK'
    BY DEF TypeOK
  <2>2. (QuickSlotUnused /\ CallShape /\ DecoderShape)'
    BY DEF QuickSlotUnused, CallShape, DecoderShape
  <2>3. (WaitingAreBusy /\ TokensMatch /\ ListIsStack)'
    BY DEF WaitingAreBusy, TokensMatch, Pending, ListIsStack, Top
  <2>4. (SlotHasOneRole /\ BusySlotsAccounted)'
    BY DEF SlotHasOneRole, BusySlotsAccounted, InStack
  <2>5. QED
    BY <2>1, <2>2, <2>3, <2>4
<1>4. QED
  BY <1>1, <1>2, <1>3 DEF Next

(***************************************************************************)
(* The theorems.                                                           *)
(***************************************************************************)

(* The decoder keeps its inductive invariant (jpg_decoder.c as a whole).   *)
THEOREM DecoderInvariant == Spec => []IInv
  BY InitIInv, StepKeepsIInv, PTL DEF Spec

(* Every variable keeps the type it is declared with in jpg_decoder.c.     *)
THEOREM TypeCorrect == Spec => []TypeOK
<1>1. IInv => TypeOK
  BY DEF IInv
<1>2. QED
  BY <1>1, DecoderInvariant, PTL

(* However jobs are queued, aborted and served, the list read from qhead   *)
(* is the stack of waiting jobs, stale links notwithstanding.              *)
THEOREM ListIsAlwaysStack == Spec => []ListIsStack
<1>1. IInv => ListIsStack
  BY DEF IInv
<1>2. QED
  BY <1>1, DecoderInvariant, PTL

(* No slot of the pool is ever used for two jobs at once, and none is lost.*)
THEOREM SlotsAreAlwaysKept == Spec => []SlotsAreKept
<1>1. IInv => SlotsAreKept
  BY DEF IInv, SlotsAreKept
<1>2. QED
  BY <1>1, DecoderInvariant, PTL

(* The decoder thread never dereferences a null qhead: the tokens of the   *)
(* semaphore never outnumber the linked jobs.                              *)
THEOREM PopsAreSafe == Spec => []PopFindsJob
<1>1. IInv => PopFindsJob
  <2> SUFFICES ASSUME IInv, dpc = "pop" PROVE qhead # Null /\ stack # << >>
    BY DEF PopFindsJob
  <2>1. stack \in Seq(Slots) /\ Len(stack) \in Nat \ {0}
    BY DEF IInv, TypeOK, TokensMatch, Pending, DecoderShape
  <2>2. stack # << >> /\ Top \in Slots
    BY <2>1 DEF Top
  <2>3. QED
    BY <2>2 DEF IInv, ListIsStack
<1>2. QED
  BY <1>1, DecoderInvariant, PTL


(***************************************************************************)
(* The refinement: the decoder implements the stack of jobs.  First, what  *)
(* the recursion over `next' reads is the history stack.                   *)
(***************************************************************************)

(* Every non-empty set of naturals has a least element.                    *)
LEMMA LeastNatural ==
  ASSUME NEW T, T \subseteq Nat, T # {}
  PROVE  \E n \in T : \A m \in T : ~(m < n)
<1>1. PICK n \in T : \A m \in T : ~(<< m, n >> \in OpToRel(<, Nat))
  BY NatLessThanWellFounded, WFMin, Zenon
<1>2. \A m \in T : m < n => << m, n >> \in OpToRel(<, Nat)
  <2> TAKE m \in T
  <2>1. m \in Nat /\ n \in Nat
    OBVIOUS
  <2>2. QED
    BY <2>1, Zenon DEF OpToRel
<1>3. QED
  BY <1>1, <1>2

LEMMA NthIsStack ==
  IInv => \A i \in 1..Pending : Nth[i] = stack[Len(stack) + 1 - i]
<1> SUFFICES ASSUME IInv
             PROVE  \A i \in 1..Pending : Nth[i] = stack[Len(stack) + 1 - i]
  OBVIOUS
<1>1. stack \in Seq(Slots) /\ Pending = Len(stack) /\ Len(stack) \in Nat
  BY DEF IInv, TypeOK, TokensMatch
<1> DEFINE w == [i \in 1..Pending |-> stack[Len(stack) + 1 - i]]
<1>2. Pending > 0 => w[1] = qhead
  BY <1>1 DEF IInv, ListIsStack, Top
<1>3. \A i \in 2..Pending : w[i] = next[w[i - 1]]
  <2> TAKE i \in 2..Pending
  <2>1. Len(stack) + 1 - i \in 1..(Len(stack) - 1) /\ i \in 1..Pending /\ i - 1 \in 1..Pending
        /\ Len(stack) + 1 - (i - 1) = (Len(stack) + 1 - i) + 1
    BY <1>1
  <2>2. next[stack[(Len(stack) + 1 - i) + 1]] = stack[Len(stack) + 1 - i]
    BY <2>1 DEF IInv, ListIsStack
  <2>3. QED
    BY <2>1, <2>2
<1>4. w = [i \in 1..Pending |-> IF i = 1 THEN qhead ELSE next[w[i - 1]]]
  <2>1. \A i \in 1..Pending : w[i] = IF i = 1 THEN qhead ELSE next[w[i - 1]]
    <3> TAKE i \in 1..Pending
    <3> HIDE DEF w
    <3>1. i = 1 \/ i \in 2..Pending
      BY <1>1
    <3>2. i \in Nat /\ Pending > 0
      BY <1>1
    <3>3. QED
      BY <1>2, <1>3, <3>1, <3>2
  <2>2. w = [i \in 1..Pending |-> w[i]]
    OBVIOUS
  <2> HIDE DEF w
  <2>3. QED
    BY <2>1, <2>2
<1>5. Nth = [i \in 1..Pending |-> IF i = 1 THEN qhead ELSE next[Nth[i - 1]]]
  <2> HIDE DEF w
  <2>1. \E f : f = [i \in 1..Pending |-> IF i = 1 THEN qhead ELSE next[f[i - 1]]]
    BY <1>4
  <2>2. QED
    BY <2>1, Zenon DEF Nth
<1>6. \A i \in 1..Pending : Nth[i] = w[i]
  <2> HIDE DEF w
  <2>1. Pending \in Nat
    BY <1>1
  <2>2. \A i \in 1..Pending : Nth[i] = IF i = 1 THEN qhead ELSE next[Nth[i - 1]]
    <3> DEFINE E(i) == IF i = 1 THEN qhead ELSE next[Nth[i - 1]]
    <3>1. Nth = [i \in 1..Pending |-> E(i)]
      BY <1>5
    <3> HIDE DEF E
    <3>2. \A i \in 1..Pending : Nth[i] = E(i)
      BY <3>1
    <3>3. QED
      BY <3>2 DEF E
  <2> DEFINE Wrong == {i \in 1..Pending : Nth[i] # w[i]}
  <2>3. SUFFICES ASSUME Wrong # {} PROVE FALSE
    OBVIOUS
  <2>4. PICK k \in Wrong : \A m \in Wrong : ~(m < k)
    <3>1. Wrong \subseteq Nat
      OBVIOUS
    <3> HIDE DEF Wrong
    <3>2. QED
      BY <2>3, <3>1, LeastNatural
  <2>5. k \in 1..Pending /\ Nth[k] # w[k]
    OBVIOUS
  <2>6. k # 1
    BY <1>2, <2>1, <2>2, <2>5
  <2>7. k - 1 \in 1..Pending /\ k \in 2..Pending /\ k - 1 < k
    BY <2>1, <2>5, <2>6
  <2>8. Nth[k - 1] = w[k - 1]
    BY <2>4, <2>7
  <2>9. QED
    BY <1>3, <2>2, <2>5, <2>6, <2>7, <2>8
<1>7. QED
  BY <1>6

(* The waiting jobs of the abstraction, told from the history stack.       *)
Jobs == [i \in 1..Len(stack) |-> JobIn(stack[Len(stack) + 1 - i])]

LEMMA WaitingIsJobs == IInv => WaitingJobs = Jobs
<1> SUFFICES ASSUME IInv PROVE WaitingJobs = Jobs
  OBVIOUS
<1>1. Pending = Len(stack)
  BY DEF IInv, TokensMatch
<1>2. \A i \in 1..Pending : JobIn(Nth[i]) = JobIn(stack[Len(stack) + 1 - i])
  BY NthIsStack
<1>3. QED
  BY <1>1, <1>2 DEF WaitingJobs, Jobs

LEMMA WaitingIsJobsNext == IInv' => WaitingJobs' = Jobs'
<1>1. (IInv => WaitingJobs = Jobs)'
  BY WaitingIsJobs, PTL
<1>2. QED
  BY <1>1

(* Nothing that a step leaves of the queue and the stack changes the jobs. *)
LEMMA SameJobs ==
  ASSUME IInv, IInv', UNCHANGED stack,
         \A i \in 1..Len(stack) : /\ user'[stack[i]] = user[stack[i]]
                                  /\ state'[stack[i]] = state[stack[i]]
  PROVE  UNCHANGED WaitingJobs
<1>1. Len(stack) \in Nat
  BY DEF IInv, TypeOK
<1>2. \A i \in 1..Len(stack) :
        JobIn(stack[Len(stack) + 1 - i])' = JobIn(stack[Len(stack) + 1 - i])
  <2> TAKE i \in 1..Len(stack)
  <2>1. Len(stack) + 1 - i \in 1..Len(stack)
    BY <1>1
  <2>2. QED
    BY <2>1 DEF JobIn
<1>3. Jobs' = Jobs
  BY <1>1, <1>2 DEF Jobs
<1>4. QED
  BY <1>3, WaitingIsJobs, WaitingIsJobsNext

Job == [user : Users \cup {Null}, cancelled : BOOLEAN]

JobsShape ==
  /\ Jobs \in Seq(Job) /\ Len(Jobs) = Len(stack) /\ Len(stack) \in Nat
  /\ \A i \in 1..Len(stack) :
       /\ Len(stack) + 1 - i \in 1..Len(stack)
       /\ stack[i] \in Slots
       /\ Jobs[i] = JobIn(stack[Len(stack) + 1 - i])

LEMMA JobsHaveShape == IInv => JobsShape
<1> SUFFICES ASSUME IInv PROVE JobsShape
  OBVIOUS
<1>1. stack \in Seq(Slots) /\ Len(stack) \in Nat
  BY DEF IInv, TypeOK
<1>2. \A s \in Slots : JobIn(s) \in Job
  BY DEF IInv, TypeOK, JobIn, Job
<1>3. \A i \in 1..Len(stack) :
        Len(stack) + 1 - i \in 1..Len(stack) /\ stack[i] \in Slots
  BY <1>1
<1>4. Jobs \in [1..Len(stack) -> Job]
  BY <1>2, <1>3 DEF Jobs
<1>5. \A i \in 1..Len(stack) : Jobs[i] = JobIn(stack[Len(stack) + 1 - i])
  BY DEF Jobs
<1>6. Jobs \in Seq(Job) /\ Len(Jobs) = Len(stack)
  BY <1>1, <1>4
<1>7. QED
  BY <1>1, <1>3, <1>5, <1>6 DEF JobsShape

LEMMA JobsHaveShapeNext == IInv' => JobsShape'
  BY JobsHaveShape, PTL

(* Two facts about sequences: an element put in front, the first one taken.*)
LEMMA PutInFront ==
  ASSUME NEW S, NEW e \in S, NEW q \in Seq(S), NEW r \in Seq(S),
         Len(r) = Len(q) + 1, r[1] = e, \A i \in 1..Len(q) : r[i + 1] = q[i]
  PROVE  r = << e >> \o q
<1> DEFINE o == << e >>
<1>1. o \in Seq(S) /\ Len(o) = 1 /\ o[1] = e /\ Len(q) \in Nat
  OBVIOUS
<1>a. o = << e >>
  OBVIOUS
<1> HIDE DEF o
<1>b. /\ o \o q \in Seq(S) /\ Len(o \o q) = Len(o) + Len(q)
      /\ \A i \in 1..(Len(o) + Len(q)) :
           (o \o q)[i] = IF i <= Len(o) THEN o[i] ELSE q[i - Len(o)]
  BY <1>1, ConcatProperties, Zenon
<1>2. /\ o \o q \in Seq(S) /\ Len(o \o q) = 1 + Len(q)
      /\ \A i \in 1..(1 + Len(q)) :
           (o \o q)[i] = IF i <= 1 THEN o[i] ELSE q[i - 1]
  BY <1>1, <1>b
<1>3. \A i \in 1..Len(r) : r[i] = (o \o q)[i]
  <2> TAKE i \in 1..Len(r)
  <2>1. CASE i = 1
    BY <1>1, <1>2, <2>1
  <2>2. CASE i # 1
    <3>1. i - 1 \in 1..Len(q) /\ i \in 1..(1 + Len(q)) /\ ~(i <= 1) /\ (i - 1) + 1 = i
      BY <1>1, <2>2
    <3>2. QED
      BY <1>2, <3>1
  <2>3. QED
    BY <2>1, <2>2
<1>4. QED
  BY <1>1, <1>2, <1>3, <1>a, SeqEqual

LEMMA FirstTaken ==
  ASSUME NEW S, NEW q \in Seq(S), q # << >>, NEW r \in Seq(S),
         Len(r) = Len(q) - 1, \A i \in 1..Len(r) : r[i] = q[i + 1]
  PROVE  r = Tail(q)
<1>1. Tail(q) \in Seq(S) /\ Len(Tail(q)) = Len(q) - 1
      /\ \A i \in 1..Len(Tail(q)) : Tail(q)[i] = q[i + 1]
  BY HeadTailProperties
<1>2. QED
  BY <1>1, SeqEqual

LEMMA JobsAreNotNull == IInv => \A s \in Slots : JobIn(s) # Null
<1> SUFFICES ASSUME IInv, NEW s \in Slots PROVE JobIn(s) # Null
  OBVIOUS
<1>1. JobIn(s) \in Job
  BY DEF IInv, TypeOK, JobIn, Job
<1>2. QED
  BY <1>1, NobodyAssumption DEF Job

(* While a job is being linked, the others leave it a place in the pool:   *)
(* the waiting slots are different ones, and neither its own nor the       *)
(* decoder's (the pigeons and the holes).                                  *)
LEMMA RoomToSubmit ==
  ASSUME IInv, call.pc = "link"
  PROVE  Len(stack) + (IF ActiveJob = Null THEN 0 ELSE 1) < PoolSize
<1> DEFINE Mine  == Slots \ {call.slot}
           Free  == Mine \ {cur}
<1>1. /\ stack \in Seq(Slots) /\ Len(stack) \in Nat /\ call.slot \in Slots
      /\ cur \in Slots \cup {Null} /\ PoolSize \in Nat
  BY DEF IInv, TypeOK, CallShape
<1>2. IsFiniteSet(Slots) /\ Cardinality(Slots) = PoolSize
  BY <1>1, FS_Interval
<1>3. IsFiniteSet(Mine) /\ Cardinality(Mine) = PoolSize - 1
  <2>1. /\ IsFiniteSet(Slots \ {call.slot})
        /\ Cardinality(Slots \ {call.slot}) = IF call.slot \in Slots
             THEN Cardinality(Slots) - 1 ELSE Cardinality(Slots)
    BY <1>2, FS_RemoveElement
  <2>2. QED
    BY <1>1, <1>2, <2>1
<1>4. IsFiniteSet(Free)
      /\ Cardinality(Free) = IF cur = Null THEN PoolSize - 1 ELSE PoolSize - 2
  <2>1. cur = Null \/ cur \in Mine
    BY <1>1 DEF IInv, SlotHasOneRole
  <2>2. Null \notin Mine
    OBVIOUS
  <2> HIDE DEF Mine
  <2>3. /\ IsFiniteSet(Mine \ {cur})
        /\ Cardinality(Mine \ {cur}) = IF cur \in Mine
             THEN Cardinality(Mine) - 1 ELSE Cardinality(Mine)
    BY <1>3, FS_RemoveElement
  <2>4. QED
    BY <1>1, <1>3, <2>1, <2>2, <2>3
<1>5. stack \in Injection(1..Len(stack), Free)
  <2>1. \A i \in 1..Len(stack) : stack[i] \in Free
    BY <1>1 DEF IInv, SlotHasOneRole, InStack
  <2>2. stack \in [1..Len(stack) -> Free]
    BY <1>1, <2>1
  <2>3. \A i, j \in 1..Len(stack) : stack[i] = stack[j] => i = j
    BY DEF IInv, SlotHasOneRole
  <2> HIDE DEF Free
  <2>4. QED
    BY <2>2, <2>3 DEF Injection, IsInjective
<1>6. Len(stack) <= Cardinality(Free)
  <2> HIDE DEF Free
  <2>1. Cardinality(1..Len(stack)) <= Cardinality(Free)
    BY <1>4, <1>5, FS_Injection
  <2>2. Cardinality(1..Len(stack)) = Len(stack)
    <3> DEFINE n == Len(stack)
    <3>1. n \in Nat /\ 1 \in Int /\ n \in Int
      BY <1>1
    <3> HIDE DEF n
    <3>2. Cardinality(1..n) = IF 1 > n THEN 0 ELSE n - 1 + 1
      BY <3>1, FS_Interval
    <3>3. QED
      BY <3>1, <3>2 DEF n
  <2>3. QED
    BY <2>1, <2>2
<1>7. cur = Null <=> ActiveJob = Null
  BY JobsAreNotNull DEF ActiveJob, IInv, TypeOK
<1> HIDE DEF Free
<1>8. QED
  BY <1>1, <1>4, <1>6, <1>7

(* Linking a job submits it.                                               *)
LEMMA LinkSubmits ==
  ASSUME IInv, IInv', QueueLink
  PROVE  Abstract!Submit(call.user)
<1> USE DEF QueueLink, decoderVars
<1>1. /\ stack \in Seq(Slots) /\ Len(stack) \in Nat /\ call.slot \in Slots
      /\ running /\ call.user \in Users
      /\ state[call.slot] = "queued" /\ user[call.slot] = call.user
  BY DEF IInv, TypeOK, CallShape
<1>2. /\ Len(stack') = Len(stack) + 1
      /\ \A i \in 1..Len(stack) : stack'[i] = stack[i]
      /\ stack'[Len(stack) + 1] = call.slot
  BY <1>1, PushFacts
<1> DEFINE new == [user |-> call.user, cancelled |-> FALSE]
<1>3. new \in Job
  BY <1>1 DEF Job
<1>4. WaitingJobs' = << new >> \o WaitingJobs
  <2>1. JobIn(call.slot)' = new
    <3>1. /\ call'.slot = call.slot /\ user'[call.slot] = call.user
          /\ (state'[call.slot] = "aborted") = FALSE
      BY <1>1 DEF IInv, TypeOK
    <3>2. QED
      BY <3>1, Zenon DEF JobIn
  <2>2. JobsShape /\ JobsShape'
    BY JobsHaveShape, JobsHaveShapeNext
  <2>3. Jobs'[1] = new
    <3>1. Len(stack') + 1 - 1 = Len(stack) + 1 /\ 1 \in 1..Len(stack')
      BY <1>1, <1>2
    <3>2. Jobs'[1] = JobIn(stack[Len(stack) + 1 - 1])'
      BY <2>2, <3>1 DEF JobsShape
    <3>3. JobIn(stack[Len(stack) + 1 - 1])' = JobIn(call.slot)'
      BY <1>2, <3>1 DEF JobIn
    <3>4. QED
      BY <2>1, <3>2, <3>3
  <2>4. \A i \in 1..Len(Jobs) : Jobs'[i + 1] = Jobs[i]
    <3> TAKE i \in 1..Len(Jobs)
    <3>1. /\ i \in 1..Len(stack) /\ i + 1 \in 1..Len(stack')
          /\ Len(stack') + 1 - (i + 1) = Len(stack) + 1 - i
          /\ Len(stack) + 1 - i \in 1..Len(stack)
      <4>1. i \in 1..Len(stack)
        BY <2>2 DEF JobsShape
      <4>2. QED
        BY <1>1, <1>2, <4>1
    <3>2. Jobs'[i + 1] = JobIn(stack[Len(stack) + 1 - (i + 1)])'
      BY <2>2, <3>1 DEF JobsShape
    <3>3. Jobs[i] = JobIn(stack[Len(stack) + 1 - i])
      BY <2>2, <3>1 DEF JobsShape
    <3>4. stack'[Len(stack') + 1 - (i + 1)] = stack[Len(stack) + 1 - i]
      BY <1>2, <3>1
    <3>5. QED
      BY <3>2, <3>3, <3>4 DEF JobIn
  <2>5. /\ Jobs \in Seq(Job) /\ Jobs' \in Seq(Job) /\ Len(Jobs') = Len(Jobs) + 1
    BY <1>2, <2>2 DEF JobsShape
  <2> HIDE DEF new
  <2>6. Jobs' = << new >> \o Jobs
    BY <1>3, <2>3, <2>4, <2>5, PutInFront
  <2>7. QED
    BY <2>6, WaitingIsJobs, WaitingIsJobsNext
<1>5. UNCHANGED << ActiveJob, Phase, running >>
  <2>1. UNCHANGED ActiveJob
    BY DEF ActiveJob, JobIn
  <2>2. UNCHANGED Phase
    BY DEF Phase
  <2>3. QED
    BY <2>1, <2>2
<1>6. Len(WaitingJobs) + (IF ActiveJob = Null THEN 0 ELSE 1) < PoolSize
  BY RoomToSubmit, WaitingIsJobs, JobsHaveShape DEF JobsShape
<1> HIDE DEF QueueLink
<1>7. QED
  BY <1>1, <1>4, <1>5, <1>6 DEF Abstract!Submit, Abstract!Load

(* Popping a job starts it.                                                *)
LEMMA PopStarts ==
  ASSUME IInv, IInv', Pop
  PROVE  Abstract!Start
<1> USE DEF Pop
<1>1. stack \in Seq(Slots) /\ Len(stack) \in Nat \ {0} /\ stack # << >>
  <2>1. stack \in Seq(Slots) /\ Len(stack) \in Nat \ {0}
    BY DEF IInv, TypeOK, TokensMatch, Pending, DecoderShape, CallShape
  <2>2. QED
    BY <2>1
<1>2. /\ Len(stack') = Len(stack) - 1
      /\ \A i \in 1..(Len(stack) - 1) : stack'[i] = stack[i]
  BY <1>1, PopFacts
<1>3. qhead = stack[Len(stack)] /\ qhead \in Slots
  BY <1>1 DEF IInv, ListIsStack, Top
<1>4. JobsShape /\ JobsShape'
  BY JobsHaveShape, JobsHaveShapeNext
<1>5. Jobs # << >> /\ Head(Jobs) = JobIn(qhead)
  <2>1. 1 \in 1..Len(stack) /\ Len(stack) + 1 - 1 = Len(stack)
    BY <1>1
  <2>2. Jobs[1] = JobIn(stack[Len(stack) + 1 - 1])
    BY <1>4, <2>1 DEF JobsShape
  <2>3. Jobs \in Seq(Job) /\ Len(Jobs) = Len(stack)
    BY <1>4 DEF JobsShape
  <2>4. Jobs # << >> /\ Head(Jobs) = Jobs[1]
    BY <1>1, <2>3
  <2>5. QED
    BY <1>3, <2>1, <2>2, <2>4
<1>6. Jobs' = Tail(Jobs)
  <2>1. /\ Jobs \in Seq(Job) /\ Jobs' \in Seq(Job)
        /\ Len(Jobs) = Len(stack) /\ Len(Jobs') = Len(stack')
    BY <1>4 DEF JobsShape
  <2>2. \A i \in 1..Len(Jobs') : Jobs'[i] = Jobs[i + 1]
    <3> TAKE i \in 1..Len(Jobs')
    <3>1. /\ i \in 1..Len(stack') /\ i + 1 \in 1..Len(stack)
          /\ Len(stack) + 1 - (i + 1) = Len(stack') + 1 - i
          /\ Len(stack') + 1 - i \in 1..(Len(stack) - 1)
      BY <1>1, <1>2, <2>1
    <3>2. Jobs'[i] = JobIn(stack[Len(stack) + 1 - i])'
      BY <1>4, <3>1 DEF JobsShape
    <3>3. Jobs[i + 1] = JobIn(stack[Len(stack) + 1 - (i + 1)])
      BY <1>4, <3>1 DEF JobsShape
    <3>4. stack'[Len(stack') + 1 - i] = stack[Len(stack) + 1 - (i + 1)]
      BY <1>2, <3>1
    <3>5. QED
      BY <3>2, <3>3, <3>4 DEF JobIn
  <2>3. QED
    BY <1>2, <1>5, <2>1, <2>2, FirstTaken
<1>7. cur = Null /\ cur' = qhead /\ ActiveJob = Null /\ ActiveJob' = JobIn(qhead)
  BY <1>3 DEF ActiveJob, JobIn, IInv, DecoderShape
<1>8. Phase' = "started" /\ UNCHANGED running
  BY DEF Phase
<1> HIDE DEF Pop
<1>9. WaitingJobs = Jobs /\ WaitingJobs' = Jobs'
  BY WaitingIsJobs, WaitingIsJobsNext
<1>10. QED
  BY <1>5, <1>6, <1>7, <1>8, <1>9 DEF Abstract!Start

LEMMA CancelledJob ==
  ASSUME NEW u, NEW b, NEW c
  PROVE  [[user |-> u, cancelled |-> b] EXCEPT !.cancelled = c]
           = [user |-> u, cancelled |-> c]
  OBVIOUS

(* Aborting a job that waits, or the one in work, cancels it; aborting     *)
(* anything else changes nothing.                                          *)
LEMMA AbortCancels ==
  ASSUME IInv, IInv', NEW s \in Slots, Abort(s)
  PROVE  [Abstract!Next]_(Abstract!vars)
<1> USE DEF Abort, decoderVars
<1>1. /\ stack \in Seq(Slots) /\ Len(stack) \in Nat /\ running /\ call = Idle
      /\ state \in [Slots -> SlotState] /\ cur \in Slots \cup {Null}
      /\ \A i, j \in 1..Len(stack) : stack[i] = stack[j] => i = j
      /\ \A i \in 1..Len(stack) : stack[i] # cur
  BY DEF IInv, TypeOK, SlotHasOneRole, InStack
<1>2. UNCHANGED << Phase, running >>
  BY DEF Phase
<1>3. CASE ~(state[s] = "queued" /\ (s = cur \/ InStack(s)))
  <2>1. \A i \in 1..Len(stack) : state'[stack[i]] = state[stack[i]]
    BY <1>1, <1>3 DEF Aborted, InStack
  <2>2. UNCHANGED WaitingJobs
    BY <2>1, SameJobs
  <2>3. cur # Null => state'[cur] = state[cur]
    BY <1>1, <1>3 DEF Aborted
  <2>4. UNCHANGED ActiveJob
    BY <2>3 DEF ActiveJob, JobIn
  <2>5. QED
    BY <1>2, <2>2, <2>4 DEF Abstract!vars
<1>4. CASE state[s] = "queued" /\ s = cur
  <2>1. \A i \in 1..Len(stack) : state'[stack[i]] = state[stack[i]]
    BY <1>1, <1>4 DEF Aborted
  <2>2. UNCHANGED WaitingJobs
    BY <2>1, SameJobs
  <2>3. /\ (state[cur] = "aborted") = FALSE /\ (state'[cur] = "aborted") = TRUE
        /\ cur' = cur /\ user' = user /\ cur # Null
    BY <1>1, <1>4 DEF Aborted
  <2>4. ActiveJob = [user |-> user[cur], cancelled |-> FALSE]
    BY <2>3, Zenon DEF ActiveJob, JobIn
  <2>5. ActiveJob' = [user |-> user[cur], cancelled |-> TRUE]
    BY <2>3, Zenon DEF ActiveJob, JobIn
  <2>6. ActiveJob # Null
    BY <1>1, <2>3, JobsAreNotNull DEF ActiveJob
  <2>7. ActiveJob' = [ActiveJob EXCEPT !.cancelled = TRUE]
    BY <2>4, <2>5, CancelledJob, Zenon
  <2>8. Abstract!CancelActive
    BY <1>1, <1>2, <2>2, <2>4, <2>6, <2>7 DEF Abstract!CancelActive
  <2>9. QED
    BY <2>8 DEF Abstract!Next
<1>5. CASE state[s] = "queued" /\ s # cur /\ InStack(s)
  <2>1. PICK k \in 1..Len(stack) : stack[k] = s
    BY <1>5 DEF InStack
  <2>2. PICK i \in 1..Len(stack) : i = Len(stack) + 1 - k
    <3>1. Len(stack) + 1 - k \in 1..Len(stack)
      BY <1>1
    <3>2. QED
      BY <3>1
  <2>3. Len(stack) + 1 - i = k
    BY <1>1, <2>2
  <2>4. JobsShape /\ JobsShape'
    BY JobsHaveShape, JobsHaveShapeNext
  <2>5. /\ (state[s] = "aborted") = FALSE /\ (state'[s] = "aborted") = TRUE
        /\ user' = user /\ stack' = stack
    BY <1>1, <1>5 DEF Aborted
  <2>6. JobIn(s) = [user |-> user[s], cancelled |-> FALSE]
    BY <2>5, Zenon DEF JobIn
  <2>7. Jobs[i] = [user |-> user[s], cancelled |-> FALSE]
    BY <2>1, <2>3, <2>4, <2>6 DEF JobsShape
  <2>8. Jobs'[i] = [user |-> user[s], cancelled |-> TRUE]
    <3>1. Jobs'[i] = [user |-> user'[stack'[k]], cancelled |-> state'[stack'[k]] = "aborted"]
      BY <2>3, <2>4, <2>5 DEF JobsShape, JobIn
    <3>2. stack'[k] = s
      BY <2>1, <2>5
    <3>3. QED
      BY <2>5, <3>1, <3>2, Zenon
  <2>9. \A j \in 1..Len(stack) : j # i => Jobs'[j] = Jobs[j]
    <3> TAKE j \in 1..Len(stack)
    <3> HAVE j # i
    <3>1. Len(stack) + 1 - j \in 1..Len(stack) /\ Len(stack) + 1 - j # k
      BY <1>1, <2>2
    <3>2. stack[Len(stack) + 1 - j] # s /\ stack[Len(stack) + 1 - j] \in Slots
      <4> DEFINE m == Len(stack) + 1 - j
      <4>1. m \in 1..Len(stack) /\ m # k
        BY <3>1
      <4> HIDE DEF m
      <4>2. stack[m] # s /\ stack[m] \in Slots
        BY <1>1, <2>1, <4>1
      <4>3. QED
        BY <4>2 DEF m
    <3>3. /\ user'[stack[Len(stack) + 1 - j]] = user[stack[Len(stack) + 1 - j]]
          /\ state'[stack[Len(stack) + 1 - j]] = state[stack[Len(stack) + 1 - j]]
      BY <1>1, <3>2 DEF Aborted
    <3>4. JobIn(stack[Len(stack) + 1 - j])' = JobIn(stack[Len(stack) + 1 - j])
      BY <2>5, <3>3 DEF JobIn
    <3>5. Jobs'[j] = JobIn(stack[Len(stack) + 1 - j])'
      BY <2>4, <2>5 DEF JobsShape
    <3>6. Jobs[j] = JobIn(stack[Len(stack) + 1 - j])
      BY <2>4 DEF JobsShape
    <3>7. QED
      BY <3>4, <3>5, <3>6
  <2>10. Jobs' = [Jobs EXCEPT ![i].cancelled = TRUE]
    <3>1. /\ Jobs \in [1..Len(stack) -> Job] /\ Jobs' \in [1..Len(stack) -> Job]
      BY <2>4, <2>5 DEF JobsShape
    <3>2. [Jobs[i] EXCEPT !.cancelled = TRUE] = Jobs'[i]
      <4>1. [[user |-> user[s], cancelled |-> FALSE] EXCEPT !.cancelled = TRUE]
              = [user |-> user[s], cancelled |-> TRUE]
        BY CancelledJob, Zenon
      <4>2. QED
        BY <2>7, <2>8, <4>1, Zenon
    <3>3. QED
      BY <2>9, <3>1, <3>2
  <2>11. UNCHANGED ActiveJob
    <3>1. cur # Null => state'[cur] = state[cur]
      BY <1>1, <1>5 DEF Aborted
    <3>2. QED
      BY <3>1 DEF ActiveJob, JobIn
  <2>12. WaitingJobs = Jobs /\ WaitingJobs' = Jobs'
    BY WaitingIsJobs, WaitingIsJobsNext
  <2>13. i \in 1..Len(WaitingJobs) /\ ~WaitingJobs[i].cancelled
    BY <2>4, <2>7, <2>12 DEF JobsShape
  <2>14. Abstract!CancelWaiting(i)
    BY <1>1, <1>2, <2>10, <2>11, <2>12, <2>13 DEF Abstract!CancelWaiting
  <2>15. QED
    BY <2>13, <2>14 DEF Abstract!Next
<1>6. QED
  BY <1>3, <1>4, <1>5

(* A step that moves no job is a stutter of the abstraction.               *)
LEMMA Stutters ==
  ASSUME IInv, IInv',
         QueueAlloc(call'.user) \/ QueueFill \/ QueuePost \/ SemWait
           \/ DecodeSeesAbort \/ DecodeDone \/ UNCHANGED vars
  PROVE  UNCHANGED Abstract!vars
<1>1. UNCHANGED << stack, running, cur >>
  BY DEF QueueAlloc, QueueFill, QueuePost, SemWait, DecodeSeesAbort, DecodeDone,
         decoderVars, queueVars, vars
<1>2. \A t \in Slots : InStack(t) \/ t = cur =>
        user'[t] = user[t] /\ state'[t] = state[t]
  <2>1. CASE QueueFill
    BY <2>1 DEF QueueFill, IInv, TypeOK, SlotHasOneRole
  <2>2. CASE ~QueueFill
    BY <2>2 DEF QueueAlloc, QueuePost, SemWait, DecodeSeesAbort, DecodeDone,
                decoderVars, queueVars, vars
  <2>3. QED
    BY <2>1, <2>2
<1>3. UNCHANGED WaitingJobs
  <2>1. \A i \in 1..Len(stack) : stack[i] \in Slots /\ InStack(stack[i])
    BY DEF IInv, TypeOK, InStack
  <2>2. QED
    BY <1>1, <1>2, <2>1, SameJobs
<1>4. UNCHANGED ActiveJob
  <2>1. cur # Null => cur \in Slots
    BY DEF IInv, TypeOK
  <2>2. cur # Null => user'[cur] = user[cur] /\ state'[cur] = state[cur]
    BY <1>2, <2>1
  <2>3. QED
    BY <1>1, <2>2 DEF ActiveJob, JobIn
<1>5. UNCHANGED Phase
  BY DEF Phase, QueueAlloc, QueueFill, QueuePost, SemWait, DecodeSeesAbort,
         DecodeDone, decoderVars, vars
<1>6. QED
  BY <1>1, <1>3, <1>4, <1>5 DEF Abstract!vars

(* The decoder's own steps work on the active job and let go of it.        *)
LEMMA DecoderServes ==
  ASSUME IInv, IInv',
         DropAborted \/ OpenFails \/ StartDecode \/ DecodeFails \/ Deliver
  PROVE  Abstract!Work \/ Abstract!Conclude
<1>1. UNCHANGED << queueVars, running, cur, stack >>
  BY DEF DropAborted, OpenFails, StartDecode, DecodeFails, Deliver
<1>2. UNCHANGED << WaitingJobs, ActiveJob, running >>
  <2>1. UNCHANGED WaitingJobs
    BY <1>1, SameJobs DEF queueVars
  <2>2. UNCHANGED ActiveJob
    BY <1>1 DEF queueVars, ActiveJob, JobIn
  <2>3. QED
    BY <1>1, <2>1, <2>2
<1>3. CASE StartDecode
  <2>1. Phase = "started" /\ Phase' = "working"
    BY <1>3 DEF StartDecode, Phase
  <2>2. cur # Null /\ (state[cur] = "aborted") = FALSE
    BY <1>3 DEF StartDecode, IInv, DecoderShape
  <2>3. ActiveJob = [user |-> user[cur], cancelled |-> FALSE]
    BY <2>2, Zenon DEF ActiveJob, JobIn
  <2>4. QED
    BY <1>2, <2>1, <2>3 DEF Abstract!Work
<1>4. CASE DropAborted \/ OpenFails \/ DecodeFails \/ Deliver
  <2>1. Phase \in {"started", "working"} /\ Phase' = "over"
    BY <1>4 DEF DropAborted, OpenFails, DecodeFails, Deliver, Phase
  <2>2. QED
    BY <1>2, <2>1 DEF Abstract!Conclude
<1>5. QED
  BY <1>3, <1>4

LEMMA ReleaseRetires ==
  ASSUME IInv, IInv', Release
  PROVE  Abstract!Retire
<1>1. UNCHANGED WaitingJobs
  <2>1. \A i \in 1..Len(stack) : stack[i] # cur /\ stack[i] \in Slots
    BY DEF IInv, TypeOK, SlotHasOneRole, InStack
  <2>2. QED
    BY <2>1, SameJobs DEF Release, IInv, TypeOK
<1>2. ActiveJob' = Null
  BY DEF Release, ActiveJob
<1>3. Phase = "over" /\ Phase' = "none" /\ UNCHANGED running
  BY DEF Release, Phase
<1>4. QED
  BY <1>1, <1>2, <1>3 DEF Abstract!Retire

LEMMA DeinitCloses ==
  ASSUME IInv, IInv', Deinit
  PROVE  Abstract!Close
<1>1. UNCHANGED WaitingJobs
  BY SameJobs DEF Deinit
<1>2. UNCHANGED << ActiveJob, Phase >>
  <2>1. UNCHANGED ActiveJob
    BY DEF Deinit, decoderVars, ActiveJob, JobIn
  <2>2. UNCHANGED Phase
    BY DEF Deinit, decoderVars, Phase
  <2>3. QED
    BY <2>1, <2>2
<1>3. running /\ running' = FALSE
  BY DEF Deinit
<1>4. QED
  BY <1>1, <1>2, <1>3 DEF Abstract!Close

LEMMA ReinitReopens ==
  ASSUME IInv, IInv', Reinit
  PROVE  Abstract!Reopen
<1>1. WaitingJobs' = << >>
  <2>1. stack' = << >> /\ JobsShape'
    BY JobsHaveShapeNext DEF Reinit
  <2>2. Jobs' = << >>
    BY <2>1 DEF JobsShape
  <2>3. QED
    BY <2>2, WaitingIsJobsNext
<1>2. cur = Null /\ ~running /\ running' = TRUE /\ cur' = Null
  BY DEF Reinit, IInv, DecoderShape
<1>3. ActiveJob = Null /\ ActiveJob' = Null
  BY <1>2 DEF ActiveJob
<1>4. UNCHANGED Phase
  BY DEF Reinit, Phase
<1>5. QED
  BY <1>1, <1>2, <1>3, <1>4 DEF Abstract!Reopen

LEMMA StepImplements == IInv /\ IInv' /\ [Next]_vars => [Abstract!Next]_(Abstract!vars)
<1> SUFFICES ASSUME IInv, IInv', [Next]_vars
             PROVE  [Abstract!Next]_(Abstract!vars)
  OBVIOUS
<1>1. CASE \E u \in Users : QueueAlloc(u)
  <2>1. QueueAlloc(call'.user)
    BY <1>1 DEF QueueAlloc
  <2>2. QED
    BY <2>1, Stutters
<1>2. CASE QueueLink
  <2>1. call.user \in Users
    BY <1>2 DEF QueueLink, IInv, CallShape
  <2>2. QED
    BY <1>2, <2>1, LinkSubmits DEF Abstract!Next
<1>3. CASE \E s \in Slots : Abort(s)
  BY <1>3, AbortCancels
<1>4. CASE Deinit \/ Reinit
  BY <1>4, DeinitCloses, ReinitReopens DEF Abstract!Next
<1>5. CASE QueueFill \/ QueuePost \/ SemWait \/ DecodeSeesAbort \/ DecodeDone
             \/ UNCHANGED vars
  BY <1>5, Stutters
<1>6. CASE Pop \/ Release
  BY <1>6, PopStarts, ReleaseRetires DEF Abstract!Next
<1>7. CASE DropAborted \/ OpenFails \/ StartDecode \/ DecodeFails \/ Deliver
  BY <1>7, DecoderServes DEF Abstract!Next
<1>8. QED
  BY <1>1, <1>2, <1>3, <1>4, <1>5, <1>6, <1>7
     DEF Next, Client, QueueStep, DecoderThread

LEMMA InitImplements == Init => Abstract!Init
<1> SUFFICES ASSUME Init PROVE Abstract!Init
  OBVIOUS
<1>1. IInv /\ stack = << >> /\ cur = Null /\ running = TRUE /\ dpc = "wait"
  BY InitIInv DEF Init
<1>2. WaitingJobs = << >>
  BY <1>1, WaitingIsJobs, JobsHaveShape DEF JobsShape
<1>3. ActiveJob = Null /\ Phase = "none"
  BY <1>1 DEF ActiveJob, Phase
<1>4. QED
  BY <1>1, <1>2, <1>3 DEF Abstract!Init

(* Through its pointers, its pool and its semaphore, jpg_decoder.c is a    *)
(* bounded stack of jobs served newest first: none is lost or served       *)
(* twice, one aborted while it waited is never worked on, and the caller   *)
(* of complete_cb is given the user_data the job was queued with.          *)
THEOREM ImplementsTheJobStack == Spec => ImplementsJobStack
<1>1. Init => Abstract!Init
  BY InitImplements
<1>2. IInv /\ IInv' /\ [Next]_vars => [Abstract!Next]_(Abstract!vars)
  BY StepImplements
<1>3. QED
  BY <1>1, <1>2, DecoderInvariant, PTL
     DEF Spec, ImplementsJobStack, Abstract!Spec
================================================================================
