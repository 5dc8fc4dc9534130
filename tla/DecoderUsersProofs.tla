--------------------------- MODULE DecoderUsersProofs ---------------------------
(***************************************************************************)
(* Proofs about the two users of the JPEG decoder, over its invariant.     *)
(*                                                                         *)
(* Thumbnails, for any pool, tiles, files and cache: who waits is listed,  *)
(* the cache accounts for all images, and until a file could not be read a *)
(* handle is a job of its tile that still runs and nothing else is aborted. *)
(*                                                                         *)
(* Backdrop, for any pool, paths and number of requests: the image on the  *)
(* backdrop never goes back to one that was asked for before, and the      *)
(* canvas it fades in on is the one that fades out next.                   *)
(***************************************************************************)
EXTENDS Thumbnails, Backdrop, JpegDecoderProofs

(***************************************************************************)
(* Sequences.                                                              *)
(***************************************************************************)
(* Appending adds one element and nothing else.                            *)
LEMMA Appended ==
  ASSUME NEW S, NEW s \in Seq(S), NEW x \in S
  PROVE  /\ Append(s, x) \in Seq(S) /\ Len(Append(s, x)) = Len(s) + 1
         /\ \A y : Contains(Append(s, x), y) <=> Contains(s, y) \/ y = x
         /\ ~Contains(s, x) /\ IsInjective(s) => IsInjective(Append(s, x))
<1> DEFINE t == Append(s, x)  n == Len(s)
<1>1. /\ t \in Seq(S) /\ Len(t) = n + 1 /\ n \in Nat /\ t[n + 1] = x
      /\ \A i \in 1..n : t[i] = s[i]
      /\ DOMAIN t = 1..(n + 1) /\ DOMAIN s = 1..n
  OBVIOUS
<1> HIDE DEF t, n
<1>2. ASSUME NEW y PROVE Contains(t, y) <=> Contains(s, y) \/ y = x
  <2>1. ASSUME Contains(t, y) PROVE Contains(s, y) \/ y = x
    <3>1. PICK i \in 1..(n + 1) : t[i] = y
      BY <1>1, <2>1 DEF Contains
    <3>2. i = n + 1 \/ i \in 1..n
      BY <1>1
    <3>3. QED
      BY <1>1, <3>1, <3>2 DEF Contains, n
  <2>2. ASSUME Contains(s, y) PROVE Contains(t, y)
    <3>1. PICK i \in 1..n : s[i] = y
      BY <2>2 DEF Contains, n
    <3>2. i \in 1..(n + 1) /\ t[i] = y
      BY <1>1, <3>1
    <3>3. QED
      BY <1>1, <3>2 DEF Contains
  <2>3. n + 1 \in 1..(n + 1)
    BY <1>1
  <2>4. Contains(t, x)
    BY <1>1, <2>3 DEF Contains
  <2>5. QED
    BY <2>1, <2>2, <2>4
<1>3. ~Contains(s, x) /\ IsInjective(s) => IsInjective(t)
  BY <1>1 DEF Contains, IsInjective, n
<1>4. QED
  BY <1>1, <1>2, <1>3 DEF t, n

(* Removing an entry removes that entry and nothing else.                  *)
LEMMA Removed ==
  ASSUME NEW S, NEW s \in Seq(S), NEW i \in 1..Len(s)
  PROVE  /\ RemoveAt(s, i) \in Seq(S) /\ Len(RemoveAt(s, i)) = Len(s) - 1
         /\ \A y : Contains(RemoveAt(s, i), y) => Contains(s, y)
         /\ \A y : y # s[i] /\ Contains(s, y) => Contains(RemoveAt(s, i), y)
         /\ IsInjective(s) => IsInjective(RemoveAt(s, i)) /\ ~Contains(RemoveAt(s, i), s[i])
<1> DEFINE n == Len(s)  a == SubSeq(s, 1, i - 1)  b == SubSeq(s, i + 1, n)  r == RemoveAt(s, i)
<1>1. n \in Nat /\ DOMAIN s = 1..n /\ i \in 1..n
  OBVIOUS
<1>2. /\ a \in Seq(S) /\ Len(a) = i - 1 /\ \A j \in 1..(i - 1) : a[j] = s[j]
  <2>1. \A j \in 1..(i - 1) : s[j] \in S
    BY <1>1
  <2>2. 1 \in Int /\ i - 1 \in Int /\ i - 1 >= 0
    BY <1>1
  <2>3. /\ a \in Seq(S)
        /\ Len(a) = (IF 1 <= i - 1 THEN (i - 1) - 1 + 1 ELSE 0)
        /\ \A j \in 1..((i - 1) - 1 + 1) : a[j] = s[1 + j - 1]
    BY <1>1, <2>1, <2>2, SubSeqProperties
  <2> HIDE DEF a, n
  <2>4. QED
    BY <1>1, <2>3
<1>3. /\ b \in Seq(S) /\ Len(b) = n - i /\ \A j \in 1..(n - i) : b[j] = s[i + j]
  <2>1. \A j \in (i + 1)..n : s[j] \in S
    BY <1>1
  <2>2. n \in Int /\ i + 1 \in Int
    BY <1>1
  <2>3. /\ b \in Seq(S)
        /\ Len(b) = (IF i + 1 <= n THEN n - (i + 1) + 1 ELSE 0)
        /\ \A j \in 1..(n - (i + 1) + 1) : b[j] = s[(i + 1) + j - 1]
    BY <2>1, <2>2, SubSeqProperties
  <2> HIDE DEF b, n
  <2>4. QED
    BY <1>1, <2>3
<1>4. r = a \o b
  BY DEF RemoveAt
<1> HIDE DEF a, b, r, n
<1>5. /\ r \in Seq(S) /\ Len(r) = n - 1
      /\ \A j \in 1..(n - 1) : r[j] = (IF j < i THEN s[j] ELSE s[j + 1])
  <2>1. /\ a \o b \in Seq(S) /\ Len(a \o b) = Len(a) + Len(b)
        /\ \A j \in 1..(Len(a) + Len(b)) :
             (a \o b)[j] = (IF j <= Len(a) THEN a[j] ELSE b[j - Len(a)])
    BY <1>2, <1>3, ConcatProperties
  <2>2. Len(a) + Len(b) = n - 1
    BY <1>1, <1>2, <1>3
  <2>3. ASSUME NEW j \in 1..(n - 1) PROVE r[j] = (IF j < i THEN s[j] ELSE s[j + 1])
    <3>1. r[j] = (IF j <= i - 1 THEN a[j] ELSE b[j - (i - 1)])
      BY <1>2, <1>4, <2>1, <2>2
    <3>2. CASE j < i
      BY <1>1, <1>2, <3>1, <3>2
    <3>3. CASE ~(j < i)
      <4>1. j - (i - 1) \in 1..(n - i) /\ i + (j - (i - 1)) = j + 1 /\ ~(j <= i - 1)
        BY <1>1, <3>3
      <4>2. b[j - (i - 1)] = s[j + 1]
        BY <1>3, <4>1
      <4>3. QED
        BY <3>1, <3>3, <4>1, <4>2
    <3>4. QED
      BY <3>2, <3>3
  <2>4. QED
    BY <1>4, <2>1, <2>2, <2>3
<1>6. ASSUME NEW y, y # s[i], NEW j \in 1..n, s[j] = y PROVE \E k \in 1..(n - 1) : r[k] = y
  <2>1. CASE j < i
    BY <1>1, <1>5, <1>6, <2>1
  <2>2. CASE j > i
    <3>1. j - 1 \in 1..(n - 1) /\ ~(j - 1 < i) /\ (j - 1) + 1 = j
      BY <1>1, <2>2
    <3>2. r[j - 1] = y
      BY <1>5, <1>6, <3>1
    <3>3. QED
      BY <3>1, <3>2
  <2>3. QED
    BY <1>1, <1>6, <2>1, <2>2
<1>7. \A k \in 1..(n - 1) : \E j \in 1..n : s[j] = r[k]
  BY <1>1, <1>5
<1>8. ASSUME IsInjective(s) PROVE IsInjective(r) /\ ~Contains(r, s[i])
  <2>1. DOMAIN r = 1..(n - 1)
    BY <1>5
  <2> DEFINE At(j) == IF j < i THEN j ELSE j + 1
  <2>2. ASSUME NEW j \in 1..(n - 1) PROVE At(j) \in 1..n /\ At(j) # i /\ r[j] = s[At(j)]
    BY <1>1, <1>5
  <2>3. \A j, k \in 1..(n - 1) : At(j) = At(k) => j = k
    BY <1>1
  <2> HIDE DEF At
  <2>4. \A j, k \in 1..n : s[j] = s[k] => j = k
    BY <1>1, <1>8 DEF IsInjective
  <2>5. QED
    BY <1>1, <1>5, <2>1, <2>2, <2>3, <2>4 DEF Contains, IsInjective
<1>9. QED
  BY <1>5, <1>6, <1>7, <1>8 DEF Contains, r, n

(* The first entry of a sequence is removed by taking the tail.            *)
LEMMA TailRemoves ==
  ASSUME NEW S, NEW s \in Seq(S), s # << >>
  PROVE  Tail(s) = RemoveAt(s, 1) /\ 1 \in 1..Len(s) /\ Head(s) = s[1] /\ Head(s) \in S
<1>1. Len(s) \in Nat \ {0}
  BY EmptySeq
<1>2. SubSeq(s, 1, 0) = << >> /\ Tail(s) = SubSeq(s, 2, Len(s)) /\ Tail(s) \in Seq(S)
  BY SubSeqEmpty, TailIsSubSeq, HeadTailProperties
<1>3. << >> \o Tail(s) = Tail(s)
  BY <1>2, ConcatEmptySeq
<1>4. 1 - 1 = 0 /\ 1 + 1 = 2
  OBVIOUS
<1>5. RemoveAt(s, 1) = << >> \o Tail(s)
  BY <1>2, <1>4 DEF RemoveAt
<1>6. QED
  BY <1>1, <1>3, <1>5, ElementOfSeq

(***************************************************************************)
(* The inductive invariant, beside that of the decoder.                    *)
(***************************************************************************)
(* A slot holds a job of tile t that will still be delivered to it.        *)
Runs(s, t) ==
  /\ s \in Slots /\ state[s] = "queued" /\ user[s] = t
  /\ ~(s = cur /\ dpc = "release")

JobsHaveTiles == \A s \in Slots : state[s] # "free" => user[s] \in Users

(* The tile that is queueing waits for nothing else; once its slot is      *)
(* filled the job runs, or has already failed.                             *)
CallIsOwn ==
  /\ call.pc # "idle" =>
       handle[call.user] = Null /\ ~mem[call.user] /\ Len(list) < MaxListed
  /\ call.pc \in {"link", "post"} =>
       call.user \in BadFiles \/ Runs(call.slot, call.user)

(* A tile that waits has no image and is listed.                           *)
WaitersAreListed ==
  \A t \in Users : handle[t] # Null => ~mem[t] /\ Contains(list, t)

(* A job that is over was aborted, or its tile no longer has the handle,   *)
(* or its file is unreadable.                                              *)
EndedJobs ==
  dpc = "release" /\ cur # Null /\ state[cur] = "queued" /\ handle[user[cur]] = cur =>
    user[cur] \in BadFiles

CacheAccounts ==
  /\ \A t \in Users : mem[t] => Contains(cache, t)
  /\ IsInjective(cache)
  /\ Len(cache) <= CacheSize

PipeInv ==
  /\ IInv /\ ThumbTypeOK
  /\ JobsHaveTiles /\ CallIsOwn /\ WaitersAreListed /\ EndedJobs /\ CacheAccounts

LEMMA PipeBegins == ThumbInit => PipeInv
<1> SUFFICES ASSUME ThumbInit PROVE PipeInv
  OBVIOUS
<1>1. IInv
  BY InitIInv DEF ThumbInit
<1>2. ThumbTypeOK
  <2>1. << >> \in Seq(Users) /\ Len(<< >>) = 0
    BY EmptySeq
  <2>2. list \in Seq(Users) /\ Len(list) <= MaxListed /\ cache \in Seq(Users)
    BY <2>1, BoundsAssumption DEF ThumbInit
  <2>3. /\ mem \in [Users -> BOOLEAN] /\ canvas \in [Users -> BOOLEAN]
        /\ pinned \in [Users -> BOOLEAN] /\ visible \in [Users -> BOOLEAN]
    BY DEF ThumbInit
  <2>4. QED
    BY <2>2, <2>3 DEF ThumbInit, ThumbTypeOK
<1>3. JobsHaveTiles /\ CallIsOwn /\ WaitersAreListed /\ EndedJobs
  BY DEF ThumbInit, Init, Idle, JobsHaveTiles, CallIsOwn, WaitersAreListed, EndedJobs
<1>4. CacheAccounts
  <2>1. cache = << >> /\ \A t \in Users : ~mem[t]
    BY DEF ThumbInit
  <2>2. QED
    BY <2>1, CacheSizeAssumption DEF CacheAccounts, IsInjective
<1>5. QED
  BY <1>1, <1>2, <1>3, <1>4 DEF PipeInv

(***************************************************************************)
(* What the invariant says where the steps need it.                        *)
(***************************************************************************)
LEMMA DeliveredTile ==
  ASSUME PipeInv, cur # Null
  PROVE  cur \in Slots /\ state[cur] # "free" /\ user[cur] \in Users
  BY DEF PipeInv, IInv, DecoderShape, TypeOK, JobsHaveTiles

(* Using an entry reorders the cache.                                      *)
LEMMA TouchReorders ==
  ASSUME PipeInv, NEW t \in Users
  PROVE  /\ Touched(t) \in Seq(Users) /\ Len(Touched(t)) = Len(cache)
         /\ IsInjective(Touched(t))
         /\ \A y : Contains(cache, y) => Contains(Touched(t), y)
<1>0. cache \in Seq(Users) /\ IsInjective(cache)
  BY DEF PipeInv, ThumbTypeOK, CacheAccounts
<1>1. CASE ~Contains(cache, t)
  BY <1>0, <1>1 DEF Touched
<1>2. CASE Contains(cache, t)
  <2> DEFINE i == CHOOSE i \in 1..Len(cache) : cache[i] = t
             r == RemoveAt(cache, i)
  <2>1. i \in 1..Len(cache) /\ cache[i] = t
    BY <1>2 DEF Contains
  <2>2. Touched(t) = Append(r, t)
    BY <1>2 DEF Touched
  <2> HIDE DEF i
  <2>3. /\ r \in Seq(Users) /\ Len(r) = Len(cache) - 1
        /\ IsInjective(r) /\ ~Contains(r, t)
        /\ \A y : y # t /\ Contains(cache, y) => Contains(r, y)
    BY <1>0, <2>1, Removed
  <2>4. Len(cache) \in Nat
    BY <1>0
  <2> HIDE DEF r
  <2>5. /\ Append(r, t) \in Seq(Users) /\ Len(Append(r, t)) = Len(r) + 1
        /\ IsInjective(Append(r, t))
        /\ \A y : Contains(Append(r, t), y) <=> Contains(r, y) \/ y = t
    BY <2>3, Appended
  <2>6. QED
    BY <2>2, <2>3, <2>4, <2>5
<1>3. QED
  BY <1>1, <1>2

(***************************************************************************)
(* Every step is one of the decoder's, so that its invariant holds here.   *)
(***************************************************************************)
LEMMA TimerIsDecoders ==
  ASSUME PipeInv, NEW i \in 1..Len(list), ClearTimer(i)
  PROVE  [Next]_vars
<1>1. list[i] \in Users
  BY ElementOfSeq DEF PipeInv, ThumbTypeOK
<1>2. CASE UNCHANGED vars
  BY <1>2
<1>3. CASE Abort(handle[list[i]])
  <2>1. CASE handle[list[i]] = Null
    BY <1>3, <2>1 DEF Abort, Aborted, vars, decoderVars
  <2>2. CASE handle[list[i]] # Null
    BY <1>1, <1>3, <2>2 DEF PipeInv, ThumbTypeOK, Next, Client
  <2>3. QED
    BY <2>1, <2>2
<1>4. QED
  BY <1>2, <1>3 DEF ClearTimer

(* An evicted tile has an image, so it waits for nothing that the eviction *)
(* could abort.                                                            *)
LEMMA EvictionIsDelivery ==
  ASSUME PipeInv, CallbackEvicts
  PROVE  /\ Head(cache) \in Users /\ handle[Head(cache)] = Null
         /\ Deliver /\ cache # << >>
<1>1. cache # << >>
  <2>1. Len(cache) = CacheSize
    BY DEF CallbackEvicts
  <2>2. CASE cache = << >>
    BY <2>1, <2>2, CacheSizeAssumption
  <2>3. QED
    BY <2>2
<1>2. Head(cache) \in Users
  BY <1>1, TailRemoves DEF PipeInv, ThumbTypeOK
<1>3. handle[Head(cache)] = Null
  BY <1>2 DEF PipeInv, WaitersAreListed, CallbackEvicts
<1>4. Deliver
  BY <1>3 DEF CallbackEvicts, Aborted, Deliver, queueVars
<1>5. QED
  BY <1>1, <1>2, <1>3, <1>4

LEMMA StepsAreDecoders ==
  ASSUME PipeInv, [ThumbNext]_thumbVars
  PROVE  [Next]_vars
<1>1. CASE \E i \in 1..Len(list) : ClearTimer(i)
  BY <1>1, TimerIsDecoders
<1>2. CASE Callback
  BY <1>2, EvictionIsDelivery
     DEF Callback, CallbackAborted, CallbackRepeated, CallbackFits, CallbackFaults,
         Next, DecoderThread
<1>3. CASE QueueSteps \/ QueueReturns
  BY <1>3 DEF QueueSteps, QueueReturns, Next, Client, QueueStep
<1>4. CASE DecoderSteps
  BY <1>4 DEF DecoderSteps, Next, DecoderThread
<1>5. CASE \E t \in Users : Draw(t) \/ Preload(t)
  <2>1. PICK t \in Users : Draw(t) \/ Preload(t)
    BY <1>5
  <2>2. QueueAlloc(t) \/ UNCHANGED vars
    BY <2>1 DEF Draw, Preload, UpdateThumbnail
  <2>3. QED
    BY <2>2 DEF Next, Client
<1>6. CASE UNCHANGED vars
  BY <1>6
<1>7. QED
  BY <1>1, <1>2, <1>3, <1>4, <1>5, <1>6
     DEF ThumbNext, AddTile, Scroll, DeleteTile, Halted, thumbVars

(***************************************************************************)
(* The steps keep the types.                                               *)
(***************************************************************************)
LEMMA FunctionUpdated ==
  ASSUME NEW S, NEW T, NEW f \in [S -> T], NEW x, NEW y \in T
  PROVE  [f EXCEPT ![x] = y] \in [S -> T]
  OBVIOUS

LEMMA UiKeepsTypes ==
  ASSUME PipeInv, IInv', NEW t \in Users,
         AddTile(t) \/ Scroll(t) \/ Draw(t) \/ Preload(t) \/ DeleteTile(t)
  PROVE  ThumbTypeOK'
<1> USE DEF PipeInv, ThumbTypeOK
<1>1. CASE AddTile(t) \/ Scroll(t)
  BY <1>1 DEF AddTile, Scroll
<1>2. CASE DeleteTile(t)
  BY <1>2 DEF DeleteTile
<1>3. CASE Draw(t) \/ Preload(t)
  <2>1. cache' \in Seq(Users)
    BY <1>3, TouchReorders DEF Draw, Preload, UpdateThumbnail
  <2>2. pinned' \in [Users -> BOOLEAN]
    BY <1>3 DEF Draw, Preload
  <2>3. QED
    BY <1>3, <2>1, <2>2 DEF Draw, Preload
<1>4. QED
  BY <1>1, <1>2, <1>3

LEMMA TimerKeepsTypes ==
  ASSUME PipeInv, NEW i \in 1..Len(list), ClearTimer(i)
  PROVE  ThumbTypeOK'
<1> USE DEF PipeInv, ThumbTypeOK
<1>1. list[i] \in Users
  BY ElementOfSeq
<1>2. handle' \in [Users -> Slots \cup {Null}]
  BY <1>1 DEF ClearTimer
<1>3. RemoveAt(list, i) \in Seq(Users) /\ Len(RemoveAt(list, i)) = Len(list) - 1
  BY Removed
<1>4. Len(list) \in Nat /\ MaxListed \in Nat
  BY BoundsAssumption
<1>5. list' \in Seq(Users) /\ Len(list') <= MaxListed
  BY <1>3, <1>4 DEF ClearTimer
<1>6. QED
  BY <1>2, <1>5 DEF ClearTimer

LEMMA CallKeepsTypes ==
  ASSUME PipeInv, QueueSteps \/ QueueReturns
  PROVE  ThumbTypeOK'
<1> USE DEF PipeInv, ThumbTypeOK
<1>1. CASE QueueSteps
  BY <1>1 DEF QueueSteps, tileVars
<1>2. CASE QueueReturns
  <2>1. call.slot \in Slots /\ call.user \in Users /\ Len(list) < MaxListed
    BY <1>2 DEF QueueReturns, QueuePost, IInv, CallShape, CallIsOwn
  <2>2. Append(list, call.user) \in Seq(Users) /\ Len(Append(list, call.user)) = Len(list) + 1
    BY <2>1, Appended
  <2>3. Len(list) \in Nat /\ MaxListed \in Nat
    BY BoundsAssumption
  <2>4. list' \in Seq(Users) /\ Len(list') <= MaxListed
    BY <1>2, <2>1, <2>2, <2>3 DEF QueueReturns
  <2>5. QED
    BY <1>2, <2>1, <2>4 DEF QueueReturns
<1>3. QED
  BY <1>1, <1>2

LEMMA CallbackKeepsTypes ==
  ASSUME PipeInv, Callback
  PROVE  ThumbTypeOK'
<1> USE DEF PipeInv, ThumbTypeOK
<1>1. CASE CallbackAborted \/ CallbackFaults
  BY <1>1 DEF CallbackAborted, CallbackFaults
<1>2. CASE CallbackRepeated \/ CallbackFits \/ CallbackEvicts
  <2>1. dpc = "deliver"
    BY <1>2 DEF CallbackRepeated, CallbackFits, CallbackEvicts
  <2>2. cur # Null
    BY <2>1 DEF IInv, DecoderShape
  <2>3. user[cur] \in Users
    BY <2>2, DeliveredTile
  <2>4. cache' \in Seq(Users)
    <3>1. CASE CallbackRepeated
      BY <2>3, <3>1, TouchReorders DEF CallbackRepeated
    <3>2. CASE CallbackFits
      BY <2>3, <3>2, Appended DEF CallbackFits
    <3>3. CASE CallbackEvicts
      <4>1. Tail(cache) \in Seq(Users)
        BY <3>3, EvictionIsDelivery, HeadTailProperties
      <4>2. QED
        BY <2>3, <3>3, <4>1, Appended DEF CallbackEvicts
    <3>4. QED
      BY <1>2, <3>1, <3>2, <3>3
  <2>5. mem' \in [Users -> BOOLEAN] /\ canvas' \in [Users -> BOOLEAN]
    <3>1. TRUE \in BOOLEAN /\ FALSE \in BOOLEAN
      OBVIOUS
    <3>2. QED
      BY <1>2, <3>1, FunctionUpdated DEF CallbackRepeated, CallbackFits, CallbackEvicts
  <2>6. handle' \in [Users -> Slots \cup {Null}]
    BY <1>2 DEF CallbackRepeated, CallbackFits, CallbackEvicts
  <2>7. QED
    BY <1>2, <2>4, <2>5, <2>6 DEF CallbackRepeated, CallbackFits, CallbackEvicts
<1>3. QED
  BY <1>1, <1>2 DEF Callback

(***************************************************************************)
(* The steps keep the invariant.                                           *)
(***************************************************************************)

(* Only the tile's looks change, or the order of the cache.                *)
LEMMA QuietKeepsPipe ==
  ASSUME PipeInv, IInv', ThumbTypeOK', UNCHANGED << vars, handle, mem, list >>,
         cache' = cache \/ \E t \in Users : cache' = Touched(t)
  PROVE  PipeInv'
<1>1. JobsHaveTiles' /\ CallIsOwn' /\ WaitersAreListed' /\ EndedJobs'
  BY DEF PipeInv, JobsHaveTiles, CallIsOwn, WaitersAreListed, EndedJobs, Runs, vars
<1>2. CacheAccounts'
  <2>1. CASE cache' = cache
    BY <2>1 DEF PipeInv, CacheAccounts
  <2>2. ASSUME NEW t \in Users, cache' = Touched(t) PROVE CacheAccounts'
    BY <2>2, TouchReorders DEF PipeInv, CacheAccounts
  <2>3. QED
    BY <2>1, <2>2
<1>3. QED
  BY <1>1, <1>2 DEF PipeInv

LEMMA AllocKeepsPipe ==
  ASSUME PipeInv, IInv', ThumbTypeOK', NEW t \in Users, Wanted(t), Len(list) < MaxListed,
         QueueAlloc(t), UNCHANGED << handle, mem, list, cache >>
  PROVE  PipeInv'
<1> USE DEF PipeInv, QueueAlloc, decoderVars
<1>1. JobsHaveTiles' /\ WaitersAreListed' /\ EndedJobs' /\ CacheAccounts'
  BY DEF JobsHaveTiles, WaitersAreListed, EndedJobs, CacheAccounts
<1>2. CallIsOwn'
  BY DEF CallIsOwn, Wanted
<1>3. QED
  BY <1>1, <1>2

LEMMA UiKeepsPipe ==
  ASSUME PipeInv, IInv', ThumbTypeOK', NEW t \in Users,
         AddTile(t) \/ Scroll(t) \/ Draw(t) \/ Preload(t)
  PROVE  PipeInv'
<1>1. \/ UNCHANGED vars /\ (cache' = cache \/ cache' = Touched(t))
      \/ Wanted(t) /\ Len(list) < MaxListed /\ QueueAlloc(t) /\ UNCHANGED cache
  BY DEF AddTile, Scroll, Draw, Preload, UpdateThumbnail
<1>2. UNCHANGED << handle, mem, list >>
  BY DEF AddTile, Scroll, Draw, Preload
<1>3. QED
  BY <1>1, <1>2, QuietKeepsPipe, AllocKeepsPipe

(* A tile that is deleted waits for nothing any more.                      *)
LEMMA DeleteKeepsPipe ==
  ASSUME PipeInv, IInv', ThumbTypeOK', NEW t \in Users, DeleteTile(t)
  PROVE  PipeInv'
<1> USE DEF PipeInv, DeleteTile, vars, UiTurn
<1>1. JobsHaveTiles' /\ CallIsOwn' /\ CacheAccounts'
  BY DEF JobsHaveTiles, CallIsOwn, CacheAccounts, Idle
<1>2. WaitersAreListed' /\ EndedJobs'
  BY NullAssumption DEF WaitersAreListed, EndedJobs, ThumbTypeOK
<1>3. QED
  BY <1>1, <1>2

LEMMA QueueKeepsPipe ==
  ASSUME PipeInv, IInv', ThumbTypeOK', QueueSteps
  PROVE  PipeInv'
<1> USE DEF PipeInv, QueueSteps, tileVars, decoderVars
<1>1. CacheAccounts'
  BY DEF CacheAccounts
<1>2. call.pc \in {"fill", "link"} /\ call.slot \in Slots /\ call.user \in Users
  BY DEF QueueFill, QueueLink, IInv, CallShape
<1>3. CASE QueueFill
  <2>1. call.slot # cur
    BY <1>2 DEF IInv, SlotHasOneRole
  <2>2. state[call.slot] = "free"
    BY <1>3 DEF QueueFill, IInv, CallShape
  <2>3. /\ \A s \in Slots : s # call.slot => state'[s] = state[s] /\ user'[s] = user[s]
        /\ state'[call.slot] = "queued" /\ user'[call.slot] = call.user
    BY <1>2, <1>3 DEF QueueFill, IInv, TypeOK
  <2>4. call'.pc = "link" /\ call'.slot = call.slot /\ call'.user = call.user
    BY <1>3 DEF QueueFill, IInv, TypeOK
  <2>5. JobsHaveTiles'
    BY <1>2, <2>3 DEF JobsHaveTiles
  <2>6. CallIsOwn'
    BY <1>2, <1>3, <2>1, <2>3, <2>4 DEF CallIsOwn, Runs, QueueFill
  <2>7. WaitersAreListed' /\ EndedJobs'
    <3>1. WaitersAreListed'
      BY <1>3 DEF WaitersAreListed, QueueFill
    <3>2. EndedJobs'
      BY <1>3, <2>1, <2>3 DEF EndedJobs, QueueFill, IInv, TypeOK
    <3>3. QED
      BY <3>1, <3>2
  <2>8. QED
    BY <1>1, <2>5, <2>6, <2>7
<1>4. CASE QueueLink
  <2>1. call'.pc = "post" /\ call'.slot = call.slot /\ call'.user = call.user
    BY <1>4 DEF QueueLink, IInv, TypeOK
  <2>2. JobsHaveTiles' /\ WaitersAreListed' /\ EndedJobs'
    BY <1>4 DEF JobsHaveTiles, WaitersAreListed, EndedJobs, QueueLink
  <2>3. CallIsOwn'
    BY <1>4, <2>1 DEF CallIsOwn, Runs, QueueLink
  <2>4. QED
    BY <1>1, <2>2, <2>3
<1>5. QED
  BY <1>3, <1>4

LEMMA ReturnKeepsPipe ==
  ASSUME PipeInv, IInv', ThumbTypeOK', QueueReturns
  PROVE  PipeInv'
<1> USE DEF PipeInv, QueueReturns, QueuePost, decoderVars
<1>1. JobsHaveTiles' /\ CacheAccounts'
  BY DEF JobsHaveTiles, CacheAccounts
<1>2. CallIsOwn'
  BY DEF CallIsOwn, Idle
<1>3. /\ call.user \in Users /\ ~mem[call.user]
      /\ call.user \in BadFiles \/ Runs(call.slot, call.user)
  BY DEF IInv, CallShape, CallIsOwn
<1>4. \A y : Contains(list', y) <=> Contains(list, y) \/ y = call.user
  BY <1>3, Appended DEF ThumbTypeOK
<1>5. \A t \in Users : handle'[t] = IF t = call.user THEN call.slot ELSE handle[t]
  BY <1>3 DEF ThumbTypeOK
<1>6. WaitersAreListed'
  BY <1>3, <1>4, <1>5 DEF WaitersAreListed
<1>7. EndedJobs'
  <2> SUFFICES ASSUME dpc = "release", cur # Null, state[cur] = "queued",
                      handle'[user[cur]] = cur
               PROVE  user[cur] \in BadFiles
    BY DEF EndedJobs
  <2>1. user[cur] \in Users
    BY DEF IInv, DecoderShape, TypeOK, JobsHaveTiles
  <2>2. CASE user[cur] = call.user
    BY <1>3, <1>5, <2>1, <2>2 DEF Runs
  <2>3. CASE user[cur] # call.user
    BY <1>5, <2>1, <2>3 DEF EndedJobs
  <2>4. QED
    BY <2>2, <2>3
<1>8. QED
  BY <1>1, <1>2, <1>6, <1>7

(* The timer aborts the job of a tile as it forgets the handle.            *)
LEMMA TimerKeepsPipe ==
  ASSUME PipeInv, IInv', ThumbTypeOK', NEW i \in 1..Len(list), ClearTimer(i)
  PROVE  PipeInv'
<1> DEFINE t == list[i]
<1>0. t \in Users
  BY ElementOfSeq DEF PipeInv, ThumbTypeOK
<1>1. CASE life[t] = "deleted"
  BY <1>1, QuietKeepsPipe DEF ClearTimer
<1>2. CASE life[t] # "deleted"
  <2> USE DEF PipeInv
  <2>1. UNCHANGED << user, call, cur, dpc, mem, cache >> /\ call = Idle
    BY <1>2 DEF ClearTimer, Abort, vars, decoderVars, UiTurn
  <2>2. \A s \in Slots : state'[s] # state[s] =>
          state[s] = "queued" /\ s = handle[t] /\ ScrolledAway(t)
    BY <1>2 DEF ClearTimer, Abort, Aborted, vars, IInv, TypeOK
  <2>3. /\ \A u \in Users : u # t => handle'[u] = handle[u]
        /\ handle'[t] = IF ScrolledAway(t) THEN Null ELSE handle[t]
    BY <1>0, <1>2 DEF ClearTimer, ThumbTypeOK
  <2>4. ASSUME NEW u \in Users, handle'[u] # Null, Contains(list, u)
        PROVE  Contains(list', u)
    <3>1. CASE list' = list
      BY <2>4, <3>1
    <3>2. CASE list' # list
      <4>1. handle'[t] = Null /\ list' = RemoveAt(list, i)
        BY <1>2, <2>3, <3>2 DEF ClearTimer
      <4>2. u # t
        BY <2>4, <4>1
      <4>3. QED
        BY <2>4, <4>1, <4>2, Removed DEF ThumbTypeOK
    <3>3. QED
      BY <3>1, <3>2
  <2> HIDE DEF t
  <2>5. JobsHaveTiles'
    BY <2>1, <2>2 DEF JobsHaveTiles
  <2>6. CallIsOwn' /\ CacheAccounts'
    BY <2>1 DEF CallIsOwn, CacheAccounts, Idle
  <2>7. WaitersAreListed'
    BY <1>0, <2>1, <2>3, <2>4 DEF WaitersAreListed
  <2>8. EndedJobs'
    <3> SUFFICES ASSUME dpc = "release", cur # Null, state'[cur] = "queued",
                        handle'[user[cur]] = cur
                 PROVE  user[cur] \in BadFiles
      BY <2>1 DEF EndedJobs
    <3>1. cur \in Slots /\ user[cur] \in Users
      BY DEF IInv, DecoderShape, TypeOK, JobsHaveTiles
    <3>2. handle[user[cur]] = cur
      BY <2>3, <3>1
    <3>3. state[cur] = "queued"
      BY <2>2, <3>1
    <3>4. QED
      BY <3>2, <3>3 DEF EndedJobs
  <2>9. QED
    BY <2>5, <2>6, <2>7, <2>8
<1>3. QED
  BY <1>1, <1>2

LEMMA CallbackKeepsPipe ==
  ASSUME PipeInv, IInv', ThumbTypeOK', Callback
  PROVE  PipeInv'
<1>1. CASE CallbackFaults
  BY <1>1, QuietKeepsPipe DEF CallbackFaults
<1>2. CASE ~CallbackFaults
  <2> DEFINE t == user[cur]
  <2>1. /\ Deliver /\ call = Idle
        /\ \/ CallbackAborted \/ CallbackRepeated \/ CallbackFits \/ CallbackEvicts
    BY <1>2, EvictionIsDelivery
       DEF Callback, CallbackAborted, CallbackRepeated, CallbackFits, CallbackEvicts, UiTurn
  <2>2. cur \in Slots /\ t \in Users
    BY <2>1, DeliveredTile DEF Deliver, PipeInv, IInv, DecoderShape
  <2>3. UNCHANGED << state, user, call, cur, list >> /\ dpc' = "release"
    BY <2>1 DEF Deliver, queueVars, CallbackAborted, CallbackRepeated, CallbackFits, CallbackEvicts
  <2>4. JobsHaveTiles'
    BY <2>3 DEF PipeInv, JobsHaveTiles
  <2>5. CallIsOwn'
    BY <2>1, <2>3 DEF Idle, CallIsOwn
  <2>6. \A u \in Users : handle'[u] = IF u = t THEN Null ELSE handle[u]
    BY <2>1, <2>2, EvictionIsDelivery
       DEF PipeInv, ThumbTypeOK, CallbackAborted, CallbackRepeated, CallbackFits, CallbackEvicts
  <2>7. \A u \in Users : u # t /\ mem'[u] => mem[u]
    BY <2>1, <2>2, EvictionIsDelivery
       DEF PipeInv, ThumbTypeOK, CallbackAborted, CallbackRepeated, CallbackFits, CallbackEvicts
  <2>8. WaitersAreListed' /\ EndedJobs'
    <3>1. WaitersAreListed'
      BY <2>3, <2>6, <2>7 DEF PipeInv, WaitersAreListed
    <3>2. EndedJobs'
      BY <2>2, <2>3, <2>6, NullAssumption DEF EndedJobs
    <3>3. QED
      BY <3>1, <3>2
  <2>9. CacheAccounts'
    <3> USE DEF PipeInv, ThumbTypeOK
    <3>1. CASE CallbackAborted
      BY <3>1 DEF CallbackAborted, CacheAccounts
    <3>2. CASE CallbackRepeated
      <4>1. \A u \in Users : mem'[u] => mem[u]
        BY <3>2, <2>2 DEF CallbackRepeated
      <4>2. /\ Len(cache') = Len(cache) /\ IsInjective(cache')
            /\ \A y : Contains(cache, y) => Contains(cache', y)
        BY <2>2, <3>2, TouchReorders DEF CallbackRepeated
      <4>3. QED
        BY <4>1, <4>2 DEF CacheAccounts
    <3>3. CASE CallbackFits
      <4>1. /\ Len(cache') = Len(cache) + 1 /\ IsInjective(cache')
            /\ \A y : Contains(cache', y) <=> Contains(cache, y) \/ y = t
        BY <2>2, <3>3, Appended DEF CallbackFits, CacheAccounts
      <4>2. Len(cache') <= CacheSize
        BY <3>3, <4>1, CacheSizeAssumption DEF CallbackFits
      <4>3. QED
        BY <2>7, <4>1, <4>2 DEF CacheAccounts
    <3>4. CASE CallbackEvicts
      <4> DEFINE v == Head(cache)  r == RemoveAt(cache, 1)
      <4>1. Tail(cache) = r /\ 1 \in 1..Len(cache) /\ v = cache[1]
        BY <3>4, EvictionIsDelivery, TailRemoves
      <4>2. /\ r \in Seq(Users) /\ Len(r) = Len(cache) - 1 /\ IsInjective(r)
            /\ \A y : Contains(r, y) => Contains(cache, y)
            /\ \A y : y # v /\ Contains(cache, y) => Contains(r, y)
        BY <4>1, Removed DEF CacheAccounts
      <4>3. ~Contains(cache, t) /\ cache' = Append(r, t) /\ Len(cache) = CacheSize
        BY <3>4, <4>1 DEF CallbackEvicts
      <4>4. v \in Users /\ ~mem'[v]
        <5>1. Contains(cache, v)
          BY <4>1 DEF Contains
        <5>2. v # t
          BY <4>3, <5>1
        <5>3. v \in Users
          BY <3>4, EvictionIsDelivery
        <5>4. QED
          BY <2>2, <3>4, <5>2, <5>3 DEF CallbackEvicts
      <4> HIDE DEF v, r, t
      <4>5. /\ Len(cache') = Len(r) + 1 /\ IsInjective(cache')
            /\ \A y : Contains(cache', y) <=> Contains(r, y) \/ y = t
        BY <2>2, <4>2, <4>3, Appended
      <4>6. Len(cache') <= CacheSize
        BY <4>2, <4>3, <4>5, CacheSizeAssumption
      <4>7. ASSUME NEW u \in Users, mem'[u] PROVE Contains(cache', u)
        BY <2>7, <4>2, <4>4, <4>5, <4>7 DEF CacheAccounts
      <4>8. QED
        BY <4>5, <4>6, <4>7 DEF CacheAccounts
    <3>5. QED
      BY <2>1, <3>1, <3>2, <3>3, <3>4
  <2>10. QED
    BY <2>4, <2>5, <2>8, <2>9 DEF PipeInv
<1>3. QED
  BY <1>1, <1>2

(* A job leaves the decoder's hands without a callback only when it was    *)
(* aborted or its file is unreadable.                                      *)
LEMMA DecoderKeepsPipe ==
  ASSUME PipeInv, IInv', ThumbTypeOK', DecoderSteps
  PROVE  PipeInv'
<1> USE DEF PipeInv
<1>1. UNCHANGED << user, call, handle, mem, list, cache >>
  BY DEF DecoderSteps, SemWait, Pop, DropAborted, StartDecode, DecodeSeesAbort, Release,
         DecodeDone, OpenFails, DecodeFails, queueVars, tileVars
<1>2. \A s \in Slots : state'[s] # state[s] => s = cur /\ dpc = "release" /\ state'[s] = "free"
  BY DEF DecoderSteps, SemWait, Pop, DropAborted, StartDecode, DecodeSeesAbort, Release,
         DecodeDone, OpenFails, DecodeFails, queueVars, IInv, TypeOK
<1>3. ASSUME NEW s \in Slots, s = cur', dpc' = "release"
      PROVE  /\ s = cur /\ state'[s] = state[s]
             /\ state[s] = "aborted" \/ user[s] \in BadFiles
  BY <1>3, NullAssumption
     DEF DecoderSteps, SemWait, Pop, DropAborted, StartDecode, DecodeSeesAbort, Release,
         DecodeDone, OpenFails, DecodeFails, queueVars
<1>4. \A s, t : t \notin BadFiles /\ Runs(s, t) => Runs(s, t)'
  BY <1>1, <1>2, <1>3 DEF Runs
<1>5. JobsHaveTiles'
  BY <1>1, <1>2 DEF JobsHaveTiles
<1>6. CallIsOwn' /\ CacheAccounts'
  BY <1>1, <1>4 DEF CallIsOwn, CacheAccounts
<1>7. WaitersAreListed'
  BY <1>1 DEF WaitersAreListed
<1>8. EndedJobs'
  <2> SUFFICES ASSUME dpc' = "release", cur' # Null, state'[cur'] = "queued"
               PROVE  user[cur'] \in BadFiles
    BY <1>1 DEF EndedJobs
  <2>1. cur' \in Slots
    BY DEF IInv, DecoderShape, TypeOK
  <2>2. QED
    BY <1>3, <2>1
<1>9. QED
  BY <1>5, <1>6, <1>7, <1>8

LEMMA StepsKeepPipe == PipeInv /\ [ThumbNext]_thumbVars => PipeInv'
<1> SUFFICES ASSUME PipeInv, [ThumbNext]_thumbVars PROVE PipeInv'
  OBVIOUS
<1>1. IInv'
  BY StepsAreDecoders, StepKeepsIInv DEF PipeInv
<1>2. CASE UNCHANGED thumbVars
  <2>1. UNCHANGED << vars, handle, mem, list, cache >> /\ UNCHANGED tileVars
    BY <1>2 DEF thumbVars, tileVars
  <2>2. ThumbTypeOK'
    BY <2>1 DEF PipeInv, ThumbTypeOK, tileVars
  <2>3. QED
    BY <1>1, <2>1, <2>2, QuietKeepsPipe
<1>3. CASE \E t \in Users : AddTile(t) \/ Scroll(t) \/ Draw(t) \/ Preload(t) \/ DeleteTile(t)
  BY <1>1, <1>3, UiKeepsTypes, UiKeepsPipe, DeleteKeepsPipe
<1>4. CASE \E i \in 1..Len(list) : ClearTimer(i)
  BY <1>1, <1>4, TimerKeepsTypes, TimerKeepsPipe
<1>5. CASE QueueSteps \/ QueueReturns
  BY <1>1, <1>5, CallKeepsTypes, QueueKeepsPipe, ReturnKeepsPipe
<1>6. CASE Callback
  BY <1>1, <1>6, CallbackKeepsTypes, CallbackKeepsPipe
<1>7. CASE DecoderSteps
  <2>1. ThumbTypeOK'
    BY <1>7 DEF DecoderSteps, tileVars, PipeInv, ThumbTypeOK
  <2>2. QED
    BY <1>1, <1>7, <2>1, DecoderKeepsPipe
<1>8. QED
  BY <1>2, <1>3, <1>4, <1>5, <1>6, <1>7 DEF ThumbNext, Halted

(***************************************************************************)
(* Theorems, whichever files can be read.                                  *)
(***************************************************************************)

(* The inductive invariant of tiles, handles, list and cache.              *)
THEOREM PipeInvariant == ThumbSpec => []PipeInv
  BY PipeBegins, StepsKeepPipe, PTL DEF ThumbSpec

(* A tile that waits is listed; every image is charged to the cache, whose *)
(* limit holds (dash_scroller.c:487, 505).                                 *)
THEOREM ThumbnailsAreKept == ThumbSpec => []ThumbInv
<1>1. PipeInv => ThumbInv
  BY DEF PipeInv, WaitersAreListed, CacheAccounts, ThumbInv, PendingIsListed,
         ImagesAreCharged, Alive
<1>2. QED
  BY <1>1, PipeInvariant, PTL

(* No tile has both an image and a job (dash_scroller.c:500).              *)
THEOREM TilesWaitOrShow == ThumbSpec => []PendingOrLoaded
<1>1. PipeInv => PendingOrLoaded
  BY DEF PipeInv, WaitersAreListed, PendingOrLoaded, Alive
<1>2. QED
  BY <1>1, PipeInvariant, PTL

(* What ends a job's life as a waiting one: its release or an abort, which *)
(* is by the timer, of what the tile it visits waits for.                  *)
LEMMA AbortsAreTimed ==
  ASSUME PipeInv, NoneStale, [ThumbNext]_thumbVars, NEW s \in Slots,
         state[s] = "queued", state'[s] = "aborted"
  PROVE  handle[user[s]] = s /\ handle'[user[s]] = Null /\ ~pinned[user[s]]
<1>1. CASE \E i \in 1..Len(list) : ClearTimer(i)
  <2>1. PICK i \in 1..Len(list) : ClearTimer(i)
    BY <1>1
  <2> DEFINE t == list[i]
  <2>2. t \in Users
    BY ElementOfSeq DEF PipeInv, ThumbTypeOK
  <2>3. s = handle[t] /\ ScrolledAway(t) /\ life[t] # "deleted"
    BY <2>1 DEF ClearTimer, Abort, Aborted, vars, PipeInv, IInv, TypeOK
  <2>4. user[s] = t
    BY <2>2, <2>3, NullAssumption DEF NoneStale, Stale
  <2>5. QED
    BY <2>1, <2>2, <2>3, <2>4 DEF ClearTimer, ScrolledAway, PipeInv, ThumbTypeOK
<1>2. CASE Callback
  <2>1. Deliver \/ UNCHANGED vars
    BY <1>2, EvictionIsDelivery
       DEF Callback, CallbackAborted, CallbackRepeated, CallbackFits, CallbackFaults
  <2>2. QED
    BY <2>1 DEF Deliver, queueVars, vars
<1>3. CASE QueueSteps \/ QueueReturns
  BY <1>3 DEF QueueSteps, QueueReturns, QueueFill, QueueLink, QueuePost, PipeInv, IInv, TypeOK
<1>4. CASE DecoderSteps
  BY <1>4 DEF DecoderSteps, SemWait, Pop, DropAborted, StartDecode, DecodeSeesAbort, Release,
              DecodeDone, OpenFails, DecodeFails, queueVars, PipeInv, IInv, TypeOK
<1>5. CASE \E t \in Users : Draw(t) \/ Preload(t)
  BY <1>5 DEF Draw, Preload, UpdateThumbnail, QueueAlloc, vars
<1>6. CASE UNCHANGED vars
  BY <1>6 DEF vars
<1>7. QED
  BY <1>1, <1>2, <1>3, <1>4, <1>5, <1>6
     DEF ThumbNext, AddTile, Scroll, DeleteTile, Halted, thumbVars

(* A tile whose handle is taken back, or whose job did not change, is not  *)
(* stale after the step.                                                   *)
LEMMA StaysFresh ==
  ASSUME NoneStale, NEW t \in Users, handle'[t] = handle[t],
         handle[t] # Null => state'[handle[t]] = state[handle[t]]
                             /\ user'[handle[t]] = user[handle[t]]
  PROVE  ~Stale(t)'
  BY DEF NoneStale, Stale

LEMMA StaleIsUnreadable ==
  ASSUME PipeInv, NoneStale, [ThumbNext]_thumbVars, NEW t \in Users, Stale(t)'
  PROVE  t \in BadFiles
<1>0. /\ handle[t] # Null => handle[t] \in Slots /\ state[handle[t]] = "queued"
                             /\ user[handle[t]] = t
      /\ handle[t] \in Slots \cup {Null}
  BY DEF PipeInv, ThumbTypeOK, NoneStale, Stale
<1>1. CASE \E i \in 1..Len(list) : ClearTimer(i)
  <2>1. PICK i \in 1..Len(list) : ClearTimer(i)
    BY <1>1
  <2> DEFINE u == list[i]
  <2>2. u \in Users
    BY ElementOfSeq DEF PipeInv, ThumbTypeOK
  <2>3. user' = user /\ handle'[t] # Null
    BY <2>1 DEF ClearTimer, Abort, vars, decoderVars, Stale
  <2>4. handle'[t] = handle[t]
    BY <2>1, <2>2, <2>3 DEF ClearTimer, PipeInv, ThumbTypeOK
  <2>5. \A s \in Slots : state'[s] # state[s] => s = handle[u] /\ handle'[u] = Null
    BY <2>1, <2>2 DEF ClearTimer, Abort, Aborted, vars, PipeInv, ThumbTypeOK, IInv, TypeOK
  <2>6. u # t => user[handle[u]] = u \/ handle[u] = Null
    BY <2>2 DEF NoneStale, Stale
  <2> HIDE DEF u
  <2>7. state'[handle[t]] = state[handle[t]]
    BY <1>0, <2>3, <2>4, <2>5, <2>6, NullAssumption
  <2>8. QED
    BY <2>3, <2>4, <2>7, StaysFresh
<1>2. CASE Callback
  <2>1. (Deliver \/ UNCHANGED vars) /\ handle'[t] \in {handle[t], Null}
    BY <1>2, EvictionIsDelivery
       DEF Callback, CallbackAborted, CallbackRepeated, CallbackFits, CallbackFaults,
           CallbackEvicts, PipeInv, ThumbTypeOK
  <2>2. state' = state /\ user' = user
    BY <2>1 DEF Deliver, queueVars, vars
  <2>3. QED
    BY <2>1, <2>2, StaysFresh DEF Stale
<1>3. CASE QueueReturns
  <2>1. call.user \in Users /\ call.pc = "post" /\ state' = state /\ user' = user
    BY <1>3 DEF QueueReturns, QueuePost, PipeInv, IInv, CallShape
  <2>2. handle'[t] = IF t = call.user THEN call.slot ELSE handle[t]
    BY <1>3, <2>1 DEF QueueReturns, PipeInv, ThumbTypeOK
  <2>3. CASE t = call.user
    BY <2>1, <2>2, <2>3 DEF PipeInv, CallIsOwn, Runs, Stale
  <2>4. CASE t # call.user
    BY <2>1, <2>2, <2>4, StaysFresh
  <2>5. QED
    BY <2>3, <2>4
<1>4. CASE QueueSteps
  <2>1. handle' = handle
    BY <1>4 DEF QueueSteps, tileVars
  <2>2. CASE QueueFill
    <3>1. state[call.slot] = "free" /\ call.slot \in Slots
      BY <2>2 DEF QueueFill, PipeInv, IInv, CallShape
    <3>2. \A s \in Slots : s # call.slot => state'[s] = state[s] /\ user'[s] = user[s]
      BY <2>2 DEF QueueFill, PipeInv, IInv, TypeOK
    <3>3. QED
      BY <1>0, <2>1, <3>1, <3>2, StaysFresh
  <2>3. CASE QueueLink
    BY <2>1, <2>3, StaysFresh DEF QueueLink
  <2>4. QED
    BY <1>4, <2>2, <2>3 DEF QueueSteps
<1>5. CASE DecoderSteps
  <2>1. handle' = handle /\ user' = user
    BY <1>5 DEF DecoderSteps, SemWait, Pop, DropAborted, StartDecode, DecodeSeesAbort,
                Release, DecodeDone, OpenFails, DecodeFails, queueVars, tileVars
  <2>2. \A s \in Slots : state'[s] # state[s] => s = cur /\ dpc = "release" /\ cur # Null
    BY <1>5, NullAssumption
       DEF DecoderSteps, SemWait, Pop, DropAborted, StartDecode, DecodeSeesAbort, Release,
           DecodeDone, OpenFails, DecodeFails, queueVars, PipeInv, IInv, TypeOK
  <2>3. CASE handle[t] # Null /\ handle[t] = cur /\ dpc = "release"
    BY <1>0, <2>3 DEF PipeInv, EndedJobs
  <2>4. CASE ~(handle[t] # Null /\ handle[t] = cur /\ dpc = "release")
    BY <1>0, <2>1, <2>2, <2>4, StaysFresh
  <2>5. QED
    BY <2>3, <2>4
<1>6. CASE \E u \in Users : Draw(u) \/ Preload(u)
  <2>1. state' = state /\ user' = user /\ handle' = handle
    BY <1>6 DEF Draw, Preload, UpdateThumbnail, QueueAlloc, vars
  <2>2. QED
    BY <2>1, StaysFresh
<1>7. CASE \E u \in Users : DeleteTile(u)
  <2>1. state' = state /\ user' = user /\ handle'[t] \in {handle[t], Null}
    BY <1>7 DEF DeleteTile, vars, PipeInv, ThumbTypeOK
  <2>2. QED
    BY <2>1, StaysFresh DEF Stale
<1>8. CASE UNCHANGED << vars, handle >>
  <2>1. state' = state /\ user' = user /\ handle' = handle
    BY <1>8 DEF vars
  <2>2. QED
    BY <2>1, StaysFresh
<1>9. QED
  BY <1>1, <1>2, <1>3, <1>4, <1>5, <1>6, <1>7, <1>8
     DEF ThumbNext, AddTile, Scroll, Halted, thumbVars, tileVars

(* The first handle to outlive its job is of an unreadable file            *)
(* (jpg_decoder.c:106, 140).                                               *)
THEOREM UnreadableGoFirst == ThumbSpec => UnreadableGoStaleFirst
<1> DEFINE Step == NoneStale => \A t \in Users : Stale(t)' => t \in BadFiles
<1>1. PipeInv /\ [ThumbNext]_thumbVars => [Step]_thumbVars
  BY StaleIsUnreadable
<1>2. QED
  BY <1>1, PipeInvariant, PTL DEF ThumbSpec, UnreadableGoStaleFirst

(* Until a handle goes stale an abort hits the job of the tile that gives  *)
(* it up, never another's, however late the handle is used                 *)
(* (jpg_decoder.h:43).                                                     *)
THEOREM AbortsAreOwners == ThumbSpec => AbortIsOwners
<1> DEFINE Step == NoneStale =>
                     \A s \in Slots :
                       state[s] = "queued" /\ state'[s] = "aborted" =>
                         handle[user[s]] = s /\ handle'[user[s]] = Null
<1>1. PipeInv /\ [ThumbNext]_thumbVars => [Step]_thumbVars
  BY AbortsAreTimed
<1>2. QED
  BY <1>1, PipeInvariant, PTL DEF ThumbSpec, AbortIsOwners

(* Until then what was loaded ahead is never aborted                       *)
(* (dash_scroller.c:821, 1210).                                            *)
THEOREM PreloadsSurvive == ThumbSpec => PreloadSurvives
<1> DEFINE Step == NoneStale =>
                     \A s \in Slots :
                       state[s] = "queued" /\ state'[s] = "aborted" => ~pinned[user[s]]
<1>1. PipeInv /\ [ThumbNext]_thumbVars => [Step]_thumbVars
  BY AbortsAreTimed
<1>2. QED
  BY <1>1, PipeInvariant, PTL DEF ThumbSpec, PreloadSurvives

(***************************************************************************)
(* The backdrop: its inductive invariant, beside that of the decoder.      *)
(***************************************************************************)

(* Every job has a number of its own, which no canvas shows before its     *)
(* callback has shown it.                                                  *)
JobsNumbered ==
  /\ \A s \in Slots : state[s] # "free" => user[s] \in 1..seq
  /\ \A s, t \in Slots :
       state[s] # "free" /\ state[t] # "free" /\ user[s] = user[t] => s = t
  /\ \A s \in Slots, x \in Canvases :
       state[s] # "free" /\ ~(s = cur /\ dpc = "release") => shown[x] # user[s]
  /\ call.pc = "fill" =>
       /\ call.user = seq /\ seq > 0
       /\ \A s \in Slots : state[s] # "free" => user[s] # seq
       /\ \A x \in Canvases : shown[x] # seq

(* The callback is in the decoder's hands, and once it has compared the    *)
(* numbers for the last time, what is shown is older.                      *)
CallbackShape ==
  /\ cb # "off" => dpc = "deliver"
  /\ cb = "lock" => \A x \in Canvases : shown[x] < user[cur]

(* The slots take turns, and the newest image that is shown fades in.      *)
TurnsTaken ==
  /\ seq % 2 = (IF use_slot_a THEN 0 ELSE 1)
  /\ \A x \in Canvases : shown[x] <= seq
  /\ current # NoPath /\ seq > 0 /\ shown[SlotOf(seq)] = seq => faded[SlotOf(seq)] = "in"

OrderInv ==
  /\ IInv /\ BackdropTypeOK
  /\ JobsNumbered /\ CallbackShape /\ TurnsTaken

LEMMA Odd == \A n \in Nat : n % 2 \in {0, 1} /\ (n + 1) % 2 = 1 - (n % 2)
  OBVIOUS

LEMMA SlotIsCanvas == \A n : SlotOf(n) \in Canvases
  BY DEF SlotOf, Canvases

(* What the decoder's invariant says of the job in the callback.           *)
LEMMA DeliveredJob ==
  ASSUME OrderInv, dpc = "deliver"
  PROVE  /\ cur \in Slots /\ state[cur] # "free" /\ user[cur] \in 1..seq
         /\ \A x \in Canvases : shown[x] # user[cur]
<1>1. cur \in Slots /\ state[cur] # "free"
  BY DEF OrderInv, IInv, DecoderShape, TypeOK
<1>2. QED
  BY <1>1 DEF OrderInv, JobsNumbered

(***************************************************************************)
(* The initial states and the steps.                                       *)
(***************************************************************************)
LEMMA BackdropBegins == BackdropInit => OrderInv
<1> SUFFICES ASSUME BackdropInit PROVE OrderInv
  OBVIOUS
<1>1. IInv
  BY InitIInv DEF BackdropInit
<1>2. BackdropTypeOK
  BY BackdropAssumption DEF BackdropInit, BackdropTypeOK
<1>3. JobsNumbered
  BY DEF BackdropInit, Init, JobsNumbered, Idle
<1>4. CallbackShape /\ TurnsTaken
  BY DEF BackdropInit, CallbackShape, TurnsTaken
<1>5. QED
  BY <1>1, <1>2, <1>3, <1>4 DEF OrderInv

(* Whatever the backdrop does, the decoder takes one of its own steps.     *)
LEMMA BackdropStepsAreDecoders == BackdropTypeOK /\ [BackdropNext]_allVars => [Next]_vars
<1> SUFFICES ASSUME BackdropTypeOK, [BackdropNext]_allVars PROVE [Next]_vars
  OBVIOUS
<1>1. ASSUME NEW p \in Paths, Update(p) PROVE [Next]_vars
  <2>1. CASE UNCHANGED vars
    BY <2>1
  <2>2. CASE QueueAlloc(seq + 1)
    <3>1. seq + 1 \in Users
      BY <1>1, BackdropAssumption DEF Update, BackdropTypeOK
    <3>2. QED
      BY <2>2, <3>1 DEF Next, Client
  <2>3. QED
    BY <1>1, <2>1, <2>2 DEF Update
<1>2. CASE UpdateNoArt
  BY <1>2 DEF UpdateNoArt
<1>3. CASE QueueRuns
  BY <1>3 DEF QueueRuns, Next, Client
<1>4. CASE DecoderRuns
  BY <1>4 DEF DecoderRuns, Next, DecoderThread
<1>5. CASE CallbackDiscards \/ CallbackShows
  BY <1>5 DEF CallbackDiscards, CallbackShows, Next, DecoderThread
<1>6. CASE CallbackGoesOn
  BY <1>6 DEF CallbackGoesOn
<1>7. CASE UNCHANGED allVars
  BY <1>7 DEF allVars
<1>8. QED
  BY <1>1, <1>2, <1>3, <1>4, <1>5, <1>6, <1>7 DEF BackdropNext

LEMMA UpdateKeepsOrder ==
  ASSUME OrderInv, IInv', NEW p \in Paths, Update(p)
  PROVE  OrderInv'
<1>1. /\ call = Idle /\ seq < MaxSeq /\ seq' = seq + 1 /\ current' = p
      /\ faded' = [faded EXCEPT ![IF use_slot_a THEN "b" ELSE "a"] = "out"]
      /\ UNCHANGED << shown, cb, state, user, dpc, cur >>
      /\ call' = Idle \/ (call'.pc = "fill" /\ call'.user = seq')
  BY DEF Update, QueueAlloc, vars, decoderVars
<1>2. use_slot_a' = ~use_slot_a
  BY DEF Update
<1>3. seq \in Nat /\ MaxSeq \in Nat
  BY BackdropAssumption DEF OrderInv, BackdropTypeOK
<1>4. BackdropTypeOK'
  <2>1. use_slot_a' \in BOOLEAN
    BY Zenon, <1>2
  <2>2. faded' \in [Canvases -> {"in", "out"}]
    BY <1>1 DEF OrderInv, BackdropTypeOK
  <2>3. QED
    BY <1>1, <1>3, <2>1, <2>2 DEF OrderInv, BackdropTypeOK
<1>5. \A x \in Canvases : shown[x] \in Nat /\ shown[x] < seq'
  BY <1>1, <1>3 DEF OrderInv, BackdropTypeOK, TurnsTaken
<1>6. JobsNumbered'
  BY <1>1, <1>3, <1>5 DEF OrderInv, JobsNumbered, Idle
<1>7. CallbackShape'
  BY <1>1 DEF OrderInv, CallbackShape
<1>8. TurnsTaken'
  <2>1. seq' % 2 = (IF use_slot_a' THEN 0 ELSE 1)
    <3>1. CASE use_slot_a
      <4>1. ~use_slot_a' /\ seq % 2 = 0
        BY Zenon, <1>2, <3>1 DEF OrderInv, TurnsTaken
      <4>2. QED
        BY <1>1, <1>3, <4>1, Odd
    <3>2. CASE ~use_slot_a
      <4>1. use_slot_a' /\ seq % 2 = 1
        BY Zenon, <1>2, <3>2 DEF OrderInv, TurnsTaken
      <4>2. QED
        BY <1>1, <1>3, <4>1, Odd
    <3>3. QED
      BY <3>1, <3>2
  <2>2. shown'[SlotOf(seq')] # seq'
    BY <1>1, <1>5, SlotIsCanvas
  <2>3. QED
    BY <1>1, <1>5, <2>1, <2>2 DEF TurnsTaken
<1>9. QED
  BY <1>4, <1>6, <1>7, <1>8 DEF OrderInv

LEMMA NoArtKeepsOrder ==
  ASSUME OrderInv, IInv', UpdateNoArt
  PROVE  OrderInv'
  BY DEF UpdateNoArt, OrderInv, BackdropTypeOK, JobsNumbered, CallbackShape, TurnsTaken, vars,
         SlotOf, Canvases

LEMMA QueueKeepsOrder ==
  ASSUME OrderInv, IInv', QueueRuns
  PROVE  OrderInv'
<1>1. UNCHANGED << backdropVars, dpc, cur >>
  BY DEF QueueRuns, QueueStep, QueueFill, QueueLink, QueuePost, decoderVars
<1>2. JobsNumbered'
  <2>1. CASE QueueFill
    <3>1. /\ call.pc = "fill" /\ call.slot \in Slots /\ state[call.slot] = "free"
          /\ call.slot # cur /\ call.user = seq /\ seq \in 1..seq
      <4>1. call.pc = "fill" /\ call.slot \in Slots /\ state[call.slot] = "free" /\ call.slot # cur
        BY <2>1 DEF QueueFill, OrderInv, IInv, CallShape, SlotHasOneRole
      <4>2. call.user = seq
        BY <4>1 DEF OrderInv, JobsNumbered
      <4>3. seq \in 1..seq
        BY <4>1 DEF OrderInv, BackdropTypeOK, JobsNumbered
      <4>4. QED
        BY <4>1, <4>2, <4>3
    <3>2. /\ user' = [user EXCEPT ![call.slot] = call.user]
          /\ state' = [state EXCEPT ![call.slot] = "queued"]
          /\ call'.pc = "link"
      BY <2>1 DEF QueueFill, OrderInv, IInv, TypeOK
    <3>3. /\ DOMAIN user = Slots /\ DOMAIN state = Slots
      BY DEF OrderInv, IInv, TypeOK
    <3>4. \A s \in Slots : /\ user'[s] = (IF s = call.slot THEN seq ELSE user[s])
                           /\ state'[s] = (IF s = call.slot THEN "queued" ELSE state[s])
      BY <3>1, <3>2, <3>3
    <3>5. QED
      BY <1>1, <3>1, <3>2, <3>4 DEF OrderInv, JobsNumbered, backdropVars
  <2>2. CASE QueueLink \/ QueuePost
    <3>1. UNCHANGED << state, user >> /\ call'.pc # "fill"
      BY <2>2 DEF QueueLink, QueuePost, Idle, OrderInv, IInv, TypeOK
    <3>2. QED
      BY <1>1, <3>1 DEF OrderInv, JobsNumbered, backdropVars
  <2>3. QED
    BY <2>1, <2>2 DEF QueueRuns, QueueStep
<1>3. CallbackShape'
  <2>1. cb = "lock" => user'[cur] = user[cur]
    <3>1. SUFFICES ASSUME cb = "lock" PROVE user'[cur] = user[cur]
      OBVIOUS
    <3>2. dpc = "deliver"
      BY <3>1 DEF OrderInv, CallbackShape
    <3>3. cur \in Slots
      BY <3>2, DeliveredJob
    <3>4. CASE QueueFill
      BY <3>3, <3>4 DEF QueueFill, OrderInv, IInv, TypeOK, SlotHasOneRole
    <3>5. QED
      BY <3>4 DEF QueueRuns, QueueStep, QueueLink, QueuePost
  <2>2. QED
    BY <1>1, <2>1 DEF OrderInv, CallbackShape, backdropVars
<1>4. BackdropTypeOK' /\ TurnsTaken'
  BY <1>1 DEF OrderInv, BackdropTypeOK, TurnsTaken, backdropVars
<1>5. QED
  BY <1>2, <1>3, <1>4 DEF OrderInv

LEMMA DecoderKeepsOrder ==
  ASSUME OrderInv, IInv', DecoderRuns
  PROVE  OrderInv'
<1>1. UNCHANGED << backdropVars, user, call >>
  BY DEF DecoderRuns, SemWait, Pop, OpenFails, StartDecode, DecodeDone, DecodeFails, Release,
         queueVars
<1>2. dpc # "deliver"
  BY DEF DecoderRuns, SemWait, Pop, OpenFails, StartDecode, DecodeDone, DecodeFails, Release
<1>3. cb = "off"
  BY <1>2 DEF OrderInv, CallbackShape
<1>4. CallbackShape'
  BY <1>1, <1>3 DEF CallbackShape, backdropVars
<1>5. JobsNumbered'
  <2>1. CASE Release
    <3>1. cur \in Slots /\ state' = [state EXCEPT ![cur] = "free"] /\ dpc' = "wait"
      BY <2>1 DEF Release, OrderInv, IInv, DecoderShape, TypeOK
    <3>2. \A s \in Slots : state'[s] # "free" => s # cur /\ state[s] # "free"
      BY <3>1 DEF OrderInv, IInv, TypeOK
    <3>3. QED
      BY <1>1, <3>1, <3>2 DEF OrderInv, JobsNumbered, backdropVars
  <2>2. CASE SemWait \/ Pop \/ OpenFails \/ StartDecode \/ DecodeDone \/ DecodeFails
    <3>1. UNCHANGED state /\ dpc # "release"
      BY <2>2 DEF SemWait, Pop, OpenFails, StartDecode, DecodeDone, DecodeFails, queueVars
    <3>2. QED
      BY <1>1, <3>1 DEF OrderInv, JobsNumbered, backdropVars
  <2>3. QED
    BY <2>1, <2>2 DEF DecoderRuns
<1>6. BackdropTypeOK' /\ TurnsTaken'
  BY <1>1 DEF OrderInv, BackdropTypeOK, TurnsTaken, backdropVars
<1>7. QED
  BY <1>4, <1>5, <1>6 DEF OrderInv

LEMMA CallbackKeepsOrder ==
  ASSUME OrderInv, IInv', CallbackDiscards \/ CallbackGoesOn
  PROVE  OrderInv'
<1>1. /\ dpc = "deliver" /\ dpc' \in {"deliver", "release"}
      /\ UNCHANGED << seq, use_slot_a, current, shown, faded, state, user, call, cur >>
      /\ cb' \in {"off", "blur", "recheck", "lock"}
  BY DEF CallbackDiscards, CallbackGoesOn, Deliver, queueVars, vars
<1>2. JobsNumbered'
  BY <1>1 DEF OrderInv, JobsNumbered
<1>3. CallbackShape'
  <2>1. CASE CallbackDiscards
    BY <2>1 DEF CallbackDiscards, CallbackShape
  <2>2. CASE CallbackGoesOn
    <3>1. dpc' = "deliver"
      BY <1>1, <2>2 DEF CallbackGoesOn, vars
    <3>2. ASSUME cb' = "lock" PROVE \A x \in Canvases : shown[x] < user[cur]
      <4>1. user[cur] = seq
        BY <2>2, <3>2 DEF CallbackGoesOn
      <4>2. \A x \in Canvases : shown[x] # user[cur] /\ shown[x] <= seq /\ shown[x] \in Nat
        BY <1>1, DeliveredJob DEF OrderInv, TurnsTaken, BackdropTypeOK
      <4>3. QED
        BY <4>1, <4>2 DEF OrderInv, BackdropTypeOK
    <3>3. QED
      BY <1>1, <3>1, <3>2 DEF CallbackShape
  <2>3. QED
    BY <2>1, <2>2
<1>4. BackdropTypeOK' /\ TurnsTaken'
  BY <1>1 DEF OrderInv, BackdropTypeOK, TurnsTaken
<1>5. QED
  BY <1>2, <1>3, <1>4 DEF OrderInv

(* What is shown is newer than what is on either canvas.                   *)
LEMMA ShownIsNewer ==
  ASSUME OrderInv, CallbackShows
  PROVE  /\ dpc = "deliver" /\ user[cur] \in 1..seq
         /\ shown' = [shown EXCEPT ![SlotOf(user[cur])] = user[cur]]
         /\ \A x \in Canvases : shown[x] < user[cur]
  BY DeliveredJob DEF CallbackShows, OrderInv, CallbackShape

LEMMA ShowsKeepsOrder ==
  ASSUME OrderInv, IInv', CallbackShows
  PROVE  OrderInv'
<1> DEFINE n == user[cur]  z == SlotOf(n)
<1>1. /\ dpc = "deliver" /\ dpc' = "release" /\ cb' = "off" /\ call.pc # "fill"
      /\ UNCHANGED << seq, use_slot_a, current, state, user, call, cur >>
      /\ shown' = [shown EXCEPT ![z] = n] /\ faded' = [faded EXCEPT ![z] = "in"]
  BY ShownIsNewer DEF CallbackShows, Deliver, queueVars, Idle
<1>2. /\ cur \in Slots /\ state[cur] # "free" /\ n \in 1..seq /\ seq \in 0..MaxSeq
      /\ \A x \in Canvases : shown[x] < n /\ shown[x] # n
      /\ z \in Canvases
  BY <1>1, DeliveredJob, ShownIsNewer, SlotIsCanvas DEF OrderInv, BackdropTypeOK
<1>3. \A x \in Canvases : shown'[x] = (IF x = z THEN n ELSE shown[x])
                          /\ faded'[x] = (IF x = z THEN "in" ELSE faded[x])
  BY <1>1, <1>2 DEF OrderInv, BackdropTypeOK
<1>4. BackdropTypeOK'
  <2>1. n \in 0..MaxSeq
    BY <1>2, BackdropAssumption
  <2>2. shown' \in [Canvases -> 0..MaxSeq] /\ faded' \in [Canvases -> {"in", "out"}]
    BY <1>1, <2>1 DEF OrderInv, BackdropTypeOK
  <2>3. QED
    BY <1>1, <2>2 DEF OrderInv, BackdropTypeOK
<1>5. JobsNumbered'
  <2>1. \A s \in Slots : state[s] # "free" /\ s # cur => user[s] # n
    BY <1>2 DEF OrderInv, JobsNumbered
  <2> HIDE DEF n, z
  <2>2. QED
    BY <1>1, <1>2, <1>3, <2>1 DEF OrderInv, JobsNumbered
<1>6. CallbackShape'
  BY <1>1 DEF CallbackShape
<1>7. TurnsTaken'
  <2>1. SlotOf(seq) \in Canvases
    BY SlotIsCanvas
  <2>2. shown'[SlotOf(seq)] = seq /\ current # NoPath /\ seq > 0 => faded'[SlotOf(seq)] = "in"
    <3> HIDE DEF n, z
    <3> QED
      BY <1>3, <2>1 DEF OrderInv, TurnsTaken
  <2>3. \A x \in Canvases : shown'[x] <= seq
    <3> HIDE DEF n, z
    <3> QED
      BY <1>2, <1>3 DEF OrderInv, TurnsTaken
  <2>4. QED
    BY <1>1, <2>2, <2>3 DEF OrderInv, TurnsTaken, SlotOf
<1>8. QED
  BY <1>4, <1>5, <1>6, <1>7 DEF OrderInv

LEMMA StepsKeepOrder == OrderInv /\ [BackdropNext]_allVars => OrderInv'
<1> SUFFICES ASSUME OrderInv, [BackdropNext]_allVars PROVE OrderInv'
  OBVIOUS
<1>1. IInv'
  BY BackdropStepsAreDecoders, StepKeepsIInv DEF OrderInv
<1>2. CASE UNCHANGED allVars
  BY <1>1, <1>2 DEF OrderInv, BackdropTypeOK, JobsNumbered, CallbackShape, TurnsTaken,
                    allVars, vars, backdropVars
<1>3. QED
  BY <1>1, <1>2, UpdateKeepsOrder, NoArtKeepsOrder, QueueKeepsOrder, DecoderKeepsOrder,
     CallbackKeepsOrder, ShowsKeepsOrder DEF BackdropNext

(* The values, and that the canvas of the newest image fades in and is the *)
(* one that the next request will fade out.                                *)
LEMMA OrderIsSafe == OrderInv => BackdropInv
<1> SUFFICES ASSUME OrderInv PROVE BackdropInv
  OBVIOUS
<1>1. SlotOf(seq) = (IF use_slot_a THEN "b" ELSE "a")
  BY DEF OrderInv, TurnsTaken, SlotOf
<1>2. QED
  BY <1>1 DEF OrderInv, TurnsTaken, BackdropInv, FadedInIsNextOut

(***************************************************************************)
(* Theorems.                                                               *)
(***************************************************************************)

(* The inductive invariant of requests, jobs and canvases.                 *)
THEOREM OrderInvariant == BackdropSpec => []OrderInv
  BY BackdropBegins, StepsKeepOrder, PTL DEF BackdropSpec

(* The two canvases never get out of step with the requests: at rest the   *)
(* newest image fades in on the one that fades out next                    *)
(* (dash_backdrop.c:407-423).                                              *)
THEOREM BackdropIsConsistent == BackdropSpec => []BackdropInv
  BY OrderInvariant, OrderIsSafe, PTL

(* However late and in whatever order decodes end, no canvas is given an   *)
(* image older than one that is on either of them (dash_backdrop.c:241,    *)
(* 263).                                                                   *)
THEOREM ImagesAlwaysShowInOrder == BackdropSpec => ImagesShowInOrder
<1> DEFINE Ordered == \A x \in Canvases :
                        shown'[x] # shown[x] => \A y \in Canvases : shown'[x] > shown[y]
<1>1. OrderInv /\ [BackdropNext]_allVars => [Ordered]_allVars
  <2> SUFFICES ASSUME OrderInv, [BackdropNext]_allVars PROVE [Ordered]_allVars
    OBVIOUS
  <2>1. CASE CallbackShows
    <3>1. DOMAIN shown = Canvases /\ \A x \in Canvases : shown[x] \in Nat
      BY DEF OrderInv, BackdropTypeOK
    <3>2. ASSUME NEW x \in Canvases, shown'[x] # shown[x]
          PROVE  shown'[x] = user[cur]
      BY <2>1, <3>1, <3>2, ShownIsNewer
    <3>3. QED
      BY <2>1, <3>1, <3>2, ShownIsNewer DEF OrderInv, BackdropTypeOK
  <2>2. CASE UNCHANGED shown
    BY <2>2
  <2>3. QED
    BY <2>1, <2>2 DEF BackdropNext, UpdateNoArt, Update, QueueRuns, DecoderRuns, CallbackDiscards,
                      CallbackGoesOn, backdropVars, allVars
<1>2. QED
  BY <1>1, OrderInvariant, PTL DEF BackdropSpec, ImagesShowInOrder

=================================================================================
