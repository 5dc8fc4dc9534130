------------------------------ MODULE BackupProofs ------------------------------
(***************************************************************************)
(* Proofs about Backup, for any saves, chunks, versions and connections.   *)
(*                                                                         *)
(* The partial file resumes first: for every server, since it follows from *)
(* what the client keeps through aborts, crashes and boots.  The server's  *)
(* offset leaves no hole: for connections served one after the other, when *)
(* what the server grants is still so when the file comes.  A backup that  *)
(* began with a manifest is complete at its end, also then: what a listed  *)
(* save lacks is in the thread's list, under way, or in temp.              *)
(***************************************************************************)
EXTENDS Backup, SequenceTheorems, FiniteSetTheorems, TLAPS

(***************************************************************************)
(* The types: what is under way, in memory and on either disk.             *)
(***************************************************************************)
NeedLists == { s \in Seq(Files \cup {Junk}) : Len(s) <= Cardinality(Files) }

ToServer ==
  [t : {"RESUME"}, path : Files \cup {Junk}]
    \cup [t : {"MANIFEST"}, entries : [Files -> 0..MaxVersion]]
    \cup [t : {"FILE"}, path : Files, size : 0..Chunks, off : 0..Chunks]
    \cup [t : {"data"}, v : 0..MaxVersion]
    \cup [t : {"DONE", "ABORT"}]

ToClient ==
  [t : {"GO"}, off : Nat] \cup [t : {"NEED"}, files : NeedLists] \cup [t : {"NEW", "OK"}]

Entries == [data : Seq(Nat), mtime : -1..MaxVersion]

WireOK ==
  /\ conn \in 0..MaxConns
  /\ link \in [Conns -> {"unused", "open", "closed", "lost"}]
  /\ c2s \in [Conns -> Seq(ToServer)]
  /\ s2c \in [Conns -> Seq(ToClient)]

ClientOK ==
  /\ disk \in [Files -> 0..MaxVersion]
  /\ session \in [path : Files \cup {Junk}, off : 0..Chunks, needs : NeedLists]
  /\ cache \in [Files -> 0..MaxVersion]
  /\ manifest \in [Files -> 0..MaxVersion]
  /\ bpc \in {"off", "connect", "go", "manifest", "need", "stop", "transfer", "send", "ok"}
  /\ state \in Busy \cup {"IDLE", "DONE", "FAILED"}
  /\ needs \in NeedLists
  /\ part \in [path : Files \cup {Junk}, off : Nat]
  /\ idx \in 1..(Cardinality(Files) + 1)
  /\ pos \in [at : 0..Chunks, from : 0..Chunks]

ServerOK ==
  /\ latest \in [Files -> Entries] /\ temp \in [Files -> Entries]
  /\ hpc \in [Conns -> {"none", "first", "renew", "files", "data", "gone", "crashed"}]
  /\ mtimes \in [Conns -> [Files -> 0..MaxVersion]]
  /\ recv \in [Conns -> [file : Files \cup {Junk}, left : Int, pos : Nat]]
  /\ \A k \in Conns : hpc[k] = "data" => recv[k].file \in Files

(* A session that is saved begins with the file that was interrupted.      *)
SessionOK ==
  session = NoSession \/ (session.needs # << >> /\ session.path = Head(session.needs))

(* Where the thread is, and what it has then.                              *)
PlaceOK ==
  /\ bpc = "connect" => conn < MaxConns
  /\ bpc \notin {"off", "connect"} => conn > 0
  /\ bpc \in {"transfer", "send"} => idx <= Len(needs) + 1
  /\ bpc = "send" => idx <= Len(needs) /\ needs[idx] \in Files

(* The partial file is the first needed from the moment it is read from    *)
(* the disk until the first file was sent or skipped.                      *)
PartialFirst ==
  /\ bpc = "go" => needs # << >> /\ part.path = Head(needs)
  /\ bpc = "transfer" /\ part.path # Junk =>
       idx = 1 /\ needs # << >> /\ part.path = Head(needs)

ClientInv == WireOK /\ ClientOK /\ ServerOK /\ SessionOK /\ PlaceOK /\ PartialFirst

(***************************************************************************)
(* Lemmas about the data.                                                  *)
(***************************************************************************)

(* There are finitely many saves, and as many versions as MaxVersion says. *)
LEMMA Sizes == Cardinality(Files) \in Nat /\ Chunks \in Nat \ {0}
               /\ MaxVersion \in Nat \ {0} /\ MaxConns \in Nat /\ Junk \notin Files
  BY WireAssumption, FS_CardinalityType

(* What of a channel is left when it is read from or breaks, and what it   *)
(* is when it is written to.                                               *)
LEMMA ChannelStays ==
  ASSUME NEW S, NEW s \in Seq(S)
  PROVE  /\ \A x \in S : Append(s, x) \in Seq(S)
         /\ s # << >> => Tail(s) \in Seq(S) /\ Head(s) \in S
         /\ \A n \in 0..Len(s) : SubSeq(s, 1, n) \in Seq(S)
<1>1. \A x \in S : Append(s, x) \in Seq(S)
  BY AppendProperties
<1>2. s # << >> => Tail(s) \in Seq(S) /\ Head(s) \in S
  BY HeadTailProperties
<1>3. ASSUME NEW n \in 0..Len(s) PROVE SubSeq(s, 1, n) \in Seq(S)
  <2>1. \A i \in 1..n : s[i] \in S
    BY LenProperties, ElementOfSeq
  <2>2. n \in Int /\ 1 \in Int
    BY LenProperties
  <2>3. QED
    BY <2>1, <2>2, SubSeqProperties
<1>4. QED
  BY <1>1, <1>2, <1>3

(* The rest of a need list, from its i-th file on.                         *)
LEMMA RestOfNeeds ==
  ASSUME NEW s \in NeedLists, NEW i \in Nat, 1 <= i, i <= Len(s)
  PROVE  /\ SubSeq(s, i, Len(s)) \in NeedLists /\ SubSeq(s, i, Len(s)) # << >>
         /\ Head(SubSeq(s, i, Len(s))) = s[i] /\ s[i] \in Files \cup {Junk}
<1> DEFINE S == Files \cup {Junk}  n == Len(s)  r == SubSeq(s, i, n)
<1>1. s \in Seq(S) /\ n \in Nat /\ n <= Cardinality(Files) /\ i \in Int /\ n \in Int
  BY LenProperties DEF NeedLists
<1>2. \A j \in 1..n : s[j] \in S
  BY <1>1, ElementOfSeq
<1>3. \A j \in i..n : s[j] \in S
  BY <1>1, <1>2
<1>4. r \in Seq(S) /\ Len(r) = (IF i <= n THEN n - i + 1 ELSE 0)
      /\ \A j \in 1..(n - i + 1) : r[j] = s[i + j - 1]
  <2> HIDE DEF S, n
  <2>1. QED
    BY <1>1, <1>3, SubSeqProperties
<1>5. Len(r) = n - i + 1 /\ Len(r) >= 1 /\ 1 \in 1..(n - i + 1)
  BY <1>1, <1>4
<1>6. r # << >> /\ Head(r) = r[1] /\ r[1] = s[i]
  <2> HIDE DEF r, n
  <2>1. r # << >> /\ r[1] = s[i + 1 - 1]
    BY <1>4, <1>5, EmptySeq
  <2>2. i + 1 - 1 = i
    BY <1>1
  <2>3. QED
    BY <1>4, <2>1, <2>2
<1>7. Len(r) <= Cardinality(Files)
  BY <1>1, <1>5, Sizes
<1>8. QED
  BY <1>1, <1>2, <1>4, <1>6, <1>7 DEF NeedLists

(* A file after a chunk was written to it.                                 *)
LEMMA ChunkWritten ==
  ASSUME NEW data \in Seq(Nat), NEW at \in Nat, NEW v \in Nat
  PROVE  /\ Written(data, at, v) \in Seq(Nat)
         /\ Len(Written(data, at, v)) >= at + 1
<1> DEFINE top == {Len(data), at + 1}
           n   == Max(top)
           e(i) == IF i = at + 1 THEN v ELSE IF i \in DOMAIN data THEN data[i] ELSE 0
<1>1. Len(data) \in Nat /\ DOMAIN data = 1..Len(data)
      /\ \A i \in 1..Len(data) : data[i] \in Nat
  BY LenProperties, ElementOfSeq
<1>2. \E x \in top : \A y \in top : x >= y
  BY <1>1
<1>3. n \in top /\ \A y \in top : n >= y
  <2> HIDE DEF top
  <2>1. QED
    BY <1>2 DEF Max
<1>4. n \in Nat /\ n >= at + 1
  BY <1>1, <1>3
<1>5. Written(data, at, v) = [i \in 1..n |-> e(i)]
  BY Zenon DEF Written
<1>6. \A i \in 1..n : e(i) \in Nat
  BY <1>1
<1> HIDE DEF n
<1>7. [i \in 1..n |-> e(i)] \in Seq(Nat)
  <2> HIDE DEF e
  <2>1. QED
    BY <1>4, <1>6, IsASeq
<1>8. Len([i \in 1..n |-> e(i)]) = n
  BY <1>4
<1>9. QED
  BY <1>4, <1>5, <1>7, <1>8

(* A list of needed files is one that fits into the client's need_list.    *)
LEMMA ListsAreNeeds ==
  ASSUME NEW T \in SUBSET Files, NEW s \in SetToSeqs(T)
  PROVE  s \in NeedLists
<1> DEFINE n == Cardinality(T)
<1>1. IsFiniteSet(T) /\ n \in Nat /\ n <= Cardinality(Files)
  BY WireAssumption, FS_Subset, FS_CardinalityType
<1>2. s \in [1..n -> T]
  BY DEF SetToSeqs
<1>3. s \in [1..n -> Files \cup {Junk}]
  BY <1>2
<1>4. s \in Seq(Files \cup {Junk}) /\ Len(s) = n
  <2> HIDE DEF n
  <2>1. QED
    BY <1>1, <1>3
<1>5. QED
  BY <1>1, <1>4 DEF NeedLists

(* What a message says, by its first word.                                 *)
LEMMA SaidToServer ==
  ASSUME NEW m \in ToServer
  PROVE  /\ m.t = "RESUME" => m.path \in Files \cup {Junk}
         /\ m.t = "MANIFEST" => m.entries \in [Files -> 0..MaxVersion]
         /\ m.t = "FILE" => m.path \in Files /\ m.size \in 0..Chunks /\ m.off \in 0..Chunks
         /\ m.t = "data" => m.v \in 0..MaxVersion
  BY DEF ToServer

LEMMA SaidToClient ==
  ASSUME NEW m \in ToClient
  PROVE  /\ m.t = "GO" => m.off \in Nat
         /\ m.t = "NEED" => m.files \in NeedLists
  BY DEF ToClient

(* The connection the thread talks on.                                     *)
LEMMA Talking ==
  ASSUME WireOK, PlaceOK, bpc \notin {"off", "connect"}
  PROVE  conn \in Conns
  BY Sizes DEF WireOK, PlaceOK, Conns

(***************************************************************************)
(* The types are kept by every step: the channels.                         *)
(***************************************************************************)

(* Sending and receiving on one connection.                                *)
LEMMA ChannelsStay ==
  ASSUME WireOK, NEW k \in Conns
  PROVE  /\ \A m \in ToServer : [c2s EXCEPT ![k] = Append(@, m)] \in [Conns -> Seq(ToServer)]
         /\ \A m \in ToClient : [s2c EXCEPT ![k] = Append(@, m)] \in [Conns -> Seq(ToClient)]
         /\ c2s[k] # << >> => /\ [c2s EXCEPT ![k] = Tail(@)] \in [Conns -> Seq(ToServer)]
                              /\ Head(c2s[k]) \in ToServer
         /\ s2c[k] # << >> => /\ [s2c EXCEPT ![k] = Tail(@)] \in [Conns -> Seq(ToClient)]
                              /\ Head(s2c[k]) \in ToClient
         /\ \A n \in 0..Len(c2s[k]) : [c2s EXCEPT ![k] = SubSeq(@, 1, n)] \in [Conns -> Seq(ToServer)]
         /\ [c2s EXCEPT ![k] = << >>] \in [Conns -> Seq(ToServer)]
         /\ [s2c EXCEPT ![k] = << >>] \in [Conns -> Seq(ToClient)]
<1>1. c2s \in [Conns -> Seq(ToServer)] /\ s2c \in [Conns -> Seq(ToClient)]
      /\ c2s[k] \in Seq(ToServer) /\ s2c[k] \in Seq(ToClient)
  BY DEF WireOK
<1>2. /\ \A m \in ToServer : Append(c2s[k], m) \in Seq(ToServer)
      /\ c2s[k] # << >> => Tail(c2s[k]) \in Seq(ToServer) /\ Head(c2s[k]) \in ToServer
      /\ \A n \in 0..Len(c2s[k]) : SubSeq(c2s[k], 1, n) \in Seq(ToServer)
  BY <1>1, ChannelStays
<1>3. /\ \A m \in ToClient : Append(s2c[k], m) \in Seq(ToClient)
      /\ s2c[k] # << >> => Tail(s2c[k]) \in Seq(ToClient) /\ Head(s2c[k]) \in ToClient
  BY <1>1, ChannelStays
<1>4. << >> \in Seq(ToServer) /\ << >> \in Seq(ToClient)
  OBVIOUS
<1>5. QED
  BY <1>1, <1>2, <1>3, <1>4

LEMMA LoseKeepsWire ==
  ASSUME WireOK, NEW k \in Conns, Lose(k)
  PROVE  WireOK'
<1>1. c2s' \in [Conns -> Seq(ToServer)] /\ s2c' \in [Conns -> Seq(ToClient)]
  BY ChannelsStay DEF Lose
<1>2. QED
  BY <1>1 DEF Lose, WireOK

LEMMA SayKeepsWire ==
  ASSUME WireOK, conn \in Conns, NEW m \in ToServer
  PROVE  Says(m) \in [Conns -> Seq(ToServer)]
<1>1. CASE Linked
  <2>1. Says(m) = [c2s EXCEPT ![conn] = Append(@, m)]
    BY <1>1 DEF Says
  <2>2. QED
    BY <2>1, ChannelsStay
<1>2. CASE ~Linked
  <2>1. Says(m) = c2s
    BY <1>2 DEF Says, WireOK
  <2>2. QED
    BY <2>1 DEF WireOK
<1>3. QED
  BY <1>1, <1>2

LEMMA ReplyKeepsWire ==
  ASSUME WireOK, NEW k \in Conns, NEW m \in ToClient
  PROVE  Reply(k, m) \in [Conns -> Seq(ToClient)]
<1>1. CASE link[k] = "open"
  <2>1. Reply(k, m) = [s2c EXCEPT ![k] = Append(@, m)]
    BY <1>1 DEF Reply
  <2>2. QED
    BY <2>1, ChannelsStay
<1>2. CASE link[k] # "open"
  <2>1. Reply(k, m) = s2c
    BY <1>2 DEF Reply, WireOK
  <2>2. QED
    BY <2>1 DEF WireOK
<1>3. QED
  BY <1>1, <1>2

LEMMA CloseKeepsWire ==
  ASSUME WireOK
  PROVE  Closed \in [Conns -> {"unused", "open", "closed", "lost"}]
  BY DEF Closed, Linked, WireOK

(* The messages of either side.                                            *)
LEMMA ClientSays ==
  /\ \A p \in Files \cup {Junk} : [t |-> "RESUME", path |-> p] \in ToServer
  /\ \A e \in [Files -> 0..MaxVersion] : [t |-> "MANIFEST", entries |-> e] \in ToServer
  /\ \A p \in Files, n, o \in 0..Chunks :
       [t |-> "FILE", path |-> p, size |-> n, off |-> o] \in ToServer
  /\ \A x \in 0..MaxVersion : [t |-> "data", v |-> x] \in ToServer
  /\ [t |-> "DONE"] \in ToServer /\ [t |-> "ABORT"] \in ToServer
  BY DEF ToServer

LEMMA ServerSays ==
  /\ \A o \in Nat : [t |-> "GO", off |-> o] \in ToClient
  /\ \A s \in NeedLists : [t |-> "NEED", files |-> s] \in ToClient
  /\ [t |-> "NEW"] \in ToClient /\ [t |-> "OK"] \in ToClient
  BY DEF ToClient

(* What the thread reads of its need list and of the part of a file it has *)
(* is of its type.                                                         *)
LEMMA NextNeeded ==
  ASSUME ClientOK, idx <= Len(needs)
  PROVE  needs[idx] \in Files \cup {Junk}
<1>1. needs \in NeedLists /\ idx \in Nat /\ 1 <= idx
  BY Sizes DEF ClientOK
<1>2. QED
  BY Zenon, <1>1, RestOfNeeds

(* The thread's steps by what they do to the channels.                     *)
LEMMA ThreadKeepsWire ==
  ASSUME ClientInv, ThreadStep
  PROVE  WireOK'
<1> USE DEF ClientInv
<1> DEFINE Cs == [Conns -> Seq(ToServer)]  Ss == [Conns -> Seq(ToClient)]
           Ls == [Conns -> {"unused", "open", "closed", "lost"}]
<1>0. WireOK /\ conn \in 0..MaxConns /\ link \in Ls /\ c2s \in Cs /\ s2c \in Ss
  BY DEF WireOK
<1>1. SUFFICES conn' \in 0..MaxConns /\ link' \in Ls /\ c2s' \in Cs /\ s2c' \in Ss
  BY DEF WireOK
<1>2. bpc \notin {"off", "connect"} => conn \in Conns
  BY Talking
<1>3. Closed \in Ls
  BY <1>0, CloseKeepsWire
<1>4. conn \in Conns => \A m \in ToServer : Says(m) \in Cs
  BY <1>0, SayKeepsWire
<1>5. conn \in Conns => /\ s2c[conn] # << >> => Heard \in Ss
                        /\ [s2c EXCEPT ![conn] = << >>] \in Ss
  BY <1>0, ChannelsStay DEF Heard
<1> HIDE DEF Cs, Ss, Ls
<1>a. CASE Unreachable \/ FileSent
  BY <1>a, <1>0 DEF Unreachable, FileSent, wireVars
<1>b. CASE Connect
  <2>1. conn + 1 \in Conns /\ conn' = conn + 1 /\ conn' \in 0..MaxConns
    BY <1>b, <1>0, Sizes DEF Connect, Here, PlaceOK, Conns
  <2>2. link' \in Ls
    BY <1>b, <1>0, <2>1 DEF Connect, Ls
  <2>3. c2s' = c2s \/ c2s' = [c2s EXCEPT ![conn + 1] = << [t |-> "RESUME", path |-> session.path] >>]
    BY <1>b DEF Connect
  <2>4. session.path \in Files \cup {Junk}
    BY DEF ClientOK
  <2>5. << [t |-> "RESUME", path |-> session.path] >> \in Seq(ToServer)
    BY <2>4, ClientSays
  <2>6. c2s' \in Cs
    BY <1>0, <2>1, <2>3, <2>5 DEF Cs
  <2>7. QED
    BY <1>b, <1>0, <2>1, <2>2, <2>6 DEF Connect
<1>c. CASE RecvGo
  BY <1>c, <1>0, <1>2, <1>5 DEF RecvGo, Here, Hears
<1>d. CASE SendManifest
  <2>1. manifest \in [Files -> 0..MaxVersion]
    BY DEF ClientOK
  <2>2. QED
    BY <1>d, <1>0, <1>2, <1>4, <2>1, ClientSays DEF SendManifest, Here
<1>e. CASE RecvNothingNeeded
  BY <1>e, <1>0, <1>2, <1>3, <1>4, <1>5, ClientSays
     DEF RecvNothingNeeded, Here, Hears, End
<1>f. CASE RecvNeed
  BY <1>f, <1>0, <1>2, <1>5 DEF RecvNeed, Here, Hears
<1>g. CASE RecvFails
  BY <1>g, <1>0, <1>3 DEF RecvFails, Fail, End
<1>h. CASE SkipFile
  <2>1. conn \in Conns
    BY <1>h, <1>2 DEF SkipFile, Here
  <2>2. CASE needs[idx] = Junk /\ UNCHANGED c2s
    BY <1>h, <1>0, <2>2 DEF SkipFile
  <2>3. CASE needs[idx] # Junk
             /\ c2s' = Says([t |-> "FILE", path |-> needs[idx], size |-> 0, off |-> 0])
    <3>1. needs[idx] \in Files /\ 0 \in 0..Chunks
      BY <1>h, <2>3, NextNeeded, Sizes DEF SkipFile
    <3>2. QED
      BY <1>h, <1>0, <1>4, <2>1, <2>3, <3>1, ClientSays DEF SkipFile
  <2>4. QED
    BY <1>h, <2>2, <2>3 DEF SkipFile
<1>i. CASE OpenFile
  <2> DEFINE f == needs[idx]  off == IF part.path = f /\ part.off <= Chunks THEN part.off ELSE 0
  <2>1. conn \in Conns /\ f \in Files
    BY <1>i, <1>2, NextNeeded DEF OpenFile, Here
  <2>2. part.off \in Nat
    BY DEF ClientOK
  <2>3. off \in 0..Chunks /\ Chunks - off \in 0..Chunks
    BY <2>2, Sizes
  <2>4. c2s' = Says([t |-> "FILE", path |-> f, size |-> Chunks - off, off |-> off])
    BY <1>i DEF OpenFile
  <2> HIDE DEF f, off
  <2>5. QED
    BY <1>i, <1>0, <1>4, <2>1, <2>3, <2>4, ClientSays DEF OpenFile
<1>j. CASE SendChunk
  <2>1. conn \in Conns /\ needs[idx] \in Files
    BY <1>j, <1>2 DEF SendChunk, Here, PlaceOK
  <2>2. disk[needs[idx]] \in 0..MaxVersion
    BY <2>1 DEF ClientOK
  <2>3. QED
    BY <1>j, <1>0, <1>4, <2>1, <2>2, ClientSays DEF SendChunk
<1>k. CASE SendFails
  BY <1>k, <1>0, <1>3 DEF SendFails, End
<1>l. CASE SendDone
  BY <1>l, <1>0, <1>2, <1>4, ClientSays DEF SendDone, Here
<1>m. CASE RecvOk
  BY <1>m, <1>0, <1>2, <1>3, <1>5 DEF RecvOk, Here, End
<1>n. CASE AbortNoticed
  <2>1. \E n : EndAborted(n) /\ conn \in Conns
    BY <1>n, <1>2 DEF AbortNoticed
  <2>2. QED
    BY <1>0, <1>3, <1>4, <2>1, ClientSays DEF EndAborted, End
<1>o. CASE ManifestAborted
  <2>1. PICK S \in SUBSET Files :
          c2s' = Says([t |-> "MANIFEST",
                       entries |-> [f \in Files |-> IF f \in S THEN manifest[f] ELSE 0]])
    BY <1>o DEF ManifestAborted
  <2>2. [f \in Files |-> IF f \in S THEN manifest[f] ELSE 0] \in [Files -> 0..MaxVersion]
    BY Sizes DEF ClientOK
  <2>3. QED
    BY <1>o, <1>0, <1>2, <1>4, <2>1, <2>2, ClientSays DEF ManifestAborted, Here
<1>p. QED
  BY <1>a, <1>b, <1>c, <1>d, <1>e, <1>f, <1>g, <1>h, <1>i, <1>j, <1>k, <1>l, <1>m, <1>n, <1>o
     DEF ThreadStep, Negotiate, Transfer

LEMMA ServerKeepsWire ==
  ASSUME ClientInv, ServerStep
  PROVE  WireOK'
<1> USE DEF ClientInv
<1> DEFINE Cs == [Conns -> Seq(ToServer)]  Ss == [Conns -> Seq(ToClient)]
           Ls == [Conns -> {"unused", "open", "closed", "lost"}]
<1>0. WireOK /\ conn \in 0..MaxConns /\ link \in Ls /\ c2s \in Cs /\ s2c \in Ss
  BY DEF WireOK
<1>1. SUFFICES conn' \in 0..MaxConns /\ link' \in Ls /\ c2s' \in Cs /\ s2c' \in Ss
  BY DEF WireOK
<1>2. PICK k \in Conns :
        \/ Serve(k) \/ ResumeFails(k) \/ Resume(k) \/ Manifest(k) \/ NoManifest(k)
        \/ FileHeader(k) \/ FileData(k) \/ Done(k) \/ AbortLine(k) \/ Eof(k)
  BY DEF ServerStep
<1>3. /\ c2s[k] # << >> => Taken(k) \in Cs /\ Head(c2s[k]) \in ToServer
      /\ [c2s EXCEPT ![k] = << >>] \in Cs
  BY <1>0, ChannelsStay DEF Taken
<1>4. \A m \in ToClient : Reply(k, m) \in Ss
  BY <1>0, ReplyKeepsWire
<1>5. [link EXCEPT ![k] = "lost"] \in Ls
  BY <1>0
<1> HIDE DEF Cs, Ss, Ls
<1>a. CASE Serve(k) \/ Eof(k)
  BY <1>a, <1>0 DEF Serve, Eof, wireVars
<1>b. CASE ResumeFails(k)
  BY <1>b, <1>0, <1>3, <1>5 DEF ResumeFails
<1>c. CASE Resume(k)
  <2> DEFINE p == Head(c2s[k]).path  off == IF p \in Files THEN Len(temp[p].data) ELSE 0
  <2>0. p \in Files => temp[p].data \in Seq(Nat)
    BY DEF ServerOK, Entries
  <2>1. off \in Nat
    BY <2>0, LenProperties
  <2>2. s2c' = Reply(k, [t |-> "GO", off |-> off]) \/ s2c' = Reply(k, [t |-> "NEW"])
    BY <1>c DEF Resume
  <2> HIDE DEF off
  <2>3. QED
    BY <1>c, <1>0, <1>3, <1>4, <2>1, <2>2, ServerSays DEF Resume, Gets
<1>d. CASE Manifest(k)
  <2> DEFINE m == Head(c2s[k]).entries  need == {f \in Files : m[f] > 0 /\ Differs(f, m[f])}
  <2>1. PICK s \in SetToSeqs(need) : s2c' = Reply(k, [t |-> "NEED", files |-> s])
    BY <1>d DEF Manifest
  <2>2. s \in NeedLists
    BY <2>1, ListsAreNeeds
  <2>3. QED
    BY <1>d, <1>0, <1>3, <1>4, <2>1, <2>2, ServerSays DEF Manifest, Gets
<1>e. CASE NoManifest(k) \/ FileHeader(k) \/ FileData(k) \/ AbortLine(k)
  BY <1>e, <1>0, <1>3 DEF NoManifest, FileHeader, FileData, AbortLine, Gets
<1>f. CASE Done(k)
  BY <1>f, <1>0, <1>3, <1>4, ServerSays DEF Done, Gets
<1>g. QED
  BY <1>2, <1>a, <1>b, <1>c, <1>d, <1>e, <1>f

(* Of the console's own steps only a switch-off touches the connection.    *)
LEMMA StepKeepsWire ==
  ASSUME ClientInv, [BackupNext]_allVars
  PROVE  WireOK'
<1>1. WireOK
  BY DEF ClientInv
<1>2. CASE UNCHANGED wireVars
  BY <1>1, <1>2 DEF WireOK, wireVars
<1>3. CASE \E k \in Conns : Lose(k)
  BY <1>1, <1>3, LoseKeepsWire
<1>4. CASE SwitchOff
  <2>1. CASE conn > 0 /\ link[conn] = "open"
    <3>1. conn \in Conns
      BY <1>1, <2>1, Sizes DEF WireOK, Conns
    <3>2. QED
      BY <1>1, <1>4, <2>1, <3>1, LoseKeepsWire DEF SwitchOff
  <2>2. CASE ~(conn > 0 /\ link[conn] = "open")
    BY <1>2, <1>4, <2>2 DEF SwitchOff
  <2>3. QED
    BY <2>1, <2>2
<1>5. QED
  BY <1>2, <1>3, <1>4, ThreadKeepsWire, ServerKeepsWire
     DEF BackupNext, Client, Threads, Server, Network, ClientStep, ScanStep, ThreadStep,
         Boot, Play, Start, Abort, ScanSaves, ScanDone, wireVars, allVars

(***************************************************************************)
(* The types are kept by every step: the console and the server.           *)
(***************************************************************************)

(* What the thread has heard, and what it writes when it is interrupted.   *)
LEMMA HeardWell ==
  ASSUME ClientInv, bpc \notin {"off", "connect"}, s2c[conn] # << >>
  PROVE  Head(s2c[conn]) \in ToClient
<1>1. WireOK /\ conn \in Conns
  BY Talking DEF ClientInv
<1>2. QED
  BY <1>1, ChannelsStay

LEMMA SavesWell ==
  ASSUME ClientOK, NEW i \in Nat, 1 <= i, i <= Len(needs), NEW off \in 0..Chunks
  PROVE  /\ SavedFrom(i, off) \in [path : Files \cup {Junk}, off : 0..Chunks, needs : NeedLists]
         /\ SavedFrom(i, off).needs # << >>
         /\ SavedFrom(i, off).path = Head(SavedFrom(i, off).needs)
<1>1. needs \in NeedLists
  BY DEF ClientOK
<1> DEFINE r == SubSeq(needs, i, Len(needs))
<1>2. r \in NeedLists /\ r # << >> /\ Head(r) = needs[i] /\ needs[i] \in Files \cup {Junk}
  BY <1>1, RestOfNeeds
<1>3. SavedFrom(i, off) = [path |-> needs[i], off |-> off, needs |-> r]
  BY DEF SavedFrom
<1> HIDE DEF r
<1>4. QED
  BY <1>2, <1>3

(* The list as far as it was received before an abort.                     *)
LEMMA CutShort ==
  ASSUME NEW s \in NeedLists, NEW n
  PROVE  [i \in DOMAIN s |-> IF i <= n THEN s[i] ELSE Junk] \in NeedLists
<1> DEFINE S == Files \cup {Junk}  m == Len(s)  e(i) == IF i <= n THEN s[i] ELSE Junk
<1>1. m \in Nat /\ m <= Cardinality(Files) /\ DOMAIN s = 1..m /\ \A i \in 1..m : s[i] \in S
  BY LenProperties, ElementOfSeq DEF NeedLists
<1>2. \A i \in 1..m : e(i) \in S
  BY <1>1
<1> HIDE DEF m, S
<1>3. [i \in 1..m |-> e(i)] \in Seq(S)
  <2> HIDE DEF e
  <2>1. QED
    BY <1>1, <1>2, IsASeq
<1>4. Len([i \in 1..m |-> e(i)]) = m
  BY <1>1
<1>5. [i \in 1..m |-> e(i)] \in NeedLists
  BY <1>1, <1>3, <1>4 DEF NeedLists, S
<1>6. QED
  BY <1>1, <1>5

LEMMA EmptyList == << >> \in NeedLists
<1>1. << >> \in Seq(Files \cup {Junk}) /\ Len(<< >>) = 0
  OBVIOUS
<1>2. QED
  BY <1>1, Sizes DEF NeedLists

(* Whatever stays, or is as it was at a start, is of its type.             *)
LEMMA ConsoleKeepsClient ==
  ASSUME ClientOK,
         Boot \/ SwitchOff \/ (\E f \in Files : Play(f)) \/ Start \/ Abort \/ ScanStep
  PROVE  ClientOK'
<1> USE DEF ClientOK
<1>a. CASE Boot
  BY <1>a DEF Boot, diskVars, threadVars
<1>b. CASE SwitchOff
  <2>1. NoSaves \in [Files -> 0..MaxVersion] /\ [at |-> 0, from |-> 0] \in [at : 0..Chunks, from : 0..Chunks]
        /\ 1 \in 1..(Cardinality(Files) + 1) /\ NoPart \in [path : Files \cup {Junk}, off : Nat]
    BY Sizes DEF NoSaves, NoPart
  <2>2. QED
    BY <1>b, <2>1, EmptyList DEF SwitchOff, diskVars
<1>c. CASE \E f \in Files : Play(f)
  <2>1. PICK f \in Files : Play(f)
    BY <1>c
  <2>2. PICK v \in {disk[f] + 1, 0} \ {MaxVersion + 1} : disk' = [disk EXCEPT ![f] = v]
    BY <2>1 DEF Play
  <2>3. disk[f] \in 0..MaxVersion
    OBVIOUS
  <2>4. v \in 0..MaxVersion
    BY <2>2, <2>3, Sizes
  <2>5. disk' \in [Files -> 0..MaxVersion]
    BY <2>2, <2>4
  <2>6. QED
    BY <2>1, <2>5 DEF Play, threadVars
<1>d. CASE Start \/ Abort
  BY <1>d DEF Start, Abort, diskVars, Busy
<1>e. CASE ScanStep
  BY <1>e DEF ScanStep, ScanSaves, ScanDone, diskVars, threadVars
<1>f. QED
  BY <1>a, <1>b, <1>c, <1>d, <1>e

LEMMA ThreadKeepsClient ==
  ASSUME ClientInv, ThreadStep
  PROVE  ClientOK'
<1>1. ClientOK
  BY DEF ClientInv
<1>2. 1 \in 1..(Cardinality(Files) + 1) /\ NoPart \in [path : Files \cup {Junk}, off : Nat]
      /\ NoSession \in [path : Files \cup {Junk}, off : 0..Chunks, needs : NeedLists]
      /\ << >> \in NeedLists
  BY Sizes, EmptyList DEF NoPart, NoSession
<1>a. CASE Unreachable \/ SendManifest \/ RecvFails \/ SendDone \/ ManifestAborted
  BY <1>1, <1>a DEF ClientOK, Unreachable, SendManifest, RecvFails, Fail, End, SendDone,
                    ManifestAborted, diskVars, Busy
<1>b. CASE Connect
  <2>1. session.needs \in NeedLists
        /\ [path |-> session.path, off |-> session.off] \in [path : Files \cup {Junk}, off : Nat]
    BY <1>1, Sizes DEF ClientOK
  <2>2. QED
    BY <1>1, <1>b, <2>1 DEF Connect, ClientOK, diskVars, Busy
<1>c. CASE RecvGo
  <2> DEFINE m == Head(s2c[conn])
  <2>1. Hears("GO") => m.off \in Nat
    BY <1>c, HeardWell, SaidToClient DEF RecvGo, Here, Hears
  <2>2. CASE Hears("GO") /\ part' = [part EXCEPT !.off = m.off] /\ bpc' = "transfer"
             /\ state' = "TRANSFERRING" /\ idx' = 1 /\ UNCHANGED << session, needs >>
    <3> HIDE DEF m
    <3>1. QED
      BY <1>1, <1>2, <1>c, <2>1, <2>2 DEF RecvGo, ClientOK, Busy
  <2>3. CASE ClearSession /\ bpc' = "manifest" /\ state' = "SCANNING" /\ UNCHANGED idx
    BY <1>1, <1>2, <1>c, <2>3 DEF RecvGo, ClientOK, ClearSession, Busy
  <2>4. QED
    BY <1>c, <2>2, <2>3 DEF RecvGo
<1>d. CASE RecvNothingNeeded
  BY <1>1, <1>2, <1>d DEF RecvNothingNeeded, End, ClearSession, ClientOK
<1>e. CASE RecvNeed
  <2> DEFINE s == Head(s2c[conn]).files
  <2>1. s \in NeedLists
    BY <1>e, HeardWell, SaidToClient DEF RecvNeed, Here, Hears
  <2>2. needs' = s \/ \E n : needs' = [i \in DOMAIN s |-> IF i <= n THEN s[i] ELSE Junk]
    BY <1>e DEF RecvNeed
  <2>3. needs' \in NeedLists
    BY <2>1, <2>2, CutShort
  <2>4. QED
    BY <1>1, <1>2, <1>e, <2>3 DEF RecvNeed, ClientOK, diskVars, Busy
<1>f. CASE SkipFile \/ FileSent
  <2>1. idx <= Len(needs) /\ Len(needs) <= Cardinality(Files)
    BY <1>1, <1>f DEF SkipFile, FileSent, PlaceOK, ClientInv, ClientOK, NeedLists, Here
  <2>2. idx + 1 \in 1..(Cardinality(Files) + 1)
    BY <1>1, <2>1, Sizes, LenProperties DEF ClientOK, NeedLists
  <2>3. QED
    BY <1>1, <1>2, <1>f, <2>2 DEF SkipFile, FileSent, NextFile, ClientOK, diskVars
<1>g. CASE OpenFile
  <2> DEFINE f == needs[idx]  off == IF part.path = f /\ part.off <= Chunks THEN part.off ELSE 0
  <2>1. off \in 0..Chunks
    BY <1>1, Sizes DEF ClientOK
  <2>2. pos' = [at |-> off, from |-> off]
    BY <1>g DEF OpenFile
  <2> HIDE DEF off
  <2>3. QED
    BY <1>1, <1>g, <2>1, <2>2 DEF OpenFile, ClientOK, diskVars
<1>h. CASE SendChunk
  <2>1. pos' = [pos EXCEPT !.at = @ + 1] /\ pos.at + 1 \in 0..Chunks
    BY <1>1, <1>h, Sizes DEF SendChunk, ClientOK
  <2>2. pos' \in [at : 0..Chunks, from : 0..Chunks]
    BY <1>1, <2>1 DEF ClientOK
  <2>3. QED
    BY <1>1, <1>h, <2>2 DEF SendChunk, ClientOK, diskVars
<1>i. CASE SendFails
  <2>1. idx \in Nat /\ 1 <= idx /\ idx <= Len(needs) /\ pos.from \in 0..Chunks
    BY <1>1, <1>i DEF SendFails, Here, ClientInv, PlaceOK, ClientOK
  <2>2. session' \in [path : Files \cup {Junk}, off : 0..Chunks, needs : NeedLists]
    BY <1>1, <1>i, <2>1, SavesWell DEF SendFails
  <2>3. QED
    BY <1>1, <1>i, <2>2 DEF SendFails, End, ClientOK
<1>j. CASE RecvOk
  BY <1>1, <1>2, <1>j DEF RecvOk, End, ClearSession, ClientOK
<1>k. CASE AbortNoticed
  <2>1. PICK n \in Nat : EndAborted(n)
    BY <1>1, <1>k DEF AbortNoticed, ClientOK
  <2>2. n < Len(needs) => SavedFrom(n + 1, 0) \in [path : Files \cup {Junk}, off : 0..Chunks, needs : NeedLists]
    <3>1. n < Len(needs) => n + 1 \in Nat /\ 1 <= n + 1 /\ n + 1 <= Len(needs) /\ 0 \in 0..Chunks
      BY <1>1, Sizes, LenProperties DEF ClientOK, NeedLists
    <3>2. QED
      BY <1>1, <3>1, SavesWell
  <2>3. QED
    BY <1>1, <2>1, <2>2 DEF EndAborted, End, ClientOK
<1>l. QED
  BY <1>a, <1>b, <1>c, <1>d, <1>e, <1>f, <1>g, <1>h, <1>i, <1>j, <1>k
     DEF ThreadStep, Negotiate, Transfer

(* A copy of a file as the server keeps it.                                *)
LEMMA StampedWell ==
  ASSUME ServerOK, NEW k \in Conns, NEW f \in Files, NEW e \in Entries
  PROVE  Stamped(k, f, e) \in Entries /\ Stamped(k, f, e).data = e.data
                                      /\ (There(e) => There(Stamped(k, f, e)))
<1>1. mtimes[k][f] \in 0..MaxVersion
  BY DEF ServerOK
<1>2. CASE mtimes[k][f] > 0
  <2>1. Stamped(k, f, e) = [e EXCEPT !.mtime = mtimes[k][f]]
    BY <1>2 DEF Stamped
  <2>2. QED
    BY <1>1, <1>2, <2>1, Sizes DEF Entries, There
<1>3. CASE ~(mtimes[k][f] > 0)
  BY <1>3 DEF Stamped
<1>4. QED
  BY <1>2, <1>3

(* A chunk more has been received.                                         *)
LEMMA OneMore ==
  ASSUME NEW R \in [Conns -> [file : Files \cup {Junk}, left : Int, pos : Nat]], NEW k \in Conns
  PROVE  LET R2 == [R EXCEPT ![k].left = @ - 1, ![k].pos = @ + 1] IN
         /\ R2 \in [Conns -> [file : Files \cup {Junk}, left : Int, pos : Nat]]
         /\ R2[k] = [file |-> R[k].file, left |-> R[k].left - 1, pos |-> R[k].pos + 1]
         /\ \A j \in Conns : R2[j].file = R[j].file /\ (j # k => R2[j] = R[j])
<1> DEFINE r == R[k]
           x == [file |-> r.file, left |-> r.left - 1, pos |-> r.pos + 1]
           R1 == [R EXCEPT ![k] = x]
<1>1. r \in [file : Files \cup {Junk}, left : Int, pos : Nat]
  OBVIOUS
<1>2. x \in [file : Files \cup {Junk}, left : Int, pos : Nat]
  BY <1>1
<1>3. [[r EXCEPT !.left = @ - 1] EXCEPT !.pos = @ + 1] = x
  <2>1. [r EXCEPT !.left = @ - 1] = [file |-> r.file, left |-> r.left - 1, pos |-> r.pos]
    BY <1>1
  <2>2. [[file |-> r.file, left |-> r.left - 1, pos |-> r.pos] EXCEPT !.pos = @ + 1] = x
    OBVIOUS
  <2>3. QED
    BY <2>1, <2>2
<1>4. [R EXCEPT ![k].left = @ - 1, ![k].pos = @ + 1]
        = [R EXCEPT ![k] = [[r EXCEPT !.left = @ - 1] EXCEPT !.pos = @ + 1]]
  OBVIOUS
<1>5. [R EXCEPT ![k].left = @ - 1, ![k].pos = @ + 1] = R1
  BY <1>3, <1>4
<1>6. R1[k] = x /\ \A j \in Conns : j # k => R1[j] = R[j]
  OBVIOUS
<1>7. QED
  BY <1>2, <1>5, <1>6

LEMMA ServerKeepsServer ==
  ASSUME ClientInv, ServerStep
  PROVE  ServerOK'
<1>1. ServerOK /\ WireOK
  BY DEF ClientInv
<1>2. PICK k \in Conns :
        \/ Serve(k) \/ ResumeFails(k) \/ Resume(k) \/ Manifest(k) \/ NoManifest(k)
        \/ FileHeader(k) \/ FileData(k) \/ Done(k) \/ AbortLine(k) \/ Eof(k)
  BY DEF ServerStep
<1>3. c2s[k] # << >> => Head(c2s[k]) \in ToServer
  BY <1>1, ChannelsStay
<1>4. Missing \in Entries
  <2>1. << >> \in Seq(Nat)
    OBVIOUS
  <2>2. QED
    BY <2>1, Sizes DEF Missing, Entries
<1>a. CASE Serve(k) \/ ResumeFails(k) \/ Resume(k) \/ NoManifest(k) \/ AbortLine(k) \/ Eof(k)
  <2>1. /\ UNCHANGED << latest, temp, mtimes, recv >>
        /\ \E p \in {"first", "crashed", "files", "renew", "gone"} : hpc' = [hpc EXCEPT ![k] = p]
    BY <1>a DEF Serve, ResumeFails, Resume, NoManifest, AbortLine, Eof
  <2>2. QED
    BY <1>1, <2>1 DEF ServerOK
<1>b. CASE Manifest(k)
  <2>1. Head(c2s[k]).entries \in [Files -> 0..MaxVersion]
    BY <1>b, <1>3, SaidToServer DEF Manifest, Gets
  <2>2. QED
    BY <1>1, <1>b, <2>1 DEF Manifest, ServerOK
<1>c. CASE FileHeader(k)
  <2> DEFINE m == Head(c2s[k])
             e == IF m.off > 0 /\ There(temp[m.path])
                  THEN temp[m.path] ELSE [data |-> << >>, mtime |-> 0]
  <2>1. m.path \in Files /\ m.size \in 0..Chunks /\ m.off \in 0..Chunks
    BY <1>c, <1>3, SaidToServer DEF FileHeader, Gets
  <2>2. e \in Entries
    <3>1. [data |-> << >>, mtime |-> 0] \in Entries
      <4>1. << >> \in Seq(Nat)
        OBVIOUS
      <4>2. QED
        BY <4>1, Sizes DEF Entries
    <3>2. temp[m.path] \in Entries
      BY <1>1, <2>1 DEF ServerOK
    <3>3. QED
      BY <3>1, <3>2
  <2>3. Stamped(k, m.path, e) \in Entries
    BY <1>1, <2>1, <2>2, StampedWell
  <2>4. /\ temp' = [temp EXCEPT ![m.path] = IF m.size = 0 THEN Stamped(k, m.path, e) ELSE e]
        /\ recv' = [recv EXCEPT ![k] = [file |-> m.path, left |-> m.size, pos |-> m.off]]
        /\ hpc'  = [hpc EXCEPT ![k] = IF m.size > 0 THEN "data" ELSE "files"]
        /\ UNCHANGED << latest, mtimes >>
    BY <1>c DEF FileHeader
  <2> HIDE DEF e, m
  <2>5. temp' \in [Files -> Entries]
    BY <1>1, <2>1, <2>2, <2>3, <2>4 DEF ServerOK
  <2>6. recv' \in [Conns -> [file : Files \cup {Junk}, left : Int, pos : Nat]]
    BY <1>1, <2>1, <2>4, Sizes DEF ServerOK
  <2>7. QED
    BY <1>1, <2>1, <2>4, <2>5, <2>6 DEF ServerOK
<1>d. CASE FileData(k)
  <2> DEFINE r == recv[k]
             w == Written(temp[r.file].data, r.pos, Head(c2s[k]).v)
             e == [data |-> w, mtime |-> 0]
  <2>1. r.file \in Files /\ r.pos \in Nat /\ r.left \in Int
    BY <1>1, <1>d DEF FileData, ServerOK
  <2>2. Head(c2s[k]).v \in Nat /\ temp[r.file].data \in Seq(Nat)
    BY <1>1, <1>d, <1>3, <2>1, SaidToServer, Sizes DEF FileData, Gets, ServerOK, Entries
  <2>3. w \in Seq(Nat)
    BY <2>1, <2>2, ChunkWritten
  <2>4. e \in Entries
    <3> HIDE DEF w
    <3>1. QED
      BY <2>3, Sizes DEF Entries
  <2>5. Stamped(k, r.file, e) \in Entries
    BY <1>1, <2>1, <2>4, StampedWell
  <2>6. /\ temp' = [temp EXCEPT ![r.file] = IF r.left = 1 THEN Stamped(k, r.file, e) ELSE e]
        /\ recv' = [recv EXCEPT ![k].left = @ - 1, ![k].pos = @ + 1]
        /\ hpc'  = [hpc EXCEPT ![k] = IF r.left = 1 THEN "files" ELSE "data"]
        /\ UNCHANGED << latest, mtimes >>
    BY <1>d DEF FileData
  <2> HIDE DEF e, w
  <2>7. temp' \in [Files -> Entries]
    BY <1>1, <2>1, <2>4, <2>5, <2>6 DEF ServerOK
  <2>8. recv' \in [Conns -> [file : Files \cup {Junk}, left : Int, pos : Nat]]
        /\ \A j \in Conns : recv'[j].file = recv[j].file
    <3>1. recv \in [Conns -> [file : Files \cup {Junk}, left : Int, pos : Nat]]
      BY <1>1 DEF ServerOK
    <3> HIDE DEF r
    <3>2. recv' = [recv EXCEPT ![k].left = @ - 1, ![k].pos = @ + 1]
      BY <2>6
    <3>3. QED
      BY <3>1, <3>2, OneMore, Zenon
  <2>9. QED
    BY <1>1, <2>1, <2>6, <2>7, <2>8 DEF ServerOK
<1>e. CASE Done(k)
  <2>1. \A f \in Files : (IF There(temp[f]) THEN temp[f] ELSE latest[f]) \in Entries
    BY <1>1 DEF ServerOK
  <2>2. QED
    BY <1>1, <1>4, <1>e, <2>1 DEF Done, ServerOK
<1>f. QED
  BY <1>2, <1>a, <1>b, <1>c, <1>d, <1>e

LEMMA StepKeepsTypes ==
  ASSUME ClientInv, [BackupNext]_allVars
  PROVE  WireOK' /\ ClientOK' /\ ServerOK'
<1>1. WireOK'
  BY StepKeepsWire
<1>2. ClientOK /\ ServerOK
  BY DEF ClientInv
<1>3. ClientOK'
  <2>1. CASE UNCHANGED clientVars
    BY <1>2, <2>1 DEF ClientOK, clientVars
  <2>2. QED
    BY <1>2, <2>1, ConsoleKeepsClient, ThreadKeepsClient
       DEF BackupNext, Client, Threads, Server, Network, ClientStep, ScanStep, allVars
<1>4. ServerOK'
  <2>1. CASE UNCHANGED serverVars
    BY <1>2, <2>1 DEF ServerOK, serverVars
  <2>2. QED
    BY <2>1, ServerKeepsServer
       DEF BackupNext, Client, Threads, Server, Network, allVars
<1>5. QED
  BY <1>1, <1>3, <1>4

(***************************************************************************)
(* The partial file goes first: the session that is saved, the place of    *)
(* the thread, and what it has read.                                       *)
(***************************************************************************)
LEMMA ThreadKeepsSession ==
  ASSUME ClientInv, ThreadStep
  PROVE  SessionOK'
<1>1. ClientOK /\ SessionOK
  BY DEF ClientInv
<1>2. CASE UNCHANGED session
  BY <1>1, <1>2 DEF SessionOK
<1>3. CASE ClearSession
  BY <1>3 DEF SessionOK, ClearSession, NoSession
<1>4. CASE SendFails
  <2>1. idx \in Nat /\ 1 <= idx /\ idx <= Len(needs) /\ pos.from \in 0..Chunks
    BY <1>1, <1>4 DEF SendFails, Here, ClientInv, PlaceOK, ClientOK
  <2>2. QED
    BY <1>1, <1>4, <2>1, SavesWell DEF SendFails, SessionOK
<1>5. CASE AbortNoticed
  <2>1. PICK n \in Nat : EndAborted(n)
    BY <1>1, <1>5 DEF AbortNoticed, ClientOK
  <2>2. CASE n < Len(needs)
    <3>1. n + 1 \in Nat /\ 1 <= n + 1 /\ n + 1 <= Len(needs) /\ 0 \in 0..Chunks
      BY <1>1, <2>2, Sizes, LenProperties DEF ClientOK, NeedLists
    <3>2. QED
      BY <1>1, <2>1, <2>2, <3>1, SavesWell DEF EndAborted, SessionOK
  <2>3. CASE ~(n < Len(needs))
    BY <1>2, <2>1, <2>3 DEF EndAborted
  <2>4. QED
    BY <2>2, <2>3
<1>6. QED
  BY <1>2, <1>3, <1>4, <1>5
     DEF ThreadStep, Negotiate, Transfer, Unreachable, Connect, RecvGo, SendManifest,
         RecvNothingNeeded, RecvNeed, RecvFails, Fail, SkipFile, OpenFile, SendChunk,
         FileSent, SendDone, RecvOk, ManifestAborted, diskVars

LEMMA ThreadKeepsPlace ==
  ASSUME ClientInv, ThreadStep
  PROVE  PlaceOK' /\ PartialFirst'
<1>1. ClientOK /\ SessionOK /\ PlaceOK /\ PartialFirst /\ WireOK
  BY DEF ClientInv
<1>2. Len(needs) \in Nat /\ idx \in Nat /\ idx >= 1 /\ conn \in Nat
  BY <1>1, LenProperties DEF ClientOK, NeedLists, WireOK
<1>a. CASE bpc' \in {"off", "manifest", "need", "stop", "ok"} /\ conn' = conn
           /\ bpc \notin {"off", "connect"}
  BY <1>1, <1>a DEF PlaceOK, PartialFirst
<1>b. CASE Unreachable
  BY <1>b DEF Unreachable, PlaceOK, PartialFirst
<1>c. CASE Connect
  <2>1. conn' > 0 /\ bpc' \in {"manifest", "go"}
    BY <1>2, <1>c DEF Connect
  <2>2. bpc' = "go" => needs' # << >> /\ part'.path = Head(needs')
    BY <1>1, <1>c DEF Connect, SessionOK
  <2>3. QED
    BY <2>1, <2>2 DEF PlaceOK, PartialFirst
<1>d. CASE RecvGo
  <2>1. CASE bpc' = "manifest"
    BY <1>a, <1>d, <2>1 DEF RecvGo, Here
  <2>2. CASE Hears("GO") /\ part' = [part EXCEPT !.off = Head(s2c[conn]).off]
             /\ bpc' = "transfer" /\ idx' = 1 /\ UNCHANGED << session, needs >>
    <3>1. part'.path = part.path
      BY <1>1, <2>2 DEF ClientOK
    <3>2. needs # << >> /\ part.path = Head(needs) /\ conn > 0 /\ conn' = conn
      BY <1>1, <1>d DEF RecvGo, Here, PartialFirst, PlaceOK
    <3>3. QED
      BY <1>2, <2>2, <3>1, <3>2 DEF PlaceOK, PartialFirst
  <2>3. QED
    BY <1>d, <2>1, <2>2 DEF RecvGo
<1>e. CASE RecvNeed
  <2>1. ClientOK'
    BY ThreadKeepsClient
  <2>2. Len(needs') \in Nat
    BY <2>1, LenProperties DEF ClientOK, NeedLists
  <2>3. part' = NoPart /\ idx' = 1 /\ bpc' \in {"stop", "transfer"} /\ conn' = conn /\ conn > 0
    BY <1>1, <1>e DEF RecvNeed, Here, PlaceOK
  <2>4. QED
    BY <2>2, <2>3 DEF PlaceOK, PartialFirst, NoPart
<1>f. CASE SkipFile \/ FileSent
  <2>1. bpc' = "transfer" /\ part' = NoPart /\ idx' = idx + 1 /\ needs' = needs /\ conn' = conn
        /\ idx <= Len(needs) /\ conn > 0
    BY <1>1, <1>f DEF SkipFile, FileSent, NextFile, Here, PlaceOK, wireVars
  <2>2. QED
    BY <1>2, <2>1 DEF PlaceOK, PartialFirst, NoPart
<1>g. CASE OpenFile
  <2>1. needs[idx] \in Files
    BY <1>1, <1>g, NextNeeded DEF OpenFile
  <2>2. QED
    BY <1>1, <1>2, <1>g, <2>1 DEF OpenFile, Here, PlaceOK, PartialFirst
<1>h. CASE SendChunk
  BY <1>1, <1>h DEF SendChunk, Here, PlaceOK, PartialFirst
<1>i. CASE SendManifest \/ RecvNothingNeeded \/ RecvFails \/ SendFails \/ SendDone \/ RecvOk
           \/ AbortNoticed \/ ManifestAborted
  <2>1. bpc' \in {"off", "manifest", "need", "stop", "ok"} /\ conn' = conn
        /\ bpc \notin {"off", "connect"}
    BY <1>i DEF SendManifest, RecvNothingNeeded, RecvFails, Fail, SendFails, SendDone, RecvOk,
                AbortNoticed, EndAborted, ManifestAborted, End, Here
  <2>2. QED
    BY <1>a, <2>1
<1>j. QED
  BY <1>b, <1>c, <1>d, <1>e, <1>f, <1>g, <1>h, <1>i DEF ThreadStep, Negotiate, Transfer

LEMMA StepKeepsPartial ==
  ASSUME ClientInv, [BackupNext]_allVars
  PROVE  SessionOK' /\ PlaceOK' /\ PartialFirst'
<1>1. ClientOK /\ SessionOK /\ PlaceOK /\ PartialFirst
  BY DEF ClientInv
<1>2. CASE UNCHANGED << conn, session, threadVars >>
  BY <1>1, <1>2 DEF SessionOK, PlaceOK, PartialFirst, threadVars
<1>3. CASE ThreadStep
  BY <1>3, ThreadKeepsSession, ThreadKeepsPlace
<1>4. CASE SwitchOff
  BY <1>1, <1>4 DEF SwitchOff, diskVars, SessionOK, PlaceOK, PartialFirst
<1>5. CASE Start
  BY <1>1, <1>5 DEF Start, diskVars, wireVars, SessionOK, PlaceOK, PartialFirst
<1>6. CASE Abort
  BY <1>1, <1>6 DEF Abort, diskVars, wireVars, SessionOK, PlaceOK, PartialFirst
<1>7. CASE Boot \/ (\E f \in Files : Play(f)) \/ ScanStep
  BY <1>2, <1>7 DEF Boot, Play, ScanStep, ScanSaves, ScanDone, wireVars, diskVars
<1>8. CASE Server
  <2>1. UNCHANGED << session, threadVars >>
    BY <1>8 DEF Server, clientVars, threadVars
  <2>2. UNCHANGED conn
    BY <1>8 DEF Server, ServerStep, Serve, ResumeFails, Resume, Manifest, NoManifest,
         FileHeader, FileData, Done, AbortLine, Eof, wireVars
  <2>3. QED
    BY <1>2, <2>1, <2>2
<1>9. CASE Network \/ UNCHANGED allVars
  BY <1>2, <1>9 DEF Network, Lose, allVars, wireVars, clientVars, threadVars
<1>10. QED
  BY <1>3, <1>4, <1>5, <1>6, <1>7, <1>8, <1>9 DEF BackupNext, Client, Threads, ClientStep

LEMMA InitPartial == BackupInit => ClientInv
<1> SUFFICES ASSUME BackupInit PROVE ClientInv
  OBVIOUS
<1>1. WireOK
  <2>1. << >> \in Seq(ToServer) /\ << >> \in Seq(ToClient)
    OBVIOUS
  <2>2. QED
    BY <2>1, Sizes DEF BackupInit, WireInit, WireOK
<1>2. ClientOK
  BY Sizes, EmptyList DEF BackupInit, ClientInit, ClientOK, NoSession, NoSaves, NoPart, Versions
<1>3. ServerOK
  <2>1. Missing \in Entries
    <3>1. << >> \in Seq(Nat)
      OBVIOUS
    <3>2. QED
      BY <3>1, Sizes DEF Missing, Entries
  <2>2. QED
    BY <2>1, Sizes DEF BackupInit, ServerInit, ServerOK, NoMtimes
<1>4. SessionOK /\ PlaceOK /\ PartialFirst
  BY DEF BackupInit, ClientInit, SessionOK, PlaceOK, PartialFirst
<1>5. QED
  BY <1>1, <1>2, <1>3, <1>4 DEF ClientInv

LEMMA StepClientInv == ClientInv /\ [BackupNext]_allVars => ClientInv'
  BY StepKeepsTypes, StepKeepsPartial DEF ClientInv

(* Through aborts, crashes, boots and whatever the server answers, the     *)
(* client's data keep their types and a session its order.                 *)
THEOREM ClientInvariant == BackupSpec => []ClientInv
  BY InitPartial, StepClientInv, PTL DEF BackupSpec

(* The partial file always resumes first (dash_backup.c:8).                *)
THEOREM PartialAlwaysResumesFirst == BackupSpec => []PartialResumesFirst
<1>1. ClientInv => PartialResumesFirst
  BY DEF ClientInv, PartialFirst, PartialResumesFirst
<1>2. QED
  BY <1>1, ClientInvariant, PTL

(* Every variable keeps its type, for any saves, versions and connections. *)
LEMMA TypesAreTypes == ClientInv => BackupTypeOK
<1> SUFFICES ASSUME ClientInv PROVE BackupTypeOK
  OBVIOUS
<1>1. ClientOK /\ ServerOK
  BY DEF ClientInv
<1>2. Len(needs) <= Cardinality(Files) /\ Len(session.needs) <= Cardinality(Files)
  BY <1>1 DEF ClientOK, NeedLists
<1>3. \A f \in Files :
        latest[f].mtime \in -1..MaxVersion /\ temp[f].mtime \in -1..MaxVersion
  BY <1>1 DEF ServerOK, Entries
<1>4. pos.at \in 0..Chunks
  BY <1>1 DEF ClientOK
<1>5. QED
  BY <1>1, <1>2, <1>3, <1>4 DEF ClientOK, BackupTypeOK

THEOREM BackupTypeCorrect == BackupSpec => []BackupTypeOK
  BY TypesAreTypes, ClientInvariant, PTL

(***************************************************************************)
(* Connections that are served one after the other.                        *)
(***************************************************************************)

(* A connection is used from its number on; only the last is open, and     *)
(* only while there is a thread that talks.                                *)
LinksOK ==
  /\ \A k \in Conns : k > conn <=> link[k] = "unused"
  /\ \A k \in Conns : link[k] = "open" => k = conn /\ bpc \notin {"off", "connect"}
  /\ \A k \in Conns : k > conn => c2s[k] = << >> /\ s2c[k] = << >> /\ hpc[k] = "none"

(* A connection is served when all before it have been.                    *)
OneServed ==
  \A j, k \in Conns : j < k /\ hpc[k] # "none" => hpc[j] \in {"gone", "crashed"}

(* An offset within what the server has of a file.                         *)
Fits(f, off) == f \in Files => off <= Len(temp[f].data)

(* A resumption has been asked for, is granted, is refused, or has failed. *)
Asked ==
  /\ c2s[conn] = << [t |-> "RESUME", path |-> part.path] >> /\ s2c[conn] = << >>
  /\ hpc[conn] \in {"none", "first"}

Granted ==
  /\ link[conn] = "open" /\ c2s[conn] = << >> /\ hpc[conn] = "files"
  /\ s2c[conn] # << >> /\ Head(s2c[conn]).t = "GO"
  /\ Fits(part.path, Head(s2c[conn]).off)

Refused ==
  /\ link[conn] = "open" /\ c2s[conn] = << >> /\ hpc[conn] = "renew"
  /\ s2c[conn] # << >> /\ Head(s2c[conn]).t = "NEW"

Broken == link[conn] # "open" /\ s2c[conn] = << >>

Negotiating == bpc = "go" => Asked \/ Granted \/ Refused \/ Broken

(* Once it is granted, the server waits for the file.                      *)
AboutToResume ==
  bpc = "transfer" /\ part.path # Junk /\ link[conn] = "open" =>
    c2s[conn] = << >> /\ hpc[conn] = "files" /\ Fits(part.path, part.off)

(* A file that is sent from an offset on is the next that the server       *)
(* reads, and it has the file up to there.                                 *)
OffsetsHold ==
  \A k \in Conns : \A i \in DOMAIN c2s[k] :
    c2s[k][i].t = "FILE" /\ c2s[k][i].off > 0 =>
      i = 1 /\ hpc[k] = "files" /\ Fits(c2s[k][i].path, c2s[k][i].off)

NoHoles ==
  /\ \A f \in Files : There(temp[f]) \/ temp[f].data = << >>
  /\ \A k \in Conns :
       hpc[k] = "data" => recv[k].pos <= Len(temp[recv[k].file].data)

ServedInv ==
  /\ ClientInv /\ LinksOK /\ OneServed /\ Negotiating /\ AboutToResume /\ OffsetsHold
  /\ NoHoles

(* Two connections are never served at a time.                             *)
LEMMA Alone ==
  ASSUME OneServed, NEW j \in Conns, NEW k \in Conns,
         hpc[j] \notin {"none", "gone", "crashed"},
         hpc[k] \notin {"none", "gone", "crashed"}
  PROVE  j = k
<1>1. j < k \/ k < j \/ j = k
  BY DEF Conns
<1>2. QED
  BY <1>1 DEF OneServed

LEMMA StepKeepsLinks ==
  ASSUME ServedInv, [BackupNext]_allVars
  PROVE  LinksOK'
<1>0. WireOK /\ LinksOK /\ ServerOK /\ PlaceOK /\ conn \in Nat
      /\ (bpc \notin {"off", "connect"} => conn \in Conns)
  BY Talking DEF ServedInv, ClientInv, WireOK
<1>00. LinksOK /\ link \in [Conns -> {"unused", "open", "closed", "lost"}]
       /\ c2s \in [Conns -> Seq(ToServer)] /\ s2c \in [Conns -> Seq(ToClient)]
       /\ Conns \subseteq Nat /\ conn \in Nat
       /\ hpc \in [Conns -> {"none", "first", "renew", "files", "data", "gone", "crashed"}]
  BY <1>0 DEF WireOK, ServerOK, Conns
<1>a. CASE /\ UNCHANGED << conn, link, hpc >> /\ conn \in Conns
           /\ \A k \in Conns : k # conn => c2s'[k] = c2s[k] /\ s2c'[k] = s2c[k]
           /\ bpc' \notin {"off", "connect"}
  BY <1>00, <1>a DEF LinksOK
<1>b. CASE /\ UNCHANGED << conn, hpc >> /\ conn \in Conns
           /\ \A k \in Conns : k # conn => c2s'[k] = c2s[k] /\ s2c'[k] = s2c[k]
           /\ \E l \in {"closed", "lost"} :
                link' = [link EXCEPT ![conn] = IF link[conn] = "open" THEN l ELSE @]
  BY <1>00, <1>b DEF LinksOK
<1>c. CASE UNCHANGED << conn, link, hpc, c2s, s2c >> /\ (bpc' \in {"off", "connect"} => bpc' = bpc)
  BY <1>00, <1>c DEF LinksOK
<1>d. CASE Network
  <2>1. PICK k \in Conns : Lose(k)
    BY <1>d DEF Network
  <2>2. k <= conn /\ conn' = conn /\ link' = [link EXCEPT ![k] = "lost"] /\ hpc' = hpc
        /\ \A j \in Conns : j # k => c2s'[j] = c2s[j] /\ s2c'[j] = s2c[j]
        /\ bpc' = bpc
    <3>1. bpc' = bpc /\ hpc' = hpc
      BY <1>d DEF Network, clientVars, serverVars
    <3>2. \A j \in Conns : j # k => c2s'[j] = c2s[j] /\ s2c'[j] = s2c[j]
      BY <1>00, <2>1 DEF Lose
    <3>3. link[k] # "unused" /\ conn' = conn /\ link' = [link EXCEPT ![k] = "lost"]
      BY <2>1 DEF Lose
    <3>4. k <= conn
      BY <1>00, <3>3 DEF LinksOK
    <3>5. QED
      BY <3>1, <3>2, <3>3, <3>4
  <2>3. QED
    BY <1>00, <2>2 DEF LinksOK
<1>e. CASE Server
  <2>1. PICK k \in Conns :
        \/ Serve(k) \/ ResumeFails(k) \/ Resume(k) \/ Manifest(k) \/ NoManifest(k)
        \/ FileHeader(k) \/ FileData(k) \/ Done(k) \/ AbortLine(k) \/ Eof(k)
    BY <1>e DEF Server, ServerStep
  <2>2. link[k] # "unused"
    BY <1>00, <2>1 DEF LinksOK, Serve, ResumeFails, Resume, Manifest, NoManifest, FileHeader,
         FileData, Done, AbortLine, Eof, Gets
  <2>3. conn' = conn /\ bpc' = bpc
    BY <1>e, <2>1 DEF Server, Serve, ResumeFails, Resume, Manifest, NoManifest, FileHeader,
         FileData, Done, AbortLine, Eof, wireVars, clientVars
  <2>4. link' = link \/ link' = [link EXCEPT ![k] = "lost"]
    BY <2>1 DEF Serve, ResumeFails, Resume, Manifest, NoManifest, FileHeader,
         FileData, Done, AbortLine, Eof, wireVars
  <2>5. \A j \in Conns : j # k => hpc'[j] = hpc[j]
    BY <1>00, <2>1 DEF Serve, ResumeFails, Resume, Manifest, NoManifest, FileHeader,
         FileData, Done, AbortLine, Eof
  <2>6. \A j \in Conns : j # k => c2s'[j] = c2s[j]
    BY <1>00, <2>1 DEF Serve, ResumeFails, Resume, Manifest, NoManifest, FileHeader,
         FileData, Done, AbortLine, Eof, Taken, wireVars
  <2>7. \A j \in Conns : j # k => s2c'[j] = s2c[j]
    BY <1>00, <2>1 DEF Serve, ResumeFails, Resume, Manifest, NoManifest, FileHeader,
         FileData, Done, AbortLine, Eof, Reply, wireVars
  <2>8. QED
    BY <1>00, <2>2, <2>3, <2>4, <2>5, <2>6, <2>7 DEF LinksOK
<1>f. CASE SwitchOff /\ UNCHANGED serverVars
  <2>1. CASE conn > 0 /\ link[conn] = "open"
    <3>1. conn \in Conns
      BY <1>0, <2>1, Sizes DEF WireOK, Conns
    <3>2. Lose(conn) /\ hpc' = hpc
      BY <1>f, <2>1 DEF SwitchOff, serverVars
    <3>3. QED
      BY <1>00, <1>b, <2>1, <3>1, <3>2 DEF Lose
  <2>2. CASE ~(conn > 0 /\ link[conn] = "open")
    <3>1. UNCHANGED << conn, link, hpc, c2s, s2c >>
      BY <1>f, <2>2 DEF SwitchOff, serverVars, wireVars
    <3>2. \A k \in Conns : link[k] # "open"
      BY <1>00, <2>2 DEF LinksOK, Conns
    <3>3. QED
      BY <1>00, <3>1, <3>2 DEF LinksOK
  <2>3. QED
    BY <2>1, <2>2
<1>g. CASE Start /\ UNCHANGED serverVars
  BY <1>00, <1>g DEF Start, wireVars, serverVars, LinksOK
<1>h. CASE (Boot \/ (\E f \in Files : Play(f)) \/ Abort \/ ScanStep) /\ UNCHANGED serverVars
  BY <1>c, <1>h DEF Boot, Play, Abort, ScanStep, ScanSaves, ScanDone, wireVars, threadVars, serverVars
<1>i. CASE ThreadStep /\ UNCHANGED serverVars
  <2>1. hpc' = hpc
    BY <1>i DEF serverVars
  <2>2. CASE Unreachable
    BY <1>00, <2>1, <2>2 DEF Unreachable, Here, wireVars, LinksOK
  <2>3. CASE Connect
    <3>1. conn + 1 \in Conns /\ conn' = conn + 1 /\ bpc' \notin {"off", "connect"} /\ s2c' = s2c
          /\ link' = [link EXCEPT ![conn + 1] = "open"]
          /\ \A k \in Conns : k # conn + 1 => c2s'[k] = c2s[k]
      <4>1. conn + 1 \in Conns
        BY <1>0, <2>3, Sizes DEF Connect, Here, PlaceOK, Conns
      <4>2. conn' = conn + 1 /\ bpc' \notin {"off", "connect"} /\ s2c' = s2c
            /\ link' = [link EXCEPT ![conn + 1] = "open"]
        BY <2>3 DEF Connect
      <4>3. c2s' = c2s \/ \E x : c2s' = [c2s EXCEPT ![conn + 1] = x]
        BY <2>3 DEF Connect
      <4>4. QED
        BY <1>00, <4>1, <4>2, <4>3
    <3>2. \A k \in Conns : link[k] # "open"
      BY <1>00, <2>3 DEF LinksOK, Connect, Here
    <3>3. \A k \in Conns : (k > conn + 1 <=> k > conn /\ k # conn + 1)
      BY <1>00
    <3>4. link'[conn + 1] = "open" /\ \A k \in Conns : k # conn + 1 => link'[k] = link[k]
      BY <1>00, <3>1
    <3>5. ~(conn + 1 > conn + 1)
      BY <1>00
    <3>6. \A k \in Conns : k > conn' <=> link'[k] = "unused"
      BY <1>00, <3>1, <3>3, <3>4, <3>5 DEF LinksOK
    <3>7. QED
      BY <1>00, <2>1, <3>1, <3>2, <3>3, <3>4, <3>5, <3>6 DEF LinksOK
  <2>4. CASE bpc \notin {"off", "connect"} /\ ~Unreachable /\ ~Connect
    <3>1. conn \in Conns
      BY <1>0, <2>4
    <3>2. conn' = conn /\ (link' = link \/ link' = Closed)
      BY <1>i, <2>4 DEF ThreadStep, Negotiate, Transfer, RecvGo, SendManifest,
         RecvNothingNeeded, RecvNeed, RecvFails, Fail, SkipFile, OpenFile, SendChunk,
         FileSent, SendFails, SendDone, RecvOk, AbortNoticed, EndAborted, ManifestAborted, End, wireVars
    <3>3. \A k \in Conns : k # conn => c2s'[k] = c2s[k]
      BY <1>00, <1>i, <2>4 DEF ThreadStep, Negotiate, Transfer, RecvGo, SendManifest,
         RecvNothingNeeded, RecvNeed, RecvFails, Fail, SkipFile, OpenFile, SendChunk,
         FileSent, SendFails, SendDone, RecvOk, AbortNoticed, EndAborted, ManifestAborted, Says, wireVars
    <3>4. \A k \in Conns : k # conn => s2c'[k] = s2c[k]
      BY <1>00, <1>i, <2>4 DEF ThreadStep, Negotiate, Transfer, RecvGo, SendManifest,
         RecvNothingNeeded, RecvNeed, RecvFails, Fail, SkipFile, OpenFile, SendChunk,
         FileSent, SendFails, SendDone, RecvOk, AbortNoticed, EndAborted, ManifestAborted, Heard, wireVars
    <3>5. link' = link => bpc' \notin {"off", "connect"} \/ link' = Closed
      BY <1>i, <2>4 DEF ThreadStep, Negotiate, Transfer, RecvGo, SendManifest,
         RecvNothingNeeded, RecvNeed, RecvFails, Fail, SkipFile, OpenFile, SendChunk,
         FileSent, SendFails, SendDone, RecvOk, AbortNoticed, EndAborted, ManifestAborted, End, NextFile, Here
    <3>6. CASE link' = Closed
      BY <1>b, <2>1, <3>1, <3>2, <3>3, <3>4, <3>6 DEF Closed, Linked
    <3>7. CASE link' = link /\ bpc' \notin {"off", "connect"}
      BY <1>a, <2>1, <3>1, <3>2, <3>3, <3>4, <3>7
    <3>8. QED
      BY <3>2, <3>5, <3>6, <3>7
  <2>5. QED
    BY <1>i, <2>2, <2>3, <2>4 DEF ThreadStep, Negotiate, Transfer, RecvGo, SendManifest,
         RecvNothingNeeded, RecvNeed, RecvFails, SkipFile, OpenFile, SendChunk,
         FileSent, SendFails, SendDone, RecvOk, AbortNoticed, ManifestAborted, Here
<1>j. CASE UNCHANGED allVars
  BY <1>c, <1>j DEF allVars, wireVars, clientVars, serverVars
<1>k. QED
  BY <1>d, <1>e, <1>f, <1>g, <1>h, <1>i, <1>j DEF BackupNext, Client, Threads, ClientStep

ServerAct(k) ==
  \/ Serve(k) \/ ResumeFails(k) \/ Resume(k) \/ Manifest(k) \/ NoManifest(k)
  \/ FileHeader(k) \/ FileData(k) \/ Done(k) \/ AbortLine(k) \/ Eof(k)

(* What a step of the server's thread for one connection leaves alone.     *)
LEMMA ServerActs ==
  ASSUME WireOK, ServerOK, NEW k \in Conns, ServerAct(k)
  PROVE  /\ conn' = conn
         /\ \A j \in Conns : j # k => c2s'[j] = c2s[j] /\ s2c'[j] = s2c[j]
                                      /\ link'[j] = link[j] /\ hpc'[j] = hpc[j] /\ recv'[j] = recv[j]
         /\ hpc[k] \notin {"gone", "crashed"} /\ hpc'[k] # "none"
         /\ hpc[k] \notin {"files", "data"} => temp' = temp
         /\ c2s[k] # << >> \/ c2s'[k] = << >>
         /\ c2s'[k] = c2s[k] \/ c2s'[k] = << >> \/ (c2s[k] # << >> /\ c2s'[k] = Tail(c2s[k]))
<1> USE DEF ServerAct
<1>1. /\ c2s \in [Conns -> Seq(ToServer)] /\ s2c \in [Conns -> Seq(ToClient)]
      /\ link \in [Conns -> {"unused", "open", "closed", "lost"}]
      /\ hpc \in [Conns -> {"none", "first", "renew", "files", "data", "gone", "crashed"}]
      /\ recv \in [Conns -> [file : Files \cup {Junk}, left : Int, pos : Nat]]
  BY DEF WireOK, ServerOK
<1>2. conn' = conn /\ hpc[k] \notin {"gone", "crashed"}
      /\ (hpc[k] \notin {"files", "data"} => temp' = temp)
  BY DEF Serve, ResumeFails, Resume, Manifest, NoManifest, FileHeader, FileData, Done,
         AbortLine, Eof, wireVars
<1>3. \A j \in Conns : j # k => hpc'[j] = hpc[j]
  BY <1>1 DEF Serve, ResumeFails, Resume, Manifest, NoManifest, FileHeader, FileData, Done,
         AbortLine, Eof
<1>4. hpc'[k] # "none"
  BY <1>1 DEF Serve, ResumeFails, Resume, Manifest, NoManifest, FileHeader, FileData, Done,
         AbortLine, Eof
<1>5. \A j \in Conns : j # k => link'[j] = link[j]
  BY <1>1 DEF Serve, ResumeFails, Resume, Manifest, NoManifest, FileHeader, FileData, Done,
         AbortLine, Eof, wireVars
<1>6. \A j \in Conns : j # k => c2s'[j] = c2s[j]
  BY <1>1 DEF Serve, ResumeFails, Resume, Manifest, NoManifest, FileHeader, FileData, Done,
         AbortLine, Eof, Taken, wireVars
<1>7. \A j \in Conns : j # k => s2c'[j] = s2c[j]
  BY <1>1 DEF Serve, ResumeFails, Resume, Manifest, NoManifest, FileHeader, FileData, Done,
         AbortLine, Eof, Reply, wireVars
<1>8. \A j \in Conns : j # k => recv'[j] = recv[j]
  <2>1. CASE FileData(k)
    <3>1. recv' = [recv EXCEPT ![k].left = @ - 1, ![k].pos = @ + 1]
      BY <2>1 DEF FileData
    <3>2. recv \in [Conns -> [file : Files \cup {Junk}, left : Int, pos : Nat]]
      BY <1>1
    <3>3. \A j \in Conns : [recv EXCEPT ![k].left = @ - 1, ![k].pos = @ + 1][j].file = recv[j].file
            /\ (j # k => [recv EXCEPT ![k].left = @ - 1, ![k].pos = @ + 1][j] = recv[j])
      BY <3>2, OneMore, Zenon
    <3>4. QED
      BY <3>1, <3>3
  <2>2. CASE ~FileData(k)
    BY <1>1, <2>2 DEF Serve, ResumeFails, Resume, Manifest, NoManifest, FileHeader, Done,
         AbortLine, Eof
  <2>3. QED
    BY <2>1, <2>2
<1>9. \/ Serve(k) /\ c2s' = c2s
      \/ Eof(k) /\ c2s' = c2s /\ c2s[k] = << >>
      \/ ResumeFails(k) /\ c2s' = [c2s EXCEPT ![k] = << >>] /\ c2s[k] # << >>
      \/ c2s' = Taken(k) /\ c2s[k] # << >>
  BY DEF Serve, ResumeFails, Resume, Manifest, NoManifest, FileHeader, FileData, Done,
         AbortLine, Eof, Gets, wireVars
<1>10. c2s'[k] = c2s[k] \/ c2s'[k] = << >> \/ (c2s[k] # << >> /\ c2s'[k] = Tail(c2s[k]))
  BY <1>1, <1>9 DEF Taken
<1>11. c2s[k] # << >> \/ c2s'[k] = << >>
  BY <1>1, <1>9
<1>12. QED
  BY <1>2, <1>3, <1>4, <1>5, <1>6, <1>7, <1>8, <1>10, <1>11

(* The answers to the first line; with nothing to read the server waits.   *)
LEMMA ServerAnswers ==
  ASSUME WireOK, ServerOK, NEW k \in Conns, ServerAct(k)
  PROVE  /\ c2s[k] = << >> /\ link[k] = "open" => hpc[k] = "none"
         /\ link[k] # "open" => s2c'[k] = s2c[k] /\ link'[k] # "open"
         /\ hpc[k] = "none" => hpc'[k] = "first" /\ UNCHANGED wireVars
         /\ ResumeFails(k) => s2c'[k] = s2c[k] /\ link'[k] # "open"
         /\ link'[k] = link[k] \/ ResumeFails(k)
<1> USE DEF ServerAct
<1>1. /\ c2s \in [Conns -> Seq(ToServer)] /\ s2c \in [Conns -> Seq(ToClient)]
      /\ link \in [Conns -> {"unused", "open", "closed", "lost"}]
      /\ hpc \in [Conns -> {"none", "first", "renew", "files", "data", "gone", "crashed"}]
  BY DEF WireOK, ServerOK
<1>2. c2s[k] = << >> /\ link[k] = "open" => hpc[k] = "none"
  BY DEF Serve, ResumeFails, Resume, Manifest, NoManifest, FileHeader, FileData, Done,
         AbortLine, Eof, Gets
<1>3. link' = link \/ (ResumeFails(k) /\ link' = [link EXCEPT ![k] = "lost"])
  BY DEF Serve, ResumeFails, Resume, Manifest, NoManifest, FileHeader, FileData, Done,
         AbortLine, Eof, wireVars
<1>4. link[k] # "open" => s2c'[k] = s2c[k]
  BY <1>1 DEF Serve, ResumeFails, Resume, Manifest, NoManifest, FileHeader, FileData, Done,
         AbortLine, Eof, Reply, wireVars
<1>5. hpc[k] = "none" => hpc'[k] = "first" /\ UNCHANGED wireVars
  BY <1>1 DEF Serve, ResumeFails, Resume, Manifest, NoManifest, FileHeader, FileData, Done,
         AbortLine, Eof
<1>6. ResumeFails(k) => s2c'[k] = s2c[k] /\ link'[k] # "open"
  BY <1>1 DEF ResumeFails
<1>7. QED
  BY <1>1, <1>2, <1>3, <1>4, <1>5, <1>6

LEMMA ServerKeepsOrder ==
  ASSUME Overlap = FALSE, ServedInv, NEW k \in Conns, ServerAct(k)
  PROVE  OneServed'
<1>1. WireOK /\ ServerOK /\ OneServed
  BY DEF ServedInv, ClientInv
<1>2. /\ \A j \in Conns : j # k => hpc'[j] = hpc[j]
      /\ hpc[k] \notin {"gone", "crashed"} /\ hpc'[k] # "none"
  BY <1>1, ServerActs
<1>3. hpc[k] = "none" => \A j \in 1..(k - 1) : hpc[j] \in {"gone", "crashed"}
  BY DEF ServerAct, Serve, ResumeFails, Resume, Manifest, NoManifest, FileHeader, FileData,
         Done, AbortLine, Eof
<1>4. SUFFICES ASSUME NEW i \in Conns, NEW j \in Conns, i < j, hpc'[j] # "none"
               PROVE  hpc'[i] \in {"gone", "crashed"}
  BY DEF OneServed
<1>5. CASE i # k /\ j # k
  BY <1>1, <1>2, <1>4, <1>5 DEF OneServed
<1>6. CASE i = k
  <2>1. j # k
    BY <1>4, <1>6 DEF Conns
  <2>2. QED
    BY <1>1, <1>2, <1>4, <1>6, <2>1 DEF OneServed
<1>7. CASE j = k
  <2>1. CASE hpc[k] # "none"
    BY <1>1, <1>2, <1>4, <1>7, <2>1 DEF OneServed
  <2>2. CASE hpc[k] = "none"
    <3>1. i \in 1..(k - 1)
      BY <1>4, <1>7 DEF Conns
    <3>2. QED
      BY <1>2, <1>3, <1>4, <1>7, <2>2, <3>1
  <2>3. QED
    BY <2>1, <2>2
<1>8. QED
  BY <1>5, <1>6, <1>7

(* Nothing is written to temp while another connection waits for a file.   *)
LEMMA TempStays ==
  ASSUME ServedInv, NEW k \in Conns, ServerAct(k), NEW j \in Conns, j # k,
         hpc[j] = "files"
  PROVE  temp' = temp
<1>1. WireOK /\ ServerOK /\ OneServed
  BY DEF ServedInv, ClientInv
<1>2. hpc[k] \notin {"files", "data"}
  BY <1>1, Alone
<1>3. QED
  BY <1>1, <1>2, ServerActs

LEMMA ServerKeepsTalk ==
  ASSUME ServedInv, NEW k \in Conns, ServerAct(k), UNCHANGED clientVars
  PROVE  Negotiating' /\ AboutToResume'
<1>1. WireOK /\ ServerOK /\ OneServed /\ Negotiating /\ AboutToResume
      /\ (bpc \notin {"off", "connect"} => conn \in Conns)
  BY Talking DEF ServedInv, ClientInv
<1>2. /\ conn' = conn
      /\ \A j \in Conns : j # k => c2s'[j] = c2s[j] /\ s2c'[j] = s2c[j]
                                   /\ link'[j] = link[j] /\ hpc'[j] = hpc[j]
  BY <1>1, ServerActs
<1>3. bpc' = bpc /\ part' = part /\ needs' = needs
  BY DEF clientVars
<1>4. AboutToResume'
  <2>1. SUFFICES ASSUME bpc = "transfer", part.path # Junk, link'[conn] = "open"
                 PROVE  c2s'[conn] = << >> /\ hpc'[conn] = "files" /\ Fits(part.path, part.off)'
    BY <1>2, <1>3 DEF AboutToResume
  <2>2. conn \in Conns /\ link[conn] = "open"
    BY <1>1, <1>2, <2>1, ServerAnswers
  <2>3. c2s[conn] = << >> /\ hpc[conn] = "files" /\ Fits(part.path, part.off)
    BY <1>1, <2>1, <2>2 DEF AboutToResume
  <2>4. k # conn
    BY <1>1, <2>2, <2>3, ServerAnswers
  <2>5. temp' = temp
    BY <2>2, <2>3, <2>4, TempStays
  <2>6. QED
    BY <1>2, <1>3, <2>2, <2>3, <2>4, <2>5 DEF Fits
<1>5. Negotiating'
  <2>1. SUFFICES ASSUME bpc = "go" PROVE Asked' \/ Granted' \/ Refused' \/ Broken'
    BY <1>3 DEF Negotiating
  <2>2. conn \in Conns /\ (Asked \/ Granted \/ Refused \/ Broken)
    BY <1>1, <2>1 DEF Negotiating
  <2>3. CASE k # conn
    <3>1. Granted => temp' = temp
      BY <2>2, <2>3, TempStays DEF Granted
    <3>2. Granted => Granted'
      BY <1>2, <1>3, <2>2, <2>3, <3>1 DEF Granted, Fits
    <3>3. (Asked => Asked') /\ (Refused => Refused') /\ (Broken => Broken')
      BY <1>2, <1>3, <2>2, <2>3 DEF Asked, Refused, Broken
    <3>4. QED
      BY <2>2, <3>2, <3>3
  <2>4. CASE k = conn /\ Broken
    BY <1>1, <1>2, <2>2, <2>4, ServerAnswers DEF Broken
  <2>5. CASE k = conn /\ (Granted \/ Refused)
    BY <1>1, <2>2, <2>5, ServerAnswers DEF Granted, Refused
  <2>6. CASE k = conn /\ Asked
    <3>1. CASE hpc[k] = "none"
      <4>1. hpc'[k] = "first" /\ UNCHANGED wireVars
        BY <1>1, <3>1, ServerAnswers
      <4>2. QED
        BY <1>3, <2>6, <4>1 DEF Asked, wireVars
    <3>2. CASE ResumeFails(k)
      BY <1>1, <1>2, <2>6, <3>2, ServerAnswers DEF Asked, Broken
    <3>3. CASE link[k] # "open"
      BY <1>1, <1>2, <2>6, <3>3, ServerAnswers DEF Asked, Broken
    <3>4. CASE hpc[k] # "none" /\ ~ResumeFails(k) /\ link[k] = "open"
      <4> DEFINE m == [t |-> "RESUME", path |-> part.path]
      <4>1. hpc[k] = "first" /\ c2s[k] = << m >> /\ s2c[k] = << >>
        BY <2>6, <3>4 DEF Asked
      <4>2. c2s[k] # << >> /\ Head(c2s[k]).t = "RESUME" /\ Head(c2s[k]).path = part.path
            /\ Tail(c2s[k]) = << >>
        BY <4>1
      <4>3. Resume(k)
        BY <3>4, <4>1, <4>2 DEF ServerAct, Serve, Manifest, NoManifest, FileHeader, FileData,
                                Done, AbortLine, Eof, Gets
      <4>4. c2s'[k] = << >> /\ link' = link /\ temp' = temp
        BY <1>1, <4>2, <4>3 DEF Resume, Taken, WireOK
      <4>5. \A x : s2c' = Reply(k, x) => s2c'[k] = << x >>
        BY <1>1, <3>4, <4>1 DEF Reply, WireOK
      <4>6. CASE saved
        <5> DEFINE off == IF part.path \in Files THEN Len(temp[part.path].data) ELSE 0
        <5>1. s2c' = Reply(k, [t |-> "GO", off |-> off]) /\ hpc' = [hpc EXCEPT ![k] = "files"]
          BY <4>2, <4>3, <4>6 DEF Resume
        <5>2. s2c'[k] = << [t |-> "GO", off |-> off] >> /\ hpc'[k] = "files"
          BY <1>1, <4>5, <5>1 DEF ServerOK
        <5>3. s2c'[k] # << >> /\ Head(s2c'[k]).t = "GO" /\ Head(s2c'[k]).off = off
          <6> HIDE DEF off
          <6>1. QED
            BY <5>2
        <5>4. part.path \in Files => Len(temp[part.path].data) \in Nat
          <6>1. part.path \in Files => temp[part.path].data \in Seq(Nat)
            BY <1>1 DEF ServerOK, Entries
          <6>2. QED
            BY <6>1, LenProperties
        <5>5. Fits(part.path, off)
          BY <5>4 DEF Fits
        <5>6. Granted'
          <6> HIDE DEF off
          <6>1. QED
            BY <1>2, <1>3, <2>6, <3>4, <4>4, <5>2, <5>3, <5>5 DEF Granted, Fits
        <5>7. QED
          BY <5>6
      <4>7. CASE ~saved
        <5>1. s2c' = Reply(k, [t |-> "NEW"]) /\ hpc' = [hpc EXCEPT ![k] = "renew"]
          BY <4>3, <4>7 DEF Resume
        <5>2. s2c'[k] = << [t |-> "NEW"] >> /\ hpc'[k] = "renew"
          BY <1>1, <4>5, <5>1 DEF ServerOK
        <5>3. s2c'[k] # << >> /\ Head(s2c'[k]).t = "NEW"
          BY <5>2
        <5>4. QED
          BY <1>2, <1>3, <2>6, <3>4, <4>4, <5>2, <5>3 DEF Refused
      <4>8. QED
        BY <4>6, <4>7
    <3>5. QED
      BY <3>1, <3>2, <3>3, <3>4
  <2>7. QED
    BY <2>2, <2>3, <2>4, <2>5, <2>6
<1>6. QED
  BY <1>4, <1>5

LEMMA ServerKeepsOffsets ==
  ASSUME ServedInv, NEW k \in Conns, ServerAct(k)
  PROVE  OffsetsHold'
<1>1. WireOK /\ ServerOK /\ OneServed /\ OffsetsHold
  BY DEF ServedInv, ClientInv
<1>2. /\ \A j \in Conns : j # k => c2s'[j] = c2s[j] /\ hpc'[j] = hpc[j]
      /\ c2s'[k] = c2s[k] \/ c2s'[k] = << >> \/ (c2s[k] # << >> /\ c2s'[k] = Tail(c2s[k]))
  BY <1>1, ServerActs
<1>3. SUFFICES ASSUME NEW j \in Conns, NEW i \in DOMAIN c2s'[j],
                      c2s'[j][i].t = "FILE", c2s'[j][i].off > 0
               PROVE  i = 1 /\ hpc'[j] = "files" /\ Fits(c2s[j][i].path, c2s[j][i].off)'
  BY DEF OffsetsHold
<1>4. CASE j # k
  <2>1. i = 1 /\ hpc[j] = "files" /\ Fits(c2s[j][i].path, c2s[j][i].off)
    BY <1>1, <1>2, <1>3, <1>4 DEF OffsetsHold
  <2>2. temp' = temp
    BY <1>4, <2>1, TempStays
  <2>3. QED
    BY <1>2, <1>4, <2>1, <2>2 DEF Fits
<1>5. CASE j = k
  <2>1. c2s[k] \in Seq(ToServer)
    BY <1>1 DEF WireOK
  <2>2. CASE c2s'[k] = << >>
    BY <1>3, <1>5, <2>2
  <2>3. CASE c2s[k] # << >> /\ c2s'[k] = Tail(c2s[k])
    <3>1. Len(Tail(c2s[k])) = Len(c2s[k]) - 1 /\ Len(c2s[k]) \in Nat
          /\ \A n \in 1..Len(Tail(c2s[k])) : Tail(c2s[k])[n] = c2s[k][n + 1]
          /\ Tail(c2s[k]) \in Seq(ToServer)
      BY <2>1, <2>3, HeadTailProperties, LenProperties
    <3>2. i \in 1..Len(Tail(c2s[k]))
      BY <1>3, <1>5, <2>3, <3>1, LenProperties
    <3>3. i + 1 \in DOMAIN c2s[k] /\ i + 1 # 1 /\ c2s'[k][i] = c2s[k][i + 1]
      BY <2>1, <2>3, <3>1, <3>2, LenProperties
    <3>4. QED
      BY <1>1, <1>3, <1>5, <3>3 DEF OffsetsHold
  <2>4. CASE c2s'[k] = c2s[k] /\ c2s[k] # << >> /\ c2s'[k] # Tail(c2s[k])
    <3>1. hpc[k] = "none" /\ hpc[k] # "files"
      BY <1>1, <2>4 DEF ServerAct, Serve, ResumeFails, Resume, Manifest, NoManifest,
         FileHeader, FileData, Done, AbortLine, Eof, Taken, WireOK
    <3>2. QED
      BY <1>1, <1>3, <1>5, <2>4, <3>1 DEF OffsetsHold
  <2>5. QED
    BY <1>2, <2>2, <2>3, <2>4
<1>6. QED
  BY <1>4, <1>5

LEMMA ServerKeepsHoles ==
  ASSUME ServedInv, NEW k \in Conns, ServerAct(k)
  PROVE  NoHoles'
<1>1. WireOK /\ ServerOK /\ OneServed /\ OffsetsHold /\ NoHoles
  BY DEF ServedInv, ClientInv
<1>2. \A j \in Conns : j # k => hpc'[j] = hpc[j] /\ recv'[j] = recv[j]
  BY <1>1, ServerActs
<1>3. temp \in [Files -> Entries]
      /\ hpc \in [Conns -> {"none", "first", "renew", "files", "data", "gone", "crashed"}]
      /\ recv \in [Conns -> [file : Files \cup {Junk}, left : Int, pos : Nat]]
  BY <1>1 DEF ServerOK
<1>4. \A f \in Files : temp[f].data \in Seq(Nat) /\ Len(temp[f].data) \in Nat
  BY <1>3, LenProperties DEF Entries
<1>5. hpc[k] \notin {"none", "gone", "crashed"} =>
        \A j \in Conns : hpc[j] = "data" => j = k
  BY <1>1, Alone
<1>a. CASE hpc[k] \notin {"files", "data"}
  <2>1. temp' = temp
    BY <1>1, <1>a, ServerActs
  <2>2. hpc'[k] # "data"
    BY <1>3, <1>a DEF ServerAct, Serve, ResumeFails, Resume, Manifest, NoManifest,
         FileHeader, FileData, Done, AbortLine, Eof
  <2>3. QED
    BY <1>1, <1>2, <2>1, <2>2 DEF NoHoles
<1>b. CASE AbortLine(k) \/ Eof(k)
  <2>1. temp' = temp /\ hpc' = [hpc EXCEPT ![k] = "gone"]
    BY <1>b DEF AbortLine, Eof
  <2>2. QED
    BY <1>1, <1>2, <1>3, <2>1 DEF NoHoles
<1>c. CASE Done(k)
  <2>1. hpc[k] = "files" /\ temp' = [f \in Files |-> Missing] /\ hpc' = [hpc EXCEPT ![k] = "gone"]
    BY <1>c DEF Done
  <2>2. \A j \in Conns : hpc'[j] # "data"
    BY <1>2, <1>3, <1>5, <2>1
  <2>3. \A f \in Files : temp'[f].data = << >>
    BY <2>1 DEF Missing
  <2>4. QED
    BY <2>2, <2>3 DEF NoHoles
<1>d. CASE FileHeader(k)
  <2> DEFINE m == Head(c2s[k])
             e == IF m.off > 0 /\ There(temp[m.path])
                  THEN temp[m.path] ELSE [data |-> << >>, mtime |-> 0]
             e2 == IF m.size = 0 THEN Stamped(k, m.path, e) ELSE e
  <2>1. c2s[k] # << >> /\ m \in ToServer /\ m.t = "FILE" /\ hpc[k] = "files"
    BY <1>1, <1>d, ChannelsStay DEF FileHeader, Gets
  <2>2. m.path \in Files /\ m.size \in 0..Chunks /\ m.off \in 0..Chunks
    BY <2>1, SaidToServer
  <2>3. m = c2s[k][1] /\ 1 \in DOMAIN c2s[k]
    <3>1. c2s[k] \in Seq(ToServer)
      BY <1>1 DEF WireOK
    <3>2. QED
      BY <2>1, <3>1, LenProperties, EmptySeq
  <2>4. m.off > 0 => m.off <= Len(temp[m.path].data)
    <3>1. m.off > 0 => Fits(m.path, m.off)
      BY <1>1, <2>1, <2>3, Zenon DEF OffsetsHold
    <3>2. QED
      BY <2>2, <3>1 DEF Fits
  <2>5. e \in Entries /\ There(e) /\ m.off <= Len(e.data)
    <3>1. << >> \in Seq(Nat) /\ Len(<< >>) = 0
      OBVIOUS
    <3>2. CASE m.off > 0
      <4>1. There(temp[m.path])
        BY <1>1, <1>4, <2>2, <2>4, <3>1, <3>2 DEF NoHoles
      <4>2. e = temp[m.path]
        BY <3>2, <4>1
      <4> HIDE DEF e
      <4>3. QED
        BY <1>3, <2>2, <2>4, <3>2, <4>1, <4>2
    <3>3. CASE ~(m.off > 0)
      <4>1. e = [data |-> << >>, mtime |-> 0] /\ m.off = 0
        BY <2>2, <3>3, Sizes
      <4> HIDE DEF e
      <4>2. QED
        BY <3>1, <4>1, Sizes DEF Entries, There
    <3>4. QED
      BY <3>2, <3>3
  <2>6. e2.data = e.data /\ There(e2)
    BY <1>1, <2>2, <2>5, StampedWell
  <2>7. /\ temp' = [temp EXCEPT ![m.path] = e2]
        /\ recv' = [recv EXCEPT ![k] = [file |-> m.path, left |-> m.size, pos |-> m.off]]
    BY <1>d DEF FileHeader
  <2> HIDE DEF e, e2, m
  <2>8. temp'[m.path] = e2 /\ \A f \in Files : f # m.path => temp'[f] = temp[f]
    BY <1>3, <2>2, <2>7
  <2>9. recv'[k].file = m.path /\ recv'[k].pos = m.off
    BY <1>3, <2>7
  <2>10. \A f \in Files : There(temp'[f]) \/ temp'[f].data = << >>
    BY <1>1, <2>6, <2>8 DEF NoHoles
  <2>11. \A j \in Conns : hpc'[j] = "data" => j = k
    BY <1>2, <1>5, <2>1
  <2>12. recv'[k].pos <= Len(temp'[recv'[k].file].data)
    BY <2>5, <2>6, <2>8, <2>9
  <2>13. QED
    BY <2>10, <2>11, <2>12 DEF NoHoles, There
<1>e. CASE FileData(k)
  <2> DEFINE r == recv[k]
             w == Written(temp[r.file].data, r.pos, Head(c2s[k]).v)
             e == [data |-> w, mtime |-> 0]
             e2 == IF r.left = 1 THEN Stamped(k, r.file, e) ELSE e
  <2>1. hpc[k] = "data" /\ r.file \in Files /\ r.pos \in Nat /\ c2s[k] # << >>
        /\ Head(c2s[k]).t = "data"
    BY <1>1, <1>e DEF FileData, ServerOK, Gets
  <2>2. Head(c2s[k]).v \in Nat /\ temp[r.file].data \in Seq(Nat)
    BY <1>1, <1>4, <2>1, SaidToServer, ChannelsStay, Sizes
  <2>3. w \in Seq(Nat) /\ Len(w) >= r.pos + 1
    BY <2>1, <2>2, ChunkWritten
  <2>4. e \in Entries /\ There(e) /\ e.data = w
    <3> HIDE DEF w
    <3>1. QED
      BY <2>3, Sizes DEF Entries, There
  <2>5. e2.data = w /\ There(e2)
    BY <1>1, <2>1, <2>4, StampedWell
  <2>6. /\ temp' = [temp EXCEPT ![r.file] = e2]
        /\ recv' = [recv EXCEPT ![k].left = @ - 1, ![k].pos = @ + 1]
    BY <1>e DEF FileData
  <2>7. recv'[k] = [file |-> r.file, left |-> r.left - 1, pos |-> r.pos + 1]
    <3>1. recv \in [Conns -> [file : Files \cup {Junk}, left : Int, pos : Nat]]
      BY <1>3
    <3>2. QED
      BY <2>6, <3>1, OneMore, Zenon
  <2> HIDE DEF e, e2, w
  <2>8. recv'[k].file = r.file /\ recv'[k].pos = r.pos + 1
    BY <2>7
  <2>9. temp'[r.file] = e2 /\ \A f \in Files : f # r.file => temp'[f] = temp[f]
    BY <1>3, <2>1, <2>6
  <2>10. \A f \in Files : There(temp'[f]) \/ temp'[f].data = << >>
    BY <1>1, <2>5, <2>9 DEF NoHoles
  <2>11. \A j \in Conns : hpc'[j] = "data" => j = k
    BY <1>2, <1>5, <2>1
  <2>12. recv'[k].pos <= Len(temp'[recv'[k].file].data)
    <3>1. Len(w) \in Nat
      BY <2>3, LenProperties
    <3>2. temp'[recv'[k].file].data = w
      BY <2>5, <2>8, <2>9
    <3>3. QED
      BY <2>1, <2>3, <2>8, <3>1, <3>2
  <2>13. QED
    BY <2>10, <2>11, <2>12 DEF NoHoles, There
<1>f. QED
  <2>1. ServerAct(k) => \/ hpc[k] \notin {"files", "data"}
                        \/ FileHeader(k) \/ FileData(k) \/ Done(k) \/ AbortLine(k) \/ Eof(k)
    BY DEF ServerAct, Serve, ResumeFails, Resume, Manifest, NoManifest
  <2>2. QED
    BY <2>1, <1>a, <1>b, <1>c, <1>d, <1>e

(* A channel that loses what is behind, or is given a message that holds.  *)
LEMMA OffsetsStay ==
  ASSUME ServedInv, UNCHANGED serverVars,
         \A j \in Conns : \A i \in DOMAIN c2s'[j] :
           \/ i \in DOMAIN c2s[j] /\ c2s'[j][i] = c2s[j][i]
           \/ c2s'[j][i].t # "FILE" \/ ~(c2s'[j][i].off > 0)
           \/ i = 1 /\ hpc[j] = "files"
                /\ (c2s'[j][i].path \in Files => c2s'[j][i].off <= Len(temp[c2s'[j][i].path].data))
  PROVE  OffsetsHold'
<1>1. hpc' = hpc /\ temp' = temp
  BY DEF serverVars
<1>2. OffsetsHold
  BY DEF ServedInv
<1>3. SUFFICES ASSUME NEW j \in Conns, NEW i \in DOMAIN c2s'[j],
                      c2s'[j][i].t = "FILE", c2s'[j][i].off > 0
               PROVE  i = 1 /\ hpc'[j] = "files" /\ Fits(c2s[j][i].path, c2s[j][i].off)'
  BY DEF OffsetsHold
<1>4. CASE i \in DOMAIN c2s[j] /\ c2s'[j][i] = c2s[j][i]
  BY <1>1, <1>2, <1>3, <1>4 DEF OffsetsHold, Fits
<1>5. CASE i = 1 /\ hpc[j] = "files"
             /\ (c2s'[j][i].path \in Files => c2s'[j][i].off <= Len(temp[c2s'[j][i].path].data))
  BY <1>1, <1>5 DEF Fits
<1>6. QED
  BY <1>3, <1>4, <1>5

(* The one file that is sent from an offset on.                            *)
SafeToSay(m) ==
  m.t = "FILE" /\ m.off > 0 =>
    c2s[conn] = << >> /\ hpc[conn] = "files" /\ Fits(m.path, m.off)

LEMMA SayKeepsOffsets ==
  ASSUME ServedInv, UNCHANGED serverVars, conn \in Conns, NEW m \in ToServer,
         c2s' = Says(m), link[conn] = "open" => SafeToSay(m)
  PROVE  OffsetsHold'
<1>1. c2s \in [Conns -> Seq(ToServer)] /\ c2s[conn] \in Seq(ToServer)
  BY DEF ServedInv, ClientInv, WireOK
<1>2. CASE link[conn] = "open"
  <2>1. c2s' = [c2s EXCEPT ![conn] = Append(@, m)]
    BY <1>2 DEF Says, Linked
  <2>2. \A j \in Conns : j # conn => c2s'[j] = c2s[j]
    BY <1>1, <2>1
  <2>3. c2s'[conn] = Append(c2s[conn], m)
    BY <1>1, <2>1
  <2>4. Len(Append(c2s[conn], m)) = Len(c2s[conn]) + 1 /\ Len(c2s[conn]) \in Nat
        /\ DOMAIN c2s[conn] = 1..Len(c2s[conn])
        /\ DOMAIN Append(c2s[conn], m) = 1..(Len(c2s[conn]) + 1)
        /\ \A i \in 1..Len(c2s[conn]) : Append(c2s[conn], m)[i] = c2s[conn][i]
        /\ Append(c2s[conn], m)[Len(c2s[conn]) + 1] = m
    BY <1>1, AppendProperties, LenProperties
  <2>5. \A i \in DOMAIN c2s'[conn] :
          \/ i \in DOMAIN c2s[conn] /\ c2s'[conn][i] = c2s[conn][i]
          \/ i = Len(c2s[conn]) + 1 /\ c2s'[conn][i] = m
    BY <2>3, <2>4
  <2>6. c2s[conn] = << >> => Len(c2s[conn]) + 1 = 1
    OBVIOUS
  <2>7. ASSUME NEW i \in DOMAIN c2s'[conn]
        PROVE  \/ i \in DOMAIN c2s[conn] /\ c2s'[conn][i] = c2s[conn][i]
               \/ c2s'[conn][i].t # "FILE" \/ ~(c2s'[conn][i].off > 0)
               \/ i = 1 /\ hpc[conn] = "files"
                  /\ (c2s'[conn][i].path \in Files =>
                        c2s'[conn][i].off <= Len(temp[c2s'[conn][i].path].data))
    <3>1. CASE i = Len(c2s[conn]) + 1 /\ c2s'[conn][i] = m
      BY <1>2, <2>6, <3>1 DEF SafeToSay, Fits
    <3>2. QED
      BY <2>5, <3>1
  <2>8. QED
    BY <2>2, <2>7, OffsetsStay
<1>3. CASE link[conn] # "open"
  <2>1. c2s' = c2s
    BY <1>1, <1>3 DEF Says, Linked
  <2>2. QED
    BY <2>1, OffsetsStay
<1>4. QED
  BY <1>2, <1>3

LEMMA SameKeepsOffsets ==
  ASSUME ServedInv, UNCHANGED serverVars, c2s' = c2s
  PROVE  OffsetsHold'
  BY OffsetsStay

LEMMA LoseKeepsOffsets ==
  ASSUME ServedInv, UNCHANGED serverVars, NEW k \in Conns, Lose(k)
  PROVE  OffsetsHold'
<1>1. c2s \in [Conns -> Seq(ToServer)] /\ c2s[k] \in Seq(ToServer)
  BY DEF ServedInv, ClientInv, WireOK
<1>2. PICK n \in 0..Len(c2s[k]) : c2s' = [c2s EXCEPT ![k] = SubSeq(@, 1, n)]
  BY DEF Lose
<1>3. Len(c2s[k]) \in Nat /\ DOMAIN c2s[k] = 1..Len(c2s[k]) /\ n \in Int /\ n <= Len(c2s[k]) /\ 1 \in Int
  BY <1>1, <1>2, LenProperties
<1>4. \A i \in 1..n : c2s[k][i] \in ToServer
  BY <1>1, <1>3, ElementOfSeq
<1> DEFINE p == SubSeq(c2s[k], 1, n)
<1>5. p \in Seq(ToServer) /\ Len(p) = (IF 1 <= n THEN n - 1 + 1 ELSE 0)
      /\ \A i \in 1..(n - 1 + 1) : p[i] = c2s[k][1 + i - 1]
  BY <1>3, <1>4, SubSeqProperties
<1>6. c2s'[k] = p /\ \A j \in Conns : j # k => c2s'[j] = c2s[j]
  BY <1>1, <1>2
<1> HIDE DEF p
<1>7. \A i \in DOMAIN p : i \in DOMAIN c2s[k] /\ p[i] = c2s[k][i]
  <2> TAKE i \in DOMAIN p
  <2>1. i \in 1..Len(p) /\ Len(p) = n
    BY <1>2, <1>3, <1>5, LenProperties
  <2>2. i \in Nat /\ 1 <= i /\ i <= n /\ 1 + i - 1 = i /\ n - 1 + 1 = n
    BY <1>3, <2>1
  <2>3. QED
    BY <1>3, <1>5, <2>1, <2>2
<1>8. \A j \in Conns : \A i \in DOMAIN c2s'[j] : i \in DOMAIN c2s[j] /\ c2s'[j][i] = c2s[j][i]
  BY <1>6, <1>7
<1>9. QED
  BY <1>8, OffsetsStay

(* A connection that is lost has nothing more to say to the client.        *)
LEMMA LoseKeepsTalk ==
  ASSUME ServedInv, UNCHANGED serverVars, NEW k \in Conns, Lose(k),
         bpc' \in {bpc, "off"}, bpc' = bpc => part' = part
  PROVE  Negotiating' /\ AboutToResume'
<1>1. WireOK /\ Negotiating /\ AboutToResume
      /\ (bpc \notin {"off", "connect"} => conn \in Conns)
  BY Talking DEF ServedInv, ClientInv
<1>2. conn' = conn /\ hpc' = hpc /\ temp' = temp /\ link'[k] = "lost" /\ s2c'[k] = << >>
      /\ \A j \in Conns : j # k => c2s'[j] = c2s[j] /\ s2c'[j] = s2c[j] /\ link'[j] = link[j]
  BY <1>1 DEF Lose, serverVars, WireOK
<1>3. AboutToResume'
  BY <1>1, <1>2 DEF AboutToResume, Fits
<1>4. CASE bpc' = "go" /\ k = conn
  <2>1. Broken'
    BY <1>2, <1>4 DEF Broken
  <2>2. QED
    BY <1>3, <2>1 DEF Negotiating
<1>5. CASE bpc' = "go" /\ k # conn
  <2>1. bpc = "go" /\ part' = part /\ conn \in Conns
    BY <1>1, <1>5
  <2>2. QED
    <3>1. Asked \/ Granted \/ Refused \/ Broken
      BY <1>1, <2>1 DEF Negotiating
    <3>2. (Asked => Asked') /\ (Broken => Broken')
      BY <1>2, <1>5, <2>1 DEF Asked, Broken
    <3>3. (Granted => Granted') /\ (Refused => Refused')
      BY <1>2, <1>5, <2>1 DEF Granted, Refused, Fits
    <3>4. QED
      BY <1>3, <3>1, <3>2, <3>3 DEF Negotiating
<1>6. QED
  BY <1>3, <1>4, <1>5 DEF Negotiating

(* The client's steps, in the states of the talk they lead to.             *)
LEMMA ThreadKeepsTalk ==
  ASSUME ServedInv, ThreadStep, UNCHANGED serverVars
  PROVE  Negotiating' /\ AboutToResume'
<1>1. WireOK /\ ClientOK /\ LinksOK /\ PlaceOK /\ Negotiating /\ AboutToResume
      /\ (bpc \notin {"off", "connect"} => conn \in Conns)
  BY Talking DEF ServedInv, ClientInv
<1>2. hpc' = hpc /\ temp' = temp
  BY DEF serverVars
<1>3. CASE bpc' \notin {"go", "transfer"}
  BY <1>3 DEF Negotiating, AboutToResume
<1>4. CASE Connect
  <2>1. conn + 1 \in Conns /\ conn' = conn + 1 /\ s2c' = s2c /\ conn + 1 > conn
    BY <1>1, <1>4, Sizes DEF Connect, Here, PlaceOK, Conns, WireOK
  <2>2. s2c[conn + 1] = << >> /\ hpc[conn + 1] = "none"
    BY <1>1, <2>1 DEF LinksOK
  <2>3. bpc' = "go" =>
          /\ part' = [path |-> session.path, off |-> session.off]
          /\ c2s' = [c2s EXCEPT ![conn + 1] = << [t |-> "RESUME", path |-> session.path] >>]
    BY <1>4 DEF Connect
  <2>4. bpc' = "go" => c2s'[conn + 1] = << [t |-> "RESUME", path |-> session.path] >>
    BY <1>1, <2>1, <2>3 DEF WireOK
  <2>5. bpc' = "go" => Asked'
    BY <1>2, <2>1, <2>2, <2>3, <2>4 DEF Asked
  <2>6. bpc' # "transfer"
    BY <1>4 DEF Connect
  <2>7. QED
    BY <2>5, <2>6 DEF Negotiating, AboutToResume
<1>5. CASE RecvGo /\ bpc' = "transfer"
  <2>1. Hears("GO") /\ part' = [part EXCEPT !.off = Head(s2c[conn]).off]
        /\ conn' = conn /\ link' = link /\ c2s' = c2s /\ bpc = "go"
    BY <1>5 DEF RecvGo, Here
  <2>2. Granted
    BY <1>1, <2>1 DEF Negotiating, Asked, Refused, Broken, Hears
  <2>3. part'.path = part.path /\ part'.off = Head(s2c[conn]).off
    BY <1>1, <2>1 DEF ClientOK
  <2>4. QED
    BY <1>2, <1>5, <2>1, <2>2, <2>3 DEF Negotiating, AboutToResume, Granted, Fits
<1>6. CASE RecvNeed \/ SkipFile \/ FileSent
  BY <1>6 DEF RecvNeed, SkipFile, FileSent, NextFile, NoPart, Negotiating, AboutToResume
<1>7. QED
  <2>1. Connect \/ RecvGo \/ RecvNeed \/ SkipFile \/ FileSent \/ bpc' \notin {"go", "transfer"}
    BY DEF ThreadStep, Negotiate, Transfer, Unreachable, SendManifest, RecvNothingNeeded,
           RecvFails, Fail, OpenFile, SendChunk, SendFails, SendDone, RecvOk,
           AbortNoticed, EndAborted, ManifestAborted, End, Here
  <2>2. RecvGo => bpc' \in {"transfer", "manifest"}
    BY DEF RecvGo, ClearSession
  <2>3. QED
    BY <1>3, <1>4, <1>5, <1>6, <2>1, <2>2

LEMMA ThreadKeepsOffsets ==
  ASSUME ServedInv, ThreadStep, UNCHANGED serverVars
  PROVE  OffsetsHold'
<1>1. WireOK /\ ClientOK /\ LinksOK /\ PlaceOK /\ PartialFirst /\ AboutToResume
      /\ (bpc \notin {"off", "connect"} => conn \in Conns)
  BY Talking DEF ServedInv, ClientInv
<1>2. CASE UNCHANGED c2s
  BY <1>2, SameKeepsOffsets
<1>3. CASE Connect
  <2>1. conn + 1 \in Conns
    BY <1>1, <1>3, Sizes DEF Connect, Here, PlaceOK, Conns, WireOK
  <2>2. c2s' = c2s
        \/ c2s' = [c2s EXCEPT ![conn + 1] = << [t |-> "RESUME", path |-> session.path] >>]
    BY <1>3 DEF Connect
  <2> DEFINE x == [t |-> "RESUME", path |-> session.path]
  <2>3. \A j \in Conns : c2s'[j] = c2s[j] \/ c2s'[j] = << x >>
    BY <1>1, <2>1, <2>2 DEF WireOK
  <2>4. x.t # "FILE"
    OBVIOUS
  <2> HIDE DEF x
  <2>5. \A i \in DOMAIN << x >> : << x >>[i] = x
    OBVIOUS
  <2>6. ASSUME NEW j \in Conns, NEW i \in DOMAIN c2s'[j]
        PROVE  \/ i \in DOMAIN c2s[j] /\ c2s'[j][i] = c2s[j][i]
               \/ c2s'[j][i].t # "FILE"
    <3>1. CASE c2s'[j] = c2s[j]
      BY <2>6, <3>1
    <3>2. CASE c2s'[j] = << x >>
      BY <2>4, <2>5, <2>6, <3>2
    <3>3. QED
      BY <2>3, <3>1, <3>2
  <2>7. QED
    BY <2>6, OffsetsStay
<1>4. CASE \E m \in ToServer : c2s' = Says(m) /\ conn \in Conns /\ m.t # "FILE"
  BY <1>4, SayKeepsOffsets DEF SafeToSay
<1>5. CASE SkipFile
  <2>1. CASE needs[idx] # Junk
             /\ c2s' = Says([t |-> "FILE", path |-> needs[idx], size |-> 0, off |-> 0])
    <3> DEFINE m == [t |-> "FILE", path |-> needs[idx], size |-> 0, off |-> 0]
    <3>1. needs[idx] \in Files /\ 0 \in 0..Chunks
      BY <1>1, <1>5, <2>1, NextNeeded, Sizes DEF SkipFile
    <3>2. m \in ToServer
      BY <3>1, ClientSays
    <3>3. conn \in Conns
      BY <1>1, <1>5 DEF SkipFile, Here
    <3>4. SafeToSay(m)
      BY DEF SafeToSay
    <3>5. QED
      BY <2>1, <3>2, <3>3, <3>4, SayKeepsOffsets
  <2>2. QED
    BY <1>2, <1>5, <2>1 DEF SkipFile
<1>6. CASE OpenFile
  <2> DEFINE f == needs[idx]  off == IF part.path = f /\ part.off <= Chunks THEN part.off ELSE 0
             m == [t |-> "FILE", path |-> f, size |-> Chunks - off, off |-> off]
  <2>1. conn \in Conns /\ f \in Files
    BY <1>1, <1>6, NextNeeded DEF OpenFile, Here
  <2>2. part.off \in Nat
    BY <1>1 DEF ClientOK
  <2>3. off \in 0..Chunks /\ Chunks - off \in 0..Chunks
    BY <2>2, Sizes
  <2>4. m \in ToServer /\ c2s' = Says(m) /\ m.path = f /\ m.off = off
    <3>1. c2s' = Says(m)
      BY <1>6 DEF OpenFile
    <3> HIDE DEF off, f
    <3>2. QED
      BY <2>1, <2>3, <3>1, ClientSays
  <2>5. link[conn] = "open" /\ off > 0 =>
          c2s[conn] = << >> /\ hpc[conn] = "files" /\ Fits(f, off)
    <3>1. off > 0 => off = part.off /\ part.path = f
      OBVIOUS
    <3>2. bpc = "transfer" /\ f # Junk
      BY <1>6 DEF OpenFile, Here
    <3> HIDE DEF off, f
    <3>3. QED
      BY <1>1, <3>1, <3>2 DEF AboutToResume
  <2> HIDE DEF m
  <2>6. link[conn] = "open" => SafeToSay(m)
    BY <2>4, <2>5 DEF SafeToSay
  <2>7. QED
    BY <2>1, <2>4, <2>6, SayKeepsOffsets
<1>7. CASE SendManifest \/ RecvNothingNeeded \/ SendChunk \/ SendDone \/ AbortNoticed \/ ManifestAborted
  <2>1. conn \in Conns
    BY <1>1, <1>7 DEF SendManifest, RecvNothingNeeded, SendChunk, SendDone, AbortNoticed,
                      ManifestAborted, Here
  <2>2. \E m \in ToServer : c2s' = Says(m) /\ m.t # "FILE"
    <3>1. CASE SendManifest
      <4>1. manifest \in [Files -> 0..MaxVersion]
        BY <1>1 DEF ClientOK
      <4>2. [t |-> "MANIFEST", entries |-> manifest] \in ToServer
        BY <4>1, ClientSays
      <4>3. QED
        BY <3>1, <4>2 DEF SendManifest
    <3>2. CASE RecvNothingNeeded \/ SendDone
      <4>1. [t |-> "DONE"] \in ToServer
        BY ClientSays
      <4>2. QED
        BY <3>2, <4>1 DEF RecvNothingNeeded, SendDone
    <3>3. CASE SendChunk
      <4>1. disk[needs[idx]] \in 0..MaxVersion
        BY <1>1, <3>3 DEF SendChunk, Here, PlaceOK, ClientOK
      <4>2. [t |-> "data", v |-> disk[needs[idx]]] \in ToServer
        BY <4>1, ClientSays
      <4>3. QED
        BY <3>3, <4>2 DEF SendChunk
    <3>4. CASE AbortNoticed
      <4>1. c2s' = Says([t |-> "ABORT"])
        BY <3>4 DEF AbortNoticed, EndAborted
      <4>2. [t |-> "ABORT"] \in ToServer
        BY ClientSays
      <4>3. QED
        BY <4>1, <4>2
    <3>5. CASE ManifestAborted
      <4>1. PICK S \in SUBSET Files :
              c2s' = Says([t |-> "MANIFEST",
                           entries |-> [f \in Files |-> IF f \in S THEN manifest[f] ELSE 0]])
        BY <3>5 DEF ManifestAborted
      <4>2. [f \in Files |-> IF f \in S THEN manifest[f] ELSE 0] \in [Files -> 0..MaxVersion]
        BY <1>1, Sizes DEF ClientOK
      <4>3. QED
        BY <4>1, <4>2, ClientSays
    <3>6. QED
      BY <1>7, <3>1, <3>2, <3>3, <3>4, <3>5
  <2>3. QED
    BY <1>4, <2>1, <2>2
<1>8. QED
  BY <1>2, <1>3, <1>5, <1>6, <1>7
     DEF ThreadStep, Negotiate, Transfer, Unreachable, RecvGo, RecvNeed, RecvFails, Fail,
         FileSent, SendFails, RecvOk, End, wireVars

LEMMA StepServedInv ==
  Overlap = FALSE => (ServedInv /\ [BackupNext]_allVars => ServedInv')
<1> SUFFICES ASSUME Overlap = FALSE, ServedInv, [BackupNext]_allVars
             PROVE  ServedInv'
  OBVIOUS
<1>1. ClientInv' /\ LinksOK'
  BY StepClientInv, StepKeepsLinks DEF ServedInv
<1>2. SUFFICES OneServed' /\ Negotiating' /\ AboutToResume' /\ OffsetsHold' /\ NoHoles'
  BY <1>1 DEF ServedInv
<1>3. CASE Server
  <2>1. PICK k \in Conns : ServerAct(k)
    BY <1>3 DEF Server, ServerStep, ServerAct
  <2>2. UNCHANGED clientVars
    BY <1>3 DEF Server
  <2>3. QED
    BY <2>1, <2>2, ServerKeepsOrder, ServerKeepsTalk, ServerKeepsOffsets, ServerKeepsHoles
<1>4. ASSUME UNCHANGED serverVars PROVE OneServed' /\ NoHoles'
  BY <1>4 DEF ServedInv, OneServed, NoHoles, There, serverVars
<1>5. ASSUME UNCHANGED << serverVars, wireVars >>, bpc' = bpc, part' = part
      PROVE  Negotiating' /\ AboutToResume' /\ OffsetsHold'
  <2>1. Negotiating' /\ AboutToResume'
    BY <1>5 DEF ServedInv, Negotiating, AboutToResume, Asked, Granted, Refused, Broken, Fits,
                serverVars, wireVars
  <2>2. QED
    BY <1>5, <2>1, SameKeepsOffsets DEF wireVars
<1>6. CASE ThreadStep /\ UNCHANGED serverVars
  BY <1>4, <1>6, ThreadKeepsTalk, ThreadKeepsOffsets
<1>7. CASE Network
  <2>1. PICK k \in Conns : Lose(k)
    BY <1>7 DEF Network
  <2>2. bpc' = bpc /\ part' = part /\ UNCHANGED serverVars
    BY <1>7 DEF Network, clientVars
  <2>3. QED
    BY <1>4, <2>1, <2>2, LoseKeepsTalk, LoseKeepsOffsets
<1>8. CASE SwitchOff /\ UNCHANGED serverVars
  <2>1. bpc' = "off"
    BY <1>8 DEF SwitchOff
  <2>2. Negotiating' /\ AboutToResume'
    BY <2>1 DEF Negotiating, AboutToResume
  <2>3. CASE conn > 0 /\ link[conn] = "open"
    <3>1. conn \in Conns
      BY <2>3, Sizes DEF ServedInv, ClientInv, WireOK, Conns
    <3>2. QED
      BY <1>4, <1>8, <2>2, <2>3, <3>1, LoseKeepsOffsets DEF SwitchOff
  <2>4. CASE ~(conn > 0 /\ link[conn] = "open")
    BY <1>4, <1>8, <2>2, <2>4, SameKeepsOffsets DEF SwitchOff, wireVars
  <2>5. QED
    BY <2>3, <2>4
<1>9. CASE Start /\ UNCHANGED serverVars
  <2>1. Negotiating' /\ AboutToResume'
    BY <1>9 DEF Start, Negotiating, AboutToResume
  <2>2. QED
    BY <1>4, <1>9, <2>1, SameKeepsOffsets DEF Start, wireVars
<1>10. CASE (Boot \/ (\E f \in Files : Play(f)) \/ Abort \/ ScanStep) /\ UNCHANGED serverVars
  <2>1. UNCHANGED wireVars /\ bpc' = bpc /\ part' = part
    BY <1>10 DEF Boot, Play, Abort, ScanStep, ScanSaves, ScanDone, threadVars
  <2>2. QED
    BY <1>4, <1>5, <1>10, <2>1
<1>11. CASE UNCHANGED allVars
  BY <1>4, <1>5, <1>11 DEF allVars, clientVars
<1>12. QED
  BY <1>3, <1>6, <1>7, <1>8, <1>9, <1>10, <1>11 DEF BackupNext, Client, Threads, ClientStep

LEMMA InitServed == BackupInit => ServedInv
<1> SUFFICES ASSUME BackupInit PROVE ServedInv
  OBVIOUS
<1>1. \A k \in Conns : k > conn /\ link[k] = "unused" /\ c2s[k] = << >> /\ s2c[k] = << >>
                       /\ hpc[k] = "none"
  BY DEF BackupInit, WireInit, ServerInit, Conns
<1>2. bpc = "off" /\ \A f \in Files : temp[f].data = << >>
  BY DEF BackupInit, ClientInit, ServerInit, Missing
<1>3. \A k \in Conns : DOMAIN c2s[k] = {}
  BY <1>1
<1>4. QED
  BY <1>1, <1>2, <1>3, InitPartial
     DEF ServedInv, LinksOK, OneServed, Negotiating, AboutToResume, OffsetsHold, NoHoles

(* When connections are served one after the other - the console waits     *)
(* until the server has noticed the end of the one before - the server's   *)
(* offset never leaves a hole, through lost and aborted connections,       *)
(* crashes and boots (backup_server.py:125-135, 235-238).                  *)
THEOREM BackupInvariant == ASSUME Overlap = FALSE PROVE BackupSpec => []BackupInv
<1>1. ServedInv => BackupInv
  <2> SUFFICES ASSUME ServedInv PROVE BackupInv
    OBVIOUS
  <2>1. BackupTypeOK
    BY TypesAreTypes DEF ServedInv
  <2>2. ResumesWithoutHole
    BY DEF ServedInv, NoHoles, ResumesWithoutHole
  <2>3. QED
    BY <2>1, <2>2 DEF BackupInv
<1>2. ServedInv /\ [BackupNext]_allVars => ServedInv'
  BY StepServedInv
<1>3. QED
  BY <1>1, <1>2, InitServed, PTL DEF BackupSpec

(* The server has answered the first line of a connection with a reply     *)
(* after which it takes files.                                             *)
Past(k) == hpc[k] \notin {"none", "first", "renew"}

Listed(s, f) == \E i \in DOMAIN s : s[i] = f

(***************************************************************************)
(* What either side knows of the other.                                    *)
(***************************************************************************)

(* What the thread remembers of the last need list, and the disk of it.    *)
Remembers ==
  /\ bpc \in {"off", "connect"} /\ ~aborting /\ session = NoSession => needs = << >>
  /\ bpc \in {"manifest", "need"} => session = NoSession /\ needs = << >>
  /\ bpc = "stop" /\ needs = << >> => session = NoSession
  /\ bpc = "go" => session # NoSession /\ needs = session.needs

(* A connection that the server has not answered yet.                      *)
Unanswered ==
  \A k \in Conns : ~Past(k) =>
    /\ mtimes[k] = NoMtimes
    /\ \A i \in DOMAIN c2s[k] : c2s[k][i].t \notin {"FILE", "DONE"}
    /\ session # NoSession =>
         /\ Len(c2s[k]) <= 1 /\ (hpc[k] = "renew" => c2s[k] = << >>)
         /\ \A i \in DOMAIN c2s[k] : c2s[k][i].t = "RESUME"

(* The first line and its answer.                                          *)
FirstLine ==
  /\ bpc \in {"go", "manifest"} => mtimes[conn] = NoMtimes
  /\ bpc = "go" => Len(s2c[conn]) <= 1
  /\ bpc = "manifest" => c2s[conn] = << >> /\ s2c[conn] = << >>
  /\ bpc = "need" => /\ s2c[conn] # << >> => Past(conn)
                     /\ \A i \in DOMAIN c2s[conn] : c2s[conn][i].t # "RESUME"
  /\ bpc = "stop" /\ needs # << >> => Past(conn)
  /\ bpc \in {"transfer", "send"} =>
       Past(conn) /\ (part.path = Junk \/ mtimes[conn] = NoMtimes)

(* After DONE nothing is sent.                                             *)
DoneIsLast ==
  \A k \in Conns : \A i \in DOMAIN c2s[k] :
    c2s[k][i].t = "DONE" =>
      i = Len(c2s[k]) /\ (k = conn => bpc \in {"ok", "off", "connect"})

TalkInv == Remembers /\ Unanswered /\ FirstLine /\ DoneIsLast

(***************************************************************************)
(* About a save f that is there.                                           *)
(***************************************************************************)
Lacks(f) == Differs(f, disk[f])

(* The manifests tell its version.                                         *)
Known(f) ==
  /\ {manifest[f], cache[f]} \subseteq {0, disk[f]}
  /\ \A k \in Conns :
       /\ mtimes[k][f] \in {0, disk[f]}
       /\ \A i \in DOMAIN c2s[k] :
            c2s[k][i].t = "MANIFEST" => c2s[k][i].entries[f] \in {0, disk[f]}

(* Only what the latest snapshot lacks is listed.                          *)
ListsLack(f) ==
  /\ bpc \in {"transfer", "send", "stop"} /\ Listed(needs, f) => Lacks(f)
  /\ bpc = "go" /\ s2c[conn] # << >> /\ Head(s2c[conn]).t = "GO" /\ Listed(needs, f) =>
       Lacks(f)
  /\ bpc = "need" /\ s2c[conn] # << >> /\ Head(s2c[conn]).t = "NEED"
       /\ Listed(Head(s2c[conn]).files, f) => Lacks(f)
  /\ Listed(session.needs, f) =>
       Lacks(f) \/ (~saved /\ \A k \in Conns : hpc[k] \notin {"files", "data"})

(* And only that is sent, and in temp; after a manifest, whole.            *)
FilesLack(f) ==
  /\ There(temp[f]) => Lacks(f)
  /\ \A k \in Conns : hpc[k] \notin {"gone", "crashed"} =>
       \A i \in DOMAIN c2s[k] :
         c2s[k][i].t = "FILE" /\ c2s[k][i].path = f =>
           Lacks(f) /\ (mtimes[k][f] > 0 => c2s[k][i].off = 0 /\ c2s[k][i].size = Chunks)
  /\ \A k \in Conns : hpc[k] = "data" /\ recv[k].file = f =>
       /\ Lacks(f)
       /\ mtimes[k][f] > 0 =>
            /\ There(temp[f]) /\ Len(temp[f].data) = recv[k].pos
            /\ recv[k].pos + recv[k].left = Chunks

(* Only data lies between the places l and i of a channel.                 *)
OnlyData(q, l, i) == \A j \in DOMAIN q : l < j /\ j < i => q[j].t = "data"

(* The data of the save are its own.                                       *)
DataTrue(f) ==
  /\ \A i \in DOMAIN temp[f].data : temp[f].data[i] = disk[f]
  /\ \A i \in DOMAIN latest[f].data : latest[f].data[i] = disk[f]
  /\ \A k \in Conns : \A i \in DOMAIN c2s[k] : c2s[k][i].t = "data" =>
       /\ \A l \in DOMAIN c2s[k] :
            l < i /\ OnlyData(c2s[k], l, i) /\ c2s[k][l].t = "FILE" /\ c2s[k][l].path = f =>
              c2s[k][i].v = disk[f]
       /\ OnlyData(c2s[k], 0, i) /\ hpc[k] = "data" /\ recv[k].file = f =>
            c2s[k][i].v = disk[f]

(* What is being sent is what is being received.                           *)
SendsIt ==
  bpc = "send" /\ link[conn] = "open" =>
    /\ \A l \in DOMAIN c2s[conn] :
         OnlyData(c2s[conn], l, Len(c2s[conn]) + 1) /\ c2s[conn][l].t = "FILE" =>
           c2s[conn][l].path = needs[idx]
    /\ OnlyData(c2s[conn], 0, Len(c2s[conn]) + 1) /\ hpc[conn] = "data" =>
         recv[conn].file = needs[idx]

(* What a listed save that DONE can still come for has come to.            *)
Delivered(f) ==
  IF There(temp[f]) THEN Len(temp[f].data) = Chunks ELSE ~Lacks(f)
Coming(k, f) ==
  \/ hpc[k] = "data" /\ recv[k].file = f
  \/ \E i \in DOMAIN c2s[k] : c2s[k][i].t = "FILE" /\ c2s[k][i].path = f
ToSend(f) ==
  \/ bpc = "need" /\ s2c[conn] # << >> /\ Head(s2c[conn]).t = "NEED"
       /\ Listed(Head(s2c[conn]).files, f)
  \/ bpc = "transfer" /\ \E i \in DOMAIN needs : i >= idx /\ needs[i] = f
  \/ bpc = "send" /\ \E i \in DOMAIN needs : i > idx /\ needs[i] = f
MayFinish(k) ==
  \/ \E i \in DOMAIN c2s[k] : c2s[k][i].t = "DONE"
  \/ k = conn /\ link[k] = "open" /\ bpc \in {"need", "transfer", "send"}

Progress(f) ==
  \A k \in Conns :
    hpc[k] \in {"files", "data"} /\ mtimes[k][f] > 0 /\ MayFinish(k) =>
      Delivered(f) \/ Coming(k, f) \/ (k = conn /\ link[k] = "open" /\ ToSend(f))

SaveInv(f) ==
  disk[f] > 0 => Known(f) /\ ListsLack(f) /\ FilesLack(f) /\ DataTrue(f) /\ Progress(f)

FreshInv == TalkInv /\ SendsIt /\ \A f \in Files : SaveInv(f)

(***************************************************************************)
(* What a step does to a channel to the server.                            *)
(***************************************************************************)

(* Places of a channel that is read, broken or written to.                 *)
LEMMA Places ==
  ASSUME NEW S, NEW q \in Seq(S)
  PROVE  /\ Len(q) \in Nat /\ DOMAIN q = 1..Len(q) /\ (Len(q) = 0 <=> q = << >>)
         /\ q # << >> => /\ Len(q) >= 1 /\ Head(q) = q[1] /\ Len(Tail(q)) = Len(q) - 1
                         /\ DOMAIN Tail(q) = 1..(Len(q) - 1)
                         /\ \A i \in 1..(Len(q) - 1) : Tail(q)[i] = q[i + 1]
         /\ \A m \in S : /\ Len(Append(q, m)) = Len(q) + 1
                         /\ DOMAIN Append(q, m) = 1..(Len(q) + 1)
                         /\ \A i \in 1..Len(q) : Append(q, m)[i] = q[i]
                         /\ Append(q, m)[Len(q) + 1] = m
<1>1. Len(q) \in Nat /\ DOMAIN q = 1..Len(q) /\ (Len(q) = 0 <=> q = << >>)
  BY LenProperties, EmptySeq
<1>2. ASSUME q # << >>
      PROVE  /\ Len(q) >= 1 /\ Head(q) = q[1] /\ Len(Tail(q)) = Len(q) - 1
             /\ DOMAIN Tail(q) = 1..(Len(q) - 1)
             /\ \A i \in 1..(Len(q) - 1) : Tail(q)[i] = q[i + 1]
  <2>1. Tail(q) \in Seq(S) /\ Len(Tail(q)) = Len(q) - 1
        /\ \A i \in 1..Len(Tail(q)) : Tail(q)[i] = q[i + 1]
    BY <1>2, HeadTailProperties
  <2>2. DOMAIN Tail(q) = 1..Len(Tail(q))
    BY <2>1, LenProperties
  <2>3. Head(q) = q[1]
    BY <1>2
  <2>4. QED
    BY <1>1, <1>2, <2>1, <2>2, <2>3
<1>3. ASSUME NEW m \in S
      PROVE  /\ Len(Append(q, m)) = Len(q) + 1
             /\ DOMAIN Append(q, m) = 1..(Len(q) + 1)
             /\ \A i \in 1..Len(q) : Append(q, m)[i] = q[i]
             /\ Append(q, m)[Len(q) + 1] = m
  BY AppendProperties, LenProperties
<1>4. QED
  BY <1>1, <1>2, <1>3

(* The rest of a channel with one message.                                 *)
LEMMA LastOne ==
  ASSUME NEW S, NEW q \in Seq(S), q # << >>, Len(q) <= 1
  PROVE  Tail(q) = << >>
<1>1. Tail(q) \in Seq(S) /\ Len(q) \in Nat /\ Len(q) >= 1 /\ Len(Tail(q)) = Len(q) - 1
  BY Places, HeadTailProperties
<1>2. Len(Tail(q)) = 0
  BY <1>1
<1>3. QED
  BY <1>1, <1>2, Places, Zenon

(* A part of a channel that still arrives.                                 *)
LEMMA PlacesLeft ==
  ASSUME NEW S, NEW q \in Seq(S), NEW n \in 0..Len(q)
  PROVE  /\ Len(SubSeq(q, 1, n)) = n /\ DOMAIN SubSeq(q, 1, n) = 1..n
         /\ \A i \in 1..n : i \in DOMAIN q /\ SubSeq(q, 1, n)[i] = q[i]
         /\ n = Len(q) => SubSeq(q, 1, n) = q
<1>1. Len(q) \in Nat /\ DOMAIN q = 1..Len(q)
  BY LenProperties
<1>2. n \in Int /\ 1 \in Int /\ n <= Len(q) /\ n >= 0
  BY <1>1
<1>3. \A i \in 1..n : q[i] \in S
  BY <1>1, <1>2, ElementOfSeq
<1> DEFINE p == SubSeq(q, 1, n)
<1>4. p \in Seq(S) /\ Len(p) = (IF 1 <= n THEN n - 1 + 1 ELSE 0)
      /\ \A i \in 1..(n - 1 + 1) : p[i] = q[1 + i - 1]
  BY <1>2, <1>3, SubSeqProperties
<1> HIDE DEF p
<1>5. Len(p) = n /\ DOMAIN p = 1..n
  BY <1>2, <1>4, LenProperties
<1>6. \A i \in 1..n : i \in DOMAIN q /\ p[i] = q[i]
  <2> TAKE i \in 1..n
  <2>1. i \in Nat /\ 1 <= i /\ i <= n /\ 1 + i - 1 = i /\ n - 1 + 1 = n
    BY <1>2
  <2>2. QED
    BY <1>1, <1>2, <1>4, <2>1
<1>7. n = Len(q) => p = q
  BY <1>1, <1>4, <1>5, <1>6, SeqEqual
<1>8. QED
  BY <1>5, <1>6, <1>7 DEF p

(* The server's thread reads at most one message; what is left moves up.   *)
LEMMA ServerReads ==
  ASSUME WireOK, ServerOK, NEW k \in Conns, ServerAct(k)
  PROVE  \E d \in {0, 1} : \A i \in DOMAIN c2s'[k] :
           /\ i \in Nat \ {0} /\ i + d \in DOMAIN c2s[k] /\ c2s'[k][i] = c2s[k][i + d]
           /\ Len(c2s'[k]) = Len(c2s[k]) - d
<1>1. c2s[k] \in Seq(ToServer)
  BY DEF WireOK
<1>2. Len(c2s[k]) \in Nat /\ DOMAIN c2s[k] = 1..Len(c2s[k])
  BY <1>1, Places
<1>3. c2s'[k] = c2s[k] \/ c2s'[k] = << >> \/ (c2s[k] # << >> /\ c2s'[k] = Tail(c2s[k]))
  BY ServerActs
<1>4. CASE c2s'[k] = c2s[k]
  <2>1. \A i \in DOMAIN c2s'[k] : i \in Nat \ {0} /\ i + 0 \in DOMAIN c2s[k] /\ c2s'[k][i] = c2s[k][i + 0]
           /\ Len(c2s'[k]) = Len(c2s[k]) - 0
    BY <1>2, <1>4
  <2>2. QED
    BY <2>1
<1>5. CASE c2s'[k] = << >>
  BY <1>5
<1>6. CASE c2s[k] # << >> /\ c2s'[k] = Tail(c2s[k])
  <2>1. \A i \in DOMAIN c2s'[k] : i \in Nat \ {0} /\ i + 1 \in DOMAIN c2s[k] /\ c2s'[k][i] = c2s[k][i + 1]
           /\ Len(c2s'[k]) = Len(c2s[k]) - 1
    BY <1>1, <1>2, <1>6, Places
  <2>2. QED
    BY <2>1
<1>7. QED
  BY <1>3, <1>4, <1>5, <1>6

(* A message of the client's is the last of its connection, if it is open. *)
LEMMA ClientWrites ==
  ASSUME WireOK, conn \in Conns, NEW m \in ToServer, c2s' = Says(m)
  PROVE  /\ \A k \in Conns : k # conn => c2s'[k] = c2s[k]
         /\ link[conn] # "open" => c2s'[conn] = c2s[conn]
         /\ link[conn] = "open" =>
              /\ Len(c2s'[conn]) = Len(c2s[conn]) + 1
              /\ DOMAIN c2s'[conn] = 1..(Len(c2s[conn]) + 1)
              /\ DOMAIN c2s[conn] = 1..Len(c2s[conn])
              /\ \A i \in DOMAIN c2s[conn] : c2s'[conn][i] = c2s[conn][i]
              /\ c2s'[conn][Len(c2s[conn]) + 1] = m
              /\ Len(c2s[conn]) \in Nat
<1>1. c2s \in [Conns -> Seq(ToServer)] /\ c2s[conn] \in Seq(ToServer)
  BY DEF WireOK
<1>2. CASE link[conn] = "open"
  <2>1. c2s' = [c2s EXCEPT ![conn] = Append(@, m)]
    BY <1>2 DEF Says, Linked
  <2>2. c2s'[conn] = Append(c2s[conn], m) /\ \A k \in Conns : k # conn => c2s'[k] = c2s[k]
    BY <1>1, <2>1
  <2>3. QED
    BY <1>1, <1>2, <2>2, Places
<1>3. CASE link[conn] # "open"
  BY <1>1, <1>3 DEF Says, Linked
<1>4. QED
  BY <1>2, <1>3

(* What a break leaves of a connection.                                    *)
LEMMA Breaks ==
  ASSUME WireOK, NEW k \in Conns, Lose(k)
  PROVE  /\ conn' = conn
         /\ \A j \in Conns : j # k => c2s'[j] = c2s[j] /\ s2c'[j] = s2c[j] /\ link'[j] = link[j]
         /\ link'[k] = "lost" /\ s2c'[k] = << >> /\ link[k] # "unused"
         /\ \A i \in DOMAIN c2s'[k] : i \in DOMAIN c2s[k] /\ c2s'[k][i] = c2s[k][i]
         /\ Len(c2s'[k]) <= Len(c2s[k]) /\ Len(c2s'[k]) \in Nat
         /\ DOMAIN c2s'[k] = 1..Len(c2s'[k]) /\ DOMAIN c2s[k] = 1..Len(c2s[k]) /\ Len(c2s[k]) \in Nat
         /\ Len(c2s'[k]) = Len(c2s[k]) => c2s'[k] = c2s[k]
<1>1. c2s \in [Conns -> Seq(ToServer)] /\ c2s[k] \in Seq(ToServer)
      /\ Len(c2s[k]) \in Nat /\ DOMAIN c2s[k] = 1..Len(c2s[k])
  BY Places DEF WireOK
<1>2. PICK n \in 0..Len(c2s[k]) : c2s' = [c2s EXCEPT ![k] = SubSeq(@, 1, n)]
  BY DEF Lose
<1>3. c2s'[k] = SubSeq(c2s[k], 1, n) /\ \A j \in Conns : j # k => c2s'[j] = c2s[j]
  BY <1>1, <1>2
<1>4. /\ Len(c2s'[k]) = n /\ DOMAIN c2s'[k] = 1..n
      /\ \A i \in 1..n : i \in DOMAIN c2s[k] /\ c2s'[k][i] = c2s[k][i]
      /\ n = Len(c2s[k]) => c2s'[k] = c2s[k]
  <2>1. /\ Len(SubSeq(c2s[k], 1, n)) = n /\ DOMAIN SubSeq(c2s[k], 1, n) = 1..n
        /\ \A i \in 1..n : i \in DOMAIN c2s[k] /\ SubSeq(c2s[k], 1, n)[i] = c2s[k][i]
        /\ n = Len(c2s[k]) => SubSeq(c2s[k], 1, n) = c2s[k]
    BY <1>1, PlacesLeft, Zenon
  <2>2. QED
    BY <1>3, <2>1, Zenon
<1>5. n <= Len(c2s[k]) /\ n \in Nat
  BY <1>1
<1>6. conn' = conn /\ link'[k] = "lost" /\ s2c'[k] = << >> /\ link[k] # "unused"
      /\ \A j \in Conns : j # k => s2c'[j] = s2c[j] /\ link'[j] = link[j]
  BY DEF Lose, WireOK
<1>7. QED
  BY <1>1, <1>3, <1>4, <1>5, <1>6

(***************************************************************************)
(* What either side knows of the other is kept by the server.              *)
(***************************************************************************)

(* What is told to the server's thread, and by it.                         *)
LEMMA ServerTells ==
  ASSUME WireOK, ServerOK, NEW k \in Conns, ServerAct(k)
  PROVE  /\ Past(k) => Past(k)'
         /\ \A j \in Conns : j # k => (Past(j)' <=> Past(j)) /\ mtimes'[j] = mtimes[j]
         /\ mtimes' = mtimes \/ (Manifest(k) /\ ~Past(k))
         /\ ~Past(k)' =>
              \/ Serve(k) /\ c2s'[k] = c2s[k] /\ s2c'[k] = s2c[k] /\ hpc'[k] = "first"
              \/ Resume(k) /\ c2s[k] # << >> /\ Head(c2s[k]).t = "RESUME"
                   /\ c2s'[k] = Tail(c2s[k]) /\ hpc'[k] = "renew"
         /\ \/ s2c'[k] = s2c[k]
            \/ /\ Past(k) \/ Manifest(k) \/ Resume(k)
               /\ \E m \in ToClient : s2c'[k] = Append(s2c[k], m)
<1> USE DEF ServerAct
<1>1. /\ c2s \in [Conns -> Seq(ToServer)] /\ s2c \in [Conns -> Seq(ToClient)]
      /\ hpc \in [Conns -> {"none", "first", "renew", "files", "data", "gone", "crashed"}]
      /\ mtimes \in [Conns -> [Files -> 0..MaxVersion]]
  BY DEF WireOK, ServerOK
<1>2. Past(k) => Past(k)'
  BY <1>1 DEF Serve, ResumeFails, Resume, Manifest, NoManifest, FileHeader, FileData, Done,
         AbortLine, Eof, Past
<1>3. mtimes' = mtimes \/ Manifest(k)
  BY DEF Serve, ResumeFails, Resume, NoManifest, FileHeader, FileData, Done, AbortLine, Eof
<1>4. Manifest(k) => ~Past(k) /\ \A j \in Conns : j # k => mtimes'[j] = mtimes[j]
  BY <1>1 DEF Manifest, Past
<1>5. \A j \in Conns : j # k => (Past(j)' <=> Past(j)) /\ mtimes'[j] = mtimes[j]
  BY <1>3, <1>4, ServerActs DEF Past
<1>6. ASSUME ~Past(k)'
      PROVE  \/ Serve(k) /\ c2s'[k] = c2s[k] /\ s2c'[k] = s2c[k] /\ hpc'[k] = "first"
             \/ Resume(k) /\ c2s[k] # << >> /\ Head(c2s[k]).t = "RESUME"
                  /\ c2s'[k] = Tail(c2s[k]) /\ hpc'[k] = "renew"
  <2>1. hpc'[k] \in {"none", "first", "renew"}
    BY <1>6 DEF Past
  <2>2. Serve(k) \/ Resume(k)
    BY <1>1, <2>1 DEF ResumeFails, Manifest, NoManifest, FileHeader, FileData, Done,
         AbortLine, Eof
  <2>3. Serve(k) => c2s'[k] = c2s[k] /\ s2c'[k] = s2c[k] /\ hpc'[k] = "first"
    BY <1>1 DEF Serve, wireVars
  <2>4. Resume(k) => c2s[k] # << >> /\ Head(c2s[k]).t = "RESUME"
                  /\ c2s'[k] = Tail(c2s[k]) /\ hpc'[k] = "renew"
    BY <1>1, <2>1 DEF Resume, Gets, Taken
  <2>5. QED
    BY <2>2, <2>3, <2>4
<1>7. \/ s2c'[k] = s2c[k]
      \/ /\ Past(k) \/ Manifest(k) \/ Resume(k)
         /\ \E m \in ToClient : s2c'[k] = Append(s2c[k], m)
  <2>1. s2c' \in [Conns -> Seq(ToClient)] =>
          \A m : s2c' = Reply(k, m) => s2c'[k] = s2c[k] \/ s2c'[k] = Append(s2c[k], m)
    BY <1>1 DEF Reply
  <2>2. \A m : s2c' = Reply(k, m) => s2c'[k] = s2c[k] \/ s2c'[k] = Append(s2c[k], m)
    BY <1>1 DEF Reply
  <2>3. CASE Resume(k)
    <3>1. \E m \in ToClient : s2c' = Reply(k, m)
      <4>1. hpc[k] = "first" /\ Gets(k, "RESUME") /\ Head(c2s[k]).path \notin Spaced
            /\ \/ s2c' = Reply(k, [t |-> "NEW"])
               \/ s2c' = Reply(k, [t |-> "GO", off |-> IF Head(c2s[k]).path \in Files
                                                       THEN Len(temp[Head(c2s[k]).path].data) ELSE 0])
        BY <2>3 DEF Resume
      <4>2. \A f \in Files : temp[f].data \in Seq(Nat)
        BY DEF ServerOK, Entries
      <4>3. \A f \in Files : Len(temp[f].data) \in Nat
        BY <4>2, LenProperties
      <4>4. QED
        BY <4>1, <4>3, ServerSays
    <3>2. QED
      BY <2>2, <2>3, <3>1
  <2>4. CASE Manifest(k)
    <3>1. PICK s \in SetToSeqs({f \in Files : Head(c2s[k]).entries[f] > 0
                                            /\ Differs(f, Head(c2s[k]).entries[f])}) :
            s2c' = Reply(k, [t |-> "NEED", files |-> s])
      BY <2>4 DEF Manifest
    <3>2. s \in NeedLists
      BY <3>1, ListsAreNeeds
    <3>3. [t |-> "NEED", files |-> s] \in ToClient
      BY <3>2, ServerSays
    <3>4. QED
      BY <2>2, <2>4, <3>1, <3>3
  <2>5. CASE Done(k)
    <3>1. s2c' = Reply(k, [t |-> "OK"]) /\ Past(k)
      BY <2>5 DEF Done, Past
    <3>2. QED
      BY <2>2, <3>1, ServerSays
  <2>6. CASE ~(Resume(k) \/ Manifest(k) \/ Done(k))
    BY <2>6 DEF Serve, ResumeFails, NoManifest, FileHeader, FileData, AbortLine, Eof, wireVars
  <2>7. QED
    BY <2>3, <2>4, <2>5, <2>6
<1>8. QED
  BY <1>2, <1>3, <1>4, <1>5, <1>6, <1>7

(* What the server answers is the first line of a connection that the      *)
(* client still waits on.                                                  *)
LEMMA ServerKeepsUnanswered ==
  ASSUME ServedInv, TalkInv, NEW k \in Conns, ServerAct(k), UNCHANGED clientVars
  PROVE  Unanswered'
<1>1. WireOK /\ ServerOK /\ Unanswered /\ session' = session /\ c2s[k] \in Seq(ToServer)
  BY DEF ServedInv, ClientInv, TalkInv, clientVars, WireOK
<1>2. SUFFICES ASSUME NEW j \in Conns, ~Past(j)'
               PROVE  /\ mtimes'[j] = NoMtimes
                      /\ \A i \in DOMAIN c2s'[j] : c2s'[j][i].t \notin {"FILE", "DONE"}
                      /\ session # NoSession =>
                           /\ Len(c2s'[j]) <= 1 /\ (hpc'[j] = "renew" => c2s'[j] = << >>)
                           /\ \A i \in DOMAIN c2s'[j] : c2s'[j][i].t = "RESUME"
  BY <1>1 DEF Unanswered
<1>3. CASE j # k
  BY <1>1, <1>2, <1>3, ServerTells, ServerActs DEF Unanswered
<1>4. CASE j = k
  <2>1. /\ ~Past(k) /\ mtimes[k] = NoMtimes
        /\ \A i \in DOMAIN c2s[k] : c2s[k][i].t \notin {"FILE", "DONE"}
        /\ session # NoSession =>
             /\ Len(c2s[k]) <= 1
             /\ \A i \in DOMAIN c2s[k] : c2s[k][i].t = "RESUME"
    BY <1>1, <1>2, <1>4, ServerTells DEF Unanswered
  <2>2. \/ Serve(k) /\ c2s'[k] = c2s[k] /\ hpc'[k] = "first"
        \/ Resume(k) /\ c2s[k] # << >> /\ c2s'[k] = Tail(c2s[k]) /\ hpc'[k] = "renew"
    BY <1>1, <1>2, <1>4, ServerTells
  <2>3. mtimes' = mtimes
    BY <2>2 DEF Serve, Resume
  <2>4. CASE c2s'[k] = c2s[k] /\ hpc'[k] = "first"
    BY <1>4, <2>1, <2>3, <2>4
  <2>5. CASE c2s[k] # << >> /\ c2s'[k] = Tail(c2s[k])
    <3>1. Len(c2s'[k]) = Len(c2s[k]) - 1 /\ DOMAIN c2s'[k] = 1..(Len(c2s[k]) - 1)
          /\ DOMAIN c2s[k] = 1..Len(c2s[k]) /\ Len(c2s[k]) \in Nat /\ Len(c2s[k]) >= 1
          /\ \A i \in 1..(Len(c2s[k]) - 1) : c2s'[k][i] = c2s[k][i + 1]
      BY <1>1, <2>5, Places
    <3>2. \A i \in DOMAIN c2s'[k] : i + 1 \in DOMAIN c2s[k] /\ c2s'[k][i] = c2s[k][i + 1]
      BY <3>1
    <3>3. \A i \in DOMAIN c2s'[k] : c2s'[k][i].t \notin {"FILE", "DONE"}
      BY <2>1, <3>2
    <3>4. session # NoSession => \A i \in DOMAIN c2s'[k] : c2s'[k][i].t = "RESUME"
      BY <2>1, <3>2
    <3>5. Len(c2s[k]) <= 1 => c2s'[k] = << >>
      BY <1>1, <2>5, LastOne
    <3>6. Len(<< >>) = 0
      OBVIOUS
    <3>7. Len(c2s[k]) <= 1 => Len(c2s'[k]) <= 1
      BY <3>5, <3>6
    <3>8. QED
      BY <1>4, <2>1, <2>3, <3>3, <3>4, <3>5, <3>7
  <2>6. QED
    BY <2>2, <2>4, <2>5
<1>5. QED
  BY <1>3, <1>4

(* The first line is read once, and answered by its kind.                  *)
LEMMA ServerKeepsFirstLine ==
  ASSUME ServedInv, TalkInv, NEW k \in Conns, ServerAct(k), UNCHANGED clientVars
  PROVE  FirstLine'
<1>1. /\ WireOK /\ ServerOK /\ Unanswered /\ FirstLine /\ Remembers /\ Negotiating
      /\ c2s[k] \in Seq(ToServer) /\ s2c[k] \in Seq(ToClient)
      /\ bpc' = bpc /\ needs' = needs /\ part' = part /\ conn' = conn
      /\ (bpc \notin {"off", "connect"} => conn \in Conns)
  BY Talking, ServerActs DEF ServedInv, ClientInv, TalkInv, clientVars, WireOK
<1>2. conn \in Conns /\ k # conn =>
        /\ c2s'[conn] = c2s[conn] /\ s2c'[conn] = s2c[conn] /\ mtimes'[conn] = mtimes[conn]
        /\ (Past(conn)' <=> Past(conn))
  BY <1>1, ServerActs, ServerTells
<1>3. Past(k) => Past(k)' /\ mtimes'[k] = mtimes[k]
  BY <1>1, ServerTells
<1>4. CASE k # conn
  BY <1>1, <1>2, <1>4 DEF FirstLine, Past
<1>5. CASE k = conn /\ bpc = "go"
  <2>1. session # NoSession
    BY <1>1, <1>5 DEF Remembers
  <2>2. ~Manifest(k)
    <3>1. SUFFICES ASSUME Manifest(k) PROVE FALSE
      OBVIOUS
    <3>2. ~Past(k) /\ c2s[k] # << >> /\ Head(c2s[k]).t = "MANIFEST"
      BY <3>1 DEF Manifest, Gets, Past
    <3>3. 1 \in DOMAIN c2s[k] /\ Head(c2s[k]) = c2s[k][1]
      BY <1>1, <3>2, Places
    <3>4. QED
      BY <1>1, <2>1, <3>2, <3>3 DEF Unanswered
  <2>3. mtimes' = mtimes
    BY <1>1, <2>2, ServerTells
  <2>4. Asked \/ s2c'[k] = s2c[k]
    <3>1. Granted \/ Refused => c2s[k] = << >> /\ link[k] = "open" /\ hpc[k] # "none"
      BY <1>5 DEF Granted, Refused
    <3>2. Broken => s2c'[k] = s2c[k]
      BY <1>1, <1>5, ServerAnswers DEF Broken
    <3>3. QED
      BY <1>1, <1>5, <3>1, <3>2, ServerAnswers DEF Negotiating
  <2>5. CASE s2c'[k] = s2c[k]
    BY <1>1, <1>5, <2>3, <2>5 DEF FirstLine
  <2>6. CASE Asked /\ s2c'[k] # s2c[k]
    <3>1. s2c[k] = << >> /\ Len(s2c[k]) = 0
      BY <1>1, <1>5, <2>6, Places DEF Asked
    <3>2. PICK m \in ToClient : s2c'[k] = Append(s2c[k], m)
      BY <1>1, <2>6, ServerTells
    <3>3. Len(s2c'[k]) = Len(s2c[k]) + 1
      BY <1>1, <3>2, Places
    <3>4. QED
      BY <1>1, <1>5, <2>3, <3>1, <3>3 DEF FirstLine
  <2>7. QED
    BY <2>4, <2>5, <2>6
<1>6. CASE k = conn /\ bpc = "manifest"
  <2>1. c2s[k] = << >> /\ s2c[k] = << >>
    BY <1>1, <1>6 DEF FirstLine
  <2>2. c2s'[k] = << >> /\ s2c'[k] = s2c[k]
    <3>1. link[k] = "open" => UNCHANGED wireVars
      BY <1>1, <2>1, ServerAnswers
    <3>2. link[k] # "open" => s2c'[k] = s2c[k]
      BY <1>1, ServerAnswers
    <3>3. c2s'[k] = << >>
      BY <1>1, <2>1, ServerActs
    <3>4. QED
      BY <3>1, <3>2, <3>3 DEF wireVars
  <2>3. mtimes' = mtimes
    BY <1>1, <2>1, ServerTells DEF Manifest, Gets
  <2>4. QED
    BY <1>1, <1>6, <2>1, <2>2, <2>3 DEF FirstLine
<1>7. CASE k = conn /\ bpc = "need"
  <2>1. \A i \in DOMAIN c2s[k] : c2s[k][i].t # "RESUME"
    BY <1>1, <1>7 DEF FirstLine
  <2>2. \A i \in DOMAIN c2s'[k] : c2s'[k][i].t # "RESUME"
    <3>1. PICK d \in {0, 1} : \A i \in DOMAIN c2s'[k] :
            i + d \in DOMAIN c2s[k] /\ c2s'[k][i] = c2s[k][i + d]
      BY <1>1, ServerReads
    <3>2. QED
      BY <2>1, <3>1
  <2>3. ~Resume(k)
    <3>1. SUFFICES ASSUME Resume(k) PROVE FALSE
      OBVIOUS
    <3>2. c2s[k] # << >> /\ Head(c2s[k]).t = "RESUME"
      BY <3>1 DEF Resume, Gets
    <3>3. 1 \in DOMAIN c2s[k] /\ Head(c2s[k]) = c2s[k][1]
      BY <1>1, <3>2, Places
    <3>4. QED
      BY <2>1, <3>2, <3>3
  <2>4. s2c'[k] # << >> => Past(k)'
    <3>1. s2c[k] # << >> => Past(k)
      BY <1>1, <1>7 DEF FirstLine
    <3>2. s2c'[k] = s2c[k] \/ Past(k) \/ Manifest(k)
      BY <1>1, <2>3, ServerTells
    <3>3. Manifest(k) => hpc'[k] = "files"
      BY <1>1 DEF Manifest, ServerOK
    <3>4. QED
      BY <1>3, <3>1, <3>2, <3>3 DEF Past
  <2>5. QED
    BY <1>1, <1>7, <2>2, <2>4 DEF FirstLine
<1>8. CASE k = conn /\ bpc \notin {"go", "manifest", "need"}
  BY <1>1, <1>3, <1>8 DEF FirstLine
<1>9. QED
  BY <1>4, <1>5, <1>6, <1>7, <1>8

(* The server keeps all that either side knows of the other.               *)
LEMMA ServerKeepsTalkInv ==
  ASSUME ServedInv, TalkInv, NEW k \in Conns, ServerAct(k), UNCHANGED clientVars
  PROVE  TalkInv'
<1>1. WireOK /\ ServerOK /\ Remembers /\ DoneIsLast /\ conn' = conn
  BY ServerActs DEF ServedInv, ClientInv, TalkInv
<1>2. Remembers'
  BY <1>1 DEF Remembers, clientVars
<1>3. DoneIsLast'
  <2>1. SUFFICES ASSUME NEW j \in Conns, NEW i \in DOMAIN c2s'[j], c2s'[j][i].t = "DONE"
                 PROVE  i = Len(c2s'[j]) /\ (j = conn => bpc \in {"ok", "off", "connect"})
    BY <1>1 DEF DoneIsLast, clientVars
  <2>2. CASE j # k
    <3>1. c2s'[j] = c2s[j]
      BY <1>1, <2>2, ServerActs
    <3>2. QED
      BY <1>1, <2>1, <3>1 DEF DoneIsLast
  <2>3. CASE j = k
    <3>1. PICK d \in {0, 1} : \A n \in DOMAIN c2s'[k] :
             /\ n \in Nat \ {0} /\ n + d \in DOMAIN c2s[k] /\ c2s'[k][n] = c2s[k][n + d]
             /\ Len(c2s'[k]) = Len(c2s[k]) - d
      BY <1>1, ServerReads
    <3>2. i + d = Len(c2s[k]) /\ (k = conn => bpc \in {"ok", "off", "connect"})
      BY <1>1, <2>1, <2>3, <3>1 DEF DoneIsLast
    <3>3. i \in Nat /\ Len(c2s'[k]) = Len(c2s[k]) - d
      BY <2>1, <2>3, <3>1
    <3>4. QED
      BY <2>3, <3>2, <3>3
  <2>4. QED
    BY <2>2, <2>3
<1>4. QED
  BY <1>2, <1>3, ServerKeepsUnanswered, ServerKeepsFirstLine DEF TalkInv

(***************************************************************************)
(* What either side knows of the other is kept by the client's thread.     *)
(***************************************************************************)

(* When the last connection has been answered, the others have been served *)
(* or are not used yet.                                                    *)
LEMMA OthersSilent ==
  ASSUME ServedInv, TalkInv, conn \in Conns, Past(conn), NEW k \in Conns, ~Past(k)
  PROVE  k # conn /\ k > conn /\ c2s[k] = << >> /\ hpc[k] = "none" /\ mtimes[k] = NoMtimes
<1>1. LinksOK /\ OneServed /\ Unanswered
  BY DEF ServedInv, TalkInv
<1>2. k # conn /\ ~(k < conn)
  BY <1>1 DEF OneServed, Past
<1>3. k > conn
  BY <1>2 DEF Conns
<1>4. QED
  BY <1>1, <1>2, <1>3 DEF LinksOK, Unanswered

(* What the thread says.                                                   *)
LEMMA ThreadSays ==
  ASSUME ServedInv, ThreadStep
  PROVE  \/ /\ conn' = conn /\ c2s' = c2s /\ bpc' # "send"
            /\ bpc \in {"ok", "off", "connect"} => bpc' = "off"
         \/ Connect
         \/ /\ conn' = conn /\ conn \in Conns
            /\ \E m \in ToServer :
                 /\ c2s' = Says(m)
                 /\ \/ /\ m.t = "MANIFEST" /\ (SendManifest \/ ManifestAborted)
                       /\ \A f \in Files : m.entries[f] \in {0, manifest[f]}
                    \/ m.t = "DONE" /\ (RecvNothingNeeded \/ SendDone)
                    \/ m.t = "FILE" /\ SkipFile /\ m.path = needs[idx] /\ disk[m.path] = 0
                    \/ /\ m.t = "FILE" /\ OpenFile /\ m.path = needs[idx]
                       /\ m.off = 0 \/ part.path = m.path
                       /\ m.size = Chunks - m.off
                    \/ m.t = "data" /\ SendChunk /\ m.v = disk[needs[idx]]
                    \/ m.t = "ABORT" /\ AbortNoticed
<1>1. /\ WireOK /\ ClientOK /\ PlaceOK
      /\ (bpc \notin {"off", "connect"} => conn \in Conns)
  BY Talking DEF ServedInv, ClientInv
<1> DEFINE Heed(m) ==
      \/ /\ m.t = "MANIFEST" /\ (SendManifest \/ ManifestAborted)
         /\ \A f \in Files : m.entries[f] \in {0, manifest[f]}
      \/ m.t = "DONE" /\ (RecvNothingNeeded \/ SendDone)
      \/ m.t = "FILE" /\ SkipFile /\ m.path = needs[idx] /\ disk[m.path] = 0
      \/ /\ m.t = "FILE" /\ OpenFile /\ m.path = needs[idx]
         /\ m.off = 0 \/ part.path = m.path
         /\ m.size = Chunks - m.off
      \/ m.t = "data" /\ SendChunk /\ m.v = disk[needs[idx]]
      \/ m.t = "ABORT" /\ AbortNoticed
<1>a. CASE Unreachable \/ RecvGo \/ RecvNeed \/ RecvFails \/ FileSent \/ SendFails \/ RecvOk
  <2>1. /\ conn' = conn /\ c2s' = c2s /\ bpc' # "send"
        /\ bpc \in {"ok", "off", "connect"} => bpc' = "off"
    BY <1>a DEF Unreachable, RecvGo, RecvNeed, RecvFails, Fail, End, FileSent, NextFile, SendFails,
                RecvOk, Here, wireVars
  <2>2. QED
    BY <2>1
<1>b. CASE RecvNothingNeeded \/ SendDone
  <2>1. conn' = conn /\ c2s' = Says([t |-> "DONE"]) /\ bpc \in {"need", "transfer"}
    BY <1>b DEF RecvNothingNeeded, SendDone, Here
  <2>2. Heed([t |-> "DONE"])
    BY <1>b
  <2>3. QED
    BY <1>1, <2>1, <2>2, ClientSays
<1>c. CASE SkipFile
  <2>1. bpc = "transfer" /\ bpc' = "transfer" /\ conn' = conn /\ idx <= Len(needs)
        /\ \/ c2s' = c2s
           \/ /\ c2s' = Says([t |-> "FILE", path |-> needs[idx], size |-> 0, off |-> 0])
              /\ needs[idx] # Junk /\ disk[needs[idx]] = 0
    BY <1>c DEF SkipFile, NextFile, Here
  <2>2. CASE c2s' = c2s
    BY <2>1, <2>2
  <2>3. CASE /\ c2s' = Says([t |-> "FILE", path |-> needs[idx], size |-> 0, off |-> 0])
             /\ needs[idx] # Junk /\ disk[needs[idx]] = 0
    <3>1. needs[idx] \in Files /\ 0 \in 0..Chunks
      BY <1>1, <2>1, <2>3, NextNeeded, Sizes
    <3>2. Heed([t |-> "FILE", path |-> needs[idx], size |-> 0, off |-> 0])
      BY <1>c, <2>3
    <3>3. QED
      BY <1>1, <2>1, <2>3, <3>1, <3>2, ClientSays
  <2>4. QED
    BY <2>1, <2>2, <2>3
<1>d. CASE OpenFile
  <2>1. PICK o \in 0..Chunks :
          /\ needs[idx] # Junk /\ idx <= Len(needs) /\ bpc = "transfer" /\ conn' = conn
          /\ o = 0 \/ part.path = needs[idx]
          /\ c2s' = Says([t |-> "FILE", path |-> needs[idx], size |-> Chunks - o, off |-> o])
    <3>1. (IF part.path = needs[idx] /\ part.off <= Chunks THEN part.off ELSE 0) \in 0..Chunks
      BY <1>1, Sizes DEF ClientOK
    <3>2. QED
      BY <1>d, <3>1 DEF OpenFile, Here
  <2>2. needs[idx] \in Files /\ Chunks - o \in 0..Chunks
    BY <1>1, <2>1, NextNeeded, Sizes
  <2>3. Heed([t |-> "FILE", path |-> needs[idx], size |-> Chunks - o, off |-> o])
    BY <1>d, <2>1
  <2>4. QED
    BY <1>1, <2>1, <2>2, <2>3, ClientSays
<1>e. CASE SendChunk
  <2>1. bpc = "send" /\ conn' = conn /\ c2s' = Says([t |-> "data", v |-> disk[needs[idx]]])
    BY <1>e DEF SendChunk, Here
  <2>2. disk[needs[idx]] \in 0..MaxVersion
    BY <1>1, <2>1 DEF PlaceOK, ClientOK
  <2>3. Heed([t |-> "data", v |-> disk[needs[idx]]])
    BY <1>e
  <2>4. QED
    BY <1>1, <2>1, <2>2, <2>3, ClientSays
<1>f. CASE AbortNoticed
  <2>1. bpc \notin {"off", "connect"} /\ conn' = conn /\ c2s' = Says([t |-> "ABORT"])
    BY <1>f DEF AbortNoticed, EndAborted
  <2>2. Heed([t |-> "ABORT"])
    BY <1>f
  <2>3. QED
    BY <1>1, <2>1, <2>2, ClientSays
<1>g. CASE SendManifest
  <2>1. bpc = "manifest" /\ conn' = conn /\ c2s' = Says([t |-> "MANIFEST", entries |-> manifest])
    BY <1>g DEF SendManifest, Here
  <2>2. Heed([t |-> "MANIFEST", entries |-> manifest])
    BY <1>g
  <2>3. QED
    BY <1>1, <2>1, <2>2, ClientSays DEF ClientOK
<1>h. CASE ManifestAborted
  <2>1. PICK S \in SUBSET Files :
          c2s' = Says([t |-> "MANIFEST",
                       entries |-> [f \in Files |-> IF f \in S THEN manifest[f] ELSE 0]])
    BY <1>h DEF ManifestAborted
  <2>2. bpc = "manifest" /\ conn' = conn /\ 0 \in 0..MaxVersion
    BY <1>h, Sizes DEF ManifestAborted, Here
  <2>3. [f \in Files |-> IF f \in S THEN manifest[f] ELSE 0] \in [Files -> 0..MaxVersion]
    BY <1>1, <2>2 DEF ClientOK
  <2>4. Heed([t |-> "MANIFEST", entries |-> [f \in Files |-> IF f \in S THEN manifest[f] ELSE 0]])
    BY <1>h
  <2>5. QED
    BY <1>1, <2>1, <2>2, <2>3, <2>4, ClientSays
<1>i. CASE Connect
  BY <1>i
<1>j. QED
  BY <1>a, <1>b, <1>c, <1>d, <1>e, <1>f, <1>g, <1>h, <1>i DEF ThreadStep, Negotiate, Transfer

(* The thread's steps: it says nothing; it talks to a server that has      *)
(* answered; it has nothing to resume; or it connects.                     *)
LEMMA ThreadTalks ==
  ASSUME ServedInv, TalkInv, ThreadStep
  PROVE  \/ conn' = conn /\ c2s' = c2s /\ session' \in {session, NoSession}
         \/ /\ conn' = conn /\ conn \in Conns /\ Past(conn)
            /\ c2s' = c2s \/ \E m \in ToServer : c2s' = Says(m)
         \/ /\ conn' = conn /\ conn \in Conns /\ session = NoSession /\ session' = NoSession
            /\ \E m \in ToServer : m.t \in {"MANIFEST", "ABORT"} /\ c2s' = Says(m)
         \/ Connect
<1>1. /\ WireOK /\ FirstLine /\ Remembers
      /\ (bpc \notin {"off", "connect"} => conn \in Conns)
  BY Talking DEF ServedInv, ClientInv, TalkInv
<1>2. Past(conn) \/ session' \in {session, NoSession}
  <2>1. CASE AbortNoticed
    <3>1. PICK n : EndAborted(n) /\ bpc \in {"manifest", "stop", "transfer"}
                   /\ (bpc \in {"manifest", "stop"} => n = 0)
      BY <2>1 DEF AbortNoticed
    <3>2. session' = IF n < Len(needs) THEN SavedFrom(n + 1, 0) ELSE session
      BY <3>1 DEF EndAborted
    <3>3. needs = << >> /\ n = 0 => session' = session
      BY <3>2
    <3>4. QED
      BY <1>1, <3>1, <3>3 DEF FirstLine, Remembers
  <2>2. CASE SendFails
    BY <1>1, <2>2 DEF SendFails, Here, FirstLine
  <2>3. CASE ~AbortNoticed /\ ~SendFails
    BY <2>3 DEF ThreadStep, Negotiate, Transfer, Unreachable, Connect, RecvGo, SendManifest,
      RecvNothingNeeded, RecvNeed, RecvFails, Fail, SkipFile, OpenFile, SendChunk, FileSent,
      SendDone, RecvOk, ManifestAborted, ClearSession, diskVars
  <2>4. QED
    BY <2>1, <2>2, <2>3
<1>3. bpc # "off"
  BY DEF ThreadStep, Negotiate, Transfer, Unreachable, Connect, RecvGo, SendManifest,
      RecvNothingNeeded, RecvNeed, RecvFails, SkipFile, OpenFile, SendChunk, FileSent,
      SendFails, SendDone, RecvOk, AbortNoticed, ManifestAborted, Here
<1>4. CASE conn' = conn /\ c2s' = c2s
  <2>1. bpc = "connect" => session' = session
    BY <1>4 DEF ThreadStep, Negotiate, Transfer, Unreachable, Connect, RecvGo, SendManifest,
      RecvNothingNeeded, RecvNeed, RecvFails, SkipFile, OpenFile, SendChunk, FileSent,
      SendFails, SendDone, RecvOk, AbortNoticed, ManifestAborted, Here, diskVars
  <2>2. QED
    BY <1>1, <1>2, <1>3, <1>4, <2>1
<1>5. RecvNothingNeeded \/ SendDone => Past(conn)
  BY <1>1 DEF RecvNothingNeeded, SendDone, Here, Hears, FirstLine
<1>6. SkipFile \/ OpenFile \/ SendChunk => Past(conn)
  BY <1>1 DEF SkipFile, OpenFile, SendChunk, Here, FirstLine
<1>7. SendManifest \/ ManifestAborted => session = NoSession /\ session' = NoSession
  BY <1>1 DEF SendManifest, ManifestAborted, Here, Remembers, diskVars
<1>8. AbortNoticed => Past(conn) \/ (session = NoSession /\ session' = NoSession)
  BY <1>1, <1>2 DEF AbortNoticed, FirstLine, Remembers
<1>9. QED
  BY <1>4, <1>5, <1>6, <1>7, <1>8, ThreadSays

(* A connection is unanswered from connect on until the thread has read    *)
(* the reply to its first line.                                            *)
LEMMA ThreadKeepsUnanswered ==
  ASSUME ServedInv, TalkInv, ThreadStep, UNCHANGED serverVars
  PROVE  Unanswered'
<1>1. /\ WireOK /\ ClientOK /\ PlaceOK /\ LinksOK /\ Unanswered /\ hpc' = hpc /\ mtimes' = mtimes
      /\ c2s \in [Conns -> Seq(ToServer)]
  BY DEF ServedInv, ClientInv, TalkInv, serverVars, WireOK
<1>2. SUFFICES ASSUME NEW k \in Conns, ~Past(k)
               PROVE  /\ \A i \in DOMAIN c2s'[k] : c2s'[k][i].t \notin {"FILE", "DONE"}
                      /\ session' # NoSession =>
                           /\ Len(c2s'[k]) <= 1 /\ (hpc[k] = "renew" => c2s'[k] = << >>)
                           /\ \A i \in DOMAIN c2s'[k] : c2s'[k][i].t = "RESUME"
  BY <1>1 DEF Unanswered, Past
<1>3. CASE c2s' = c2s /\ session' \in {session, NoSession}
  BY <1>1, <1>2, <1>3 DEF Unanswered
<1>4. CASE /\ conn \in Conns /\ Past(conn)
           /\ c2s' = c2s \/ \E m \in ToServer : c2s' = Says(m)
  <2>1. k # conn /\ c2s[k] = << >> /\ hpc[k] = "none"
    BY <1>2, <1>4, OthersSilent
  <2>2. c2s'[k] = << >>
    BY <1>1, <1>4, <2>1, ClientWrites
  <2>3. Len(c2s'[k]) = 0
    BY <2>2
  <2>4. QED
    BY <2>1, <2>2, <2>3
<1>5. CASE /\ conn \in Conns /\ session' = NoSession
           /\ \E m \in ToServer : m.t \in {"MANIFEST", "ABORT"} /\ c2s' = Says(m)
  <2>1. PICK m \in ToServer : m.t \in {"MANIFEST", "ABORT"} /\ c2s' = Says(m)
    BY <1>5
  <2>2. c2s'[k] = c2s[k] \/
          /\ k = conn /\ DOMAIN c2s'[conn] = 1..(Len(c2s[conn]) + 1)
          /\ DOMAIN c2s[conn] = 1..Len(c2s[conn]) /\ Len(c2s[conn]) \in Nat
          /\ \A i \in DOMAIN c2s[conn] : c2s'[conn][i] = c2s[conn][i]
          /\ c2s'[conn][Len(c2s[conn]) + 1] = m
    BY <1>1, <1>5, <2>1, ClientWrites
  <2>3. \A i \in DOMAIN c2s'[k] :
           (i \in DOMAIN c2s[k] /\ c2s'[k][i] = c2s[k][i]) \/ c2s'[k][i] = m
    BY <2>2
  <2>4. QED
    BY <1>1, <1>2, <1>5, <2>1, <2>3 DEF Unanswered
<1>6. CASE Connect
  <2>1. conn + 1 \in Conns /\ conn + 1 > conn
    BY <1>1, <1>6, Sizes DEF Connect, Here, PlaceOK, Conns, WireOK
  <2>2. hpc[conn + 1] = "none" /\ c2s[conn + 1] = << >>
    BY <1>1, <2>1 DEF LinksOK
  <2>3. session' = session
        /\ \/ session = NoSession /\ c2s' = c2s
           \/ c2s' = [c2s EXCEPT ![conn + 1] = << [t |-> "RESUME", path |-> session.path] >>]
    BY <1>6 DEF Connect, diskVars
  <2>4. CASE c2s' = c2s \/ k # conn + 1
    <3>1. c2s'[k] = c2s[k]
      BY <1>1, <2>3, <2>4
    <3>2. QED
      BY <1>1, <1>2, <2>3, <3>1 DEF Unanswered
  <2>5. CASE k = conn + 1 /\ c2s' # c2s
    <3>1. c2s'[k] = << [t |-> "RESUME", path |-> session.path] >>
      BY <1>1, <2>1, <2>3, <2>5
    <3>2. Len(c2s'[k]) = 1 /\ DOMAIN c2s'[k] = {1} /\ c2s'[k][1].t = "RESUME"
      BY <3>1
    <3>3. hpc[k] # "renew"
      BY <2>2, <2>5
    <3>4. QED
      BY <3>2, <3>3
  <2>6. QED
    BY <2>4, <2>5
<1>7. QED
  BY <1>3, <1>4, <1>5, <1>6, ThreadTalks

(* The needs, the index and the part of the thread stay within its list.   *)
LEMMA ThreadKeepsRemembers ==
  ASSUME ServedInv, TalkInv, ThreadStep
  PROVE  Remembers'
<1>1. ClientOK /\ PlaceOK /\ Remembers
  BY DEF ServedInv, ClientInv, TalkInv
<1> USE DEF Remembers
<1>a. CASE Unreachable \/ SendManifest \/ ManifestAborted
  BY <1>1, <1>a DEF Unreachable, SendManifest, ManifestAborted, Here, diskVars
<1>b. CASE Connect
  BY <1>1, <1>b DEF Connect, Here, diskVars
<1>c. CASE RecvGo \/ RecvNothingNeeded \/ RecvOk
  BY <1>1, <1>c DEF RecvGo, RecvNothingNeeded, RecvOk, ClearSession, End, Here
<1>d. CASE RecvFails
  BY <1>1, <1>d DEF RecvFails, Fail, End, diskVars
<1>e. CASE AbortNoticed
  <2>1. aborting /\ aborting' = aborting /\ bpc' = "off"
    BY <1>e DEF AbortNoticed, EndAborted, End
  <2>2. QED
    BY <2>1
<1>f. CASE SkipFile \/ OpenFile \/ SendChunk \/ FileSent \/ SendDone
  <2>1. bpc' \in {"transfer", "send", "ok"}
    BY <1>f DEF SkipFile, OpenFile, SendChunk, FileSent, SendDone, NextFile, Here
  <2>2. QED
    BY <2>1
<1>g. CASE SendFails
  <2>1. bpc' = "off" /\ session' = SavedFrom(idx, pos.from) /\ bpc = "send"
    BY <1>g DEF SendFails, End, Here
  <2>2. idx <= Len(needs) /\ idx \in Nat /\ 1 <= idx /\ pos.from \in 0..Chunks
    BY <1>1, <2>1, Sizes DEF PlaceOK, ClientOK
  <2>3. session'.needs # << >>
    BY <1>1, <2>1, <2>2, SavesWell, Zenon
  <2>4. session' # NoSession
    BY <2>3 DEF NoSession
  <2>5. QED
    BY <2>1, <2>4
<1>h. CASE RecvNeed
  <2>1. bpc' \in {"transfer", "stop"} /\ bpc = "need" /\ s2c[conn] # << >>
        /\ Head(s2c[conn]).t = "NEED" /\ Head(s2c[conn]).files # << >>
    BY <1>h DEF RecvNeed, Here, Hears
  <2>2. Head(s2c[conn]).files \in NeedLists
    BY <2>1, HeardWell, SaidToClient DEF ServedInv
  <2>3. Len(Head(s2c[conn]).files) \in Nat \ {0}
        /\ DOMAIN Head(s2c[conn]).files = 1..Len(Head(s2c[conn]).files)
    <3>1. Head(s2c[conn]).files \in Seq(Files \cup {Junk})
      BY <2>2 DEF NeedLists
    <3>2. QED
      BY <2>1, <3>1, Places
  <2>4. 1 \in DOMAIN Head(s2c[conn]).files
    BY <2>3
  <2>5. 1 \in DOMAIN needs'
    BY <1>h, <2>4 DEF RecvNeed
  <2>6. needs' # << >>
    BY <2>5
  <2>7. QED
    BY <2>1, <2>6
<1>i. QED
  BY <1>a, <1>b, <1>c, <1>d, <1>e, <1>f, <1>g, <1>h DEF ThreadStep, Negotiate, Transfer

(* The thread says a first line once, on a connection it has just opened.  *)
LEMMA ThreadKeepsFirstLine ==
  ASSUME ServedInv, TalkInv, ThreadStep, UNCHANGED serverVars
  PROVE  FirstLine'
<1>1. /\ WireOK /\ ClientOK /\ PlaceOK /\ LinksOK /\ Negotiating /\ FirstLine /\ Remembers
      /\ Unanswered /\ hpc' = hpc /\ mtimes' = mtimes
      /\ (bpc \notin {"off", "connect"} => conn \in Conns)
      /\ c2s \in [Conns -> Seq(ToServer)] /\ s2c \in [Conns -> Seq(ToClient)]
  BY Talking DEF ServedInv, ClientInv, TalkInv, serverVars, WireOK
<1>a. CASE Connect
  <2>1. conn + 1 \in Conns /\ conn + 1 > conn /\ conn' = conn + 1 /\ s2c' = s2c
    BY <1>1, <1>a, Sizes DEF Connect, Here, PlaceOK, Conns, WireOK
  <2>2. hpc[conn + 1] = "none" /\ c2s[conn + 1] = << >> /\ s2c[conn + 1] = << >>
    BY <1>1, <2>1 DEF LinksOK
  <2>3. mtimes[conn + 1] = NoMtimes
    BY <1>1, <2>1, <2>2 DEF Unanswered, Past
  <2>4. bpc' \in {"manifest", "go"} /\ (bpc' = "manifest" => c2s' = c2s)
    BY <1>a DEF Connect
  <2>5. Len(s2c'[conn']) <= 1 /\ s2c'[conn'] = << >> /\ mtimes'[conn'] = NoMtimes
    BY <1>1, <2>1, <2>2, <2>3
  <2>6. bpc' = "manifest" => c2s'[conn'] = << >>
    BY <2>1, <2>2, <2>4
  <2>7. QED
    BY <2>4, <2>5, <2>6 DEF FirstLine
<1>b. CASE RecvGo
  <2>1. bpc = "go" /\ s2c[conn] # << >> /\ conn' = conn /\ c2s' = c2s /\ s2c' = Heard
        /\ \/ Head(s2c[conn]).t = "GO" /\ bpc' = "transfer"
           \/ Head(s2c[conn]).t = "NEW" /\ bpc' = "manifest"
    BY <1>b DEF RecvGo, Here, Hears
  <2>2. conn \in Conns /\ mtimes[conn] = NoMtimes /\ Len(s2c[conn]) <= 1
    BY <1>1, <2>1 DEF FirstLine
  <2>3. c2s[conn] = << >> /\ (Head(s2c[conn]).t = "GO" => hpc[conn] = "files")
    BY <1>1, <2>1 DEF Negotiating, Asked, Granted, Refused, Broken
  <2>4. s2c'[conn] = << >>
    <3>1. s2c[conn] \in Seq(ToClient) /\ s2c'[conn] = Tail(s2c[conn])
      BY <1>1, <2>1, <2>2 DEF Heard
    <3>2. QED
      BY <2>1, <2>2, <3>1, LastOne
  <2>5. QED
    BY <1>1, <2>1, <2>2, <2>3, <2>4 DEF FirstLine, Past
<1>c. CASE SendManifest
  <2>1. bpc = "manifest" /\ bpc' = "need" /\ conn' = conn /\ s2c' = s2c
        /\ c2s' = Says([t |-> "MANIFEST", entries |-> manifest])
    BY <1>c DEF SendManifest, Here
  <2>2. conn \in Conns /\ c2s[conn] = << >> /\ s2c[conn] = << >>
    BY <1>1, <2>1 DEF FirstLine
  <2>3. [t |-> "MANIFEST", entries |-> manifest] \in ToServer
    BY <1>1, ClientSays DEF ClientOK
  <2>4. \A i \in DOMAIN c2s'[conn] : c2s'[conn][i].t # "RESUME"
    <3>1. c2s'[conn] = c2s[conn] \/
            /\ DOMAIN c2s'[conn] = 1..(Len(c2s[conn]) + 1)
            /\ c2s'[conn][Len(c2s[conn]) + 1] = [t |-> "MANIFEST", entries |-> manifest]
      BY <1>1, <2>1, <2>2, <2>3, ClientWrites
    <3>2. Len(c2s[conn]) = 0
      BY <2>2
    <3>3. CASE c2s'[conn] = c2s[conn]
      BY <2>2, <3>3
    <3>4. CASE DOMAIN c2s'[conn] = 1..1
               /\ c2s'[conn][1] = [t |-> "MANIFEST", entries |-> manifest]
      BY <3>4
    <3>5. QED
      BY <3>1, <3>2, <3>3, <3>4
  <2>5. QED
    BY <2>1, <2>2, <2>4 DEF FirstLine
<1>d. CASE RecvNeed
  <2>1. bpc = "need" /\ s2c[conn] # << >> /\ conn' = conn /\ bpc' \in {"stop", "transfer"}
        /\ part' = NoPart
    BY <1>d DEF RecvNeed, Here, Hears
  <2>2. Past(conn)
    BY <1>1, <2>1 DEF FirstLine
  <2>3. QED
    BY <1>1, <2>1, <2>2 DEF FirstLine, Past, NoPart
<1>e. CASE ManifestAborted
  <2>1. bpc = "manifest" /\ bpc' = "stop" /\ needs' = needs
    BY <1>e DEF ManifestAborted, Here
  <2>2. QED
    BY <1>1, <2>1 DEF FirstLine, Remembers
<1>f. CASE SkipFile \/ FileSent \/ OpenFile \/ SendChunk
  <2>1. bpc \in {"transfer", "send"} /\ bpc' \in {"transfer", "send"} /\ conn' = conn
        /\ part' \in {part, NoPart}
    BY <1>f DEF SkipFile, FileSent, OpenFile, SendChunk, NextFile, Here, wireVars
  <2>2. QED
    BY <1>1, <2>1 DEF FirstLine, Past, NoPart
<1>g. CASE bpc' \in {"off", "connect", "ok"}
  BY <1>g DEF FirstLine
<1>h. QED
  <2>1. \/ Connect \/ RecvGo \/ SendManifest \/ RecvNeed \/ ManifestAborted \/ SkipFile \/ FileSent
        \/ OpenFile \/ SendChunk \/ bpc' \in {"off", "connect", "ok"}
    BY DEF ThreadStep, Negotiate, Transfer, Unreachable, RecvNothingNeeded, RecvFails, Fail,
           SendFails, SendDone, RecvOk, AbortNoticed, EndAborted, End
  <2>2. QED
    BY <1>a, <1>b, <1>c, <1>d, <1>e, <1>f, <1>g, <2>1

(* The thread says DONE last.                                              *)
LEMMA ThreadKeepsDone ==
  ASSUME ServedInv, TalkInv, ThreadStep
  PROVE  DoneIsLast'
<1>1. WireOK /\ PlaceOK /\ LinksOK /\ DoneIsLast /\ c2s \in [Conns -> Seq(ToServer)]
  BY DEF ServedInv, ClientInv, TalkInv, WireOK
<1>2. SUFFICES ASSUME NEW k \in Conns, NEW i \in DOMAIN c2s'[k], c2s'[k][i].t = "DONE"
               PROVE  i = Len(c2s'[k]) /\ (k = conn' => bpc' \in {"ok", "off", "connect"})
  BY DEF DoneIsLast
<1>3. CASE conn' = conn /\ c2s' = c2s /\ (bpc \in {"ok", "off", "connect"} => bpc' = "off")
  BY <1>1, <1>2, <1>3 DEF DoneIsLast
<1>4. CASE Connect
  <2>1. conn + 1 \in Conns /\ conn + 1 > conn /\ conn' = conn + 1
    BY <1>1, <1>4, Sizes DEF Connect, Here, PlaceOK, Conns, WireOK
  <2>2. c2s[conn + 1] = << >>
    BY <1>1, <2>1 DEF LinksOK
  <2>3. c2s' = c2s
           \/ c2s' = [c2s EXCEPT ![conn + 1] = << [t |-> "RESUME", path |-> session.path] >>]
    BY <1>4 DEF Connect
  <2>4. CASE k = conn + 1
    <3>1. c2s'[k] = << >> \/ c2s'[k] = << [t |-> "RESUME", path |-> session.path] >>
      BY <1>1, <2>1, <2>2, <2>3, <2>4
    <3>2. QED
      BY <1>2, <3>1
  <2>5. CASE k # conn + 1
    <3>1. c2s'[k] = c2s[k] /\ k # conn'
      BY <1>1, <2>1, <2>3, <2>5
    <3>2. QED
      BY <1>1, <1>2, <3>1 DEF DoneIsLast
  <2>6. QED
    BY <2>4, <2>5
<1>5. ASSUME NEW m \in ToServer, c2s' = Says(m), conn \in Conns, conn' = conn,
             bpc \notin {"ok", "off", "connect"}, m.t = "DONE" => bpc' \in {"ok", "off"}
      PROVE  i = Len(c2s'[k]) /\ (k = conn' => bpc' \in {"ok", "off", "connect"})
  <2>1. CASE c2s'[k] = c2s[k]
    BY <1>1, <1>2, <1>5, <2>1 DEF DoneIsLast
  <2>2. CASE c2s'[k] # c2s[k]
    <3>1. k = conn /\ Len(c2s'[k]) = Len(c2s[k]) + 1
          /\ DOMAIN c2s'[k] = 1..(Len(c2s[k]) + 1) /\ DOMAIN c2s[k] = 1..Len(c2s[k])
          /\ (\A n \in DOMAIN c2s[k] : c2s'[k][n] = c2s[k][n])
          /\ c2s'[k][Len(c2s[k]) + 1] = m /\ Len(c2s[k]) \in Nat
      BY <1>1, <1>5, <2>2, ClientWrites
    <3>2. i \in DOMAIN c2s[k] \/ i = Len(c2s[k]) + 1
      BY <1>2, <3>1
    <3>3. CASE i \in DOMAIN c2s[k]
      <4>1. c2s[k][i].t = "DONE"
        BY <1>2, <3>1, <3>3
      <4>2. QED
        BY <1>1, <1>5, <3>1, <3>3, <4>1 DEF DoneIsLast
    <3>4. CASE i = Len(c2s[k]) + 1
      BY <1>2, <1>5, <3>1, <3>4
    <3>5. QED
      BY <3>2, <3>3, <3>4
  <2>3. QED
    BY <2>1, <2>2
<1>6. /\ RecvNothingNeeded \/ SendDone => bpc' \in {"ok", "off"}
      /\ RecvNothingNeeded \/ SendDone \/ SkipFile \/ OpenFile \/ SendChunk \/ AbortNoticed
           \/ SendManifest \/ ManifestAborted => bpc \notin {"ok", "off", "connect"}
  BY DEF RecvNothingNeeded, SendDone, SkipFile, OpenFile, SendChunk, AbortNoticed, SendManifest,
         ManifestAborted, End, Here
<1>7. QED
  BY <1>3, <1>4, <1>5, <1>6, ThreadSays

(***************************************************************************)
(* And by the rest of the console, and by a connection that breaks.        *)
(***************************************************************************)

(* A connection that breaks takes messages away and adds none.             *)
LEMMA LoseKeepsTalkInv ==
  ASSUME ServedInv, TalkInv, NEW k \in Conns, Lose(k), UNCHANGED serverVars,
         \/ UNCHANGED clientVars
         \/ bpc' = "off" /\ needs' = << >> /\ session' = session
  PROVE  TalkInv'
<1>1. /\ WireOK /\ conn' = conn /\ hpc' = hpc /\ mtimes' = mtimes /\ session' = session
      /\ Remembers /\ Unanswered /\ FirstLine /\ DoneIsLast
      /\ (bpc \notin {"off", "connect"} => conn \in Conns)
      /\ (\A j \in Conns : c2s[j] \in Seq(ToServer))
  BY Breaks, Talking DEF ServedInv, ClientInv, TalkInv, serverVars, clientVars, WireOK
<1>2. \A j \in Conns : j # k => c2s'[j] = c2s[j] /\ s2c'[j] = s2c[j]
  BY <1>1, Breaks
<1>3. /\ \A i \in DOMAIN c2s'[k] : i \in DOMAIN c2s[k] /\ c2s'[k][i] = c2s[k][i]
      /\ Len(c2s'[k]) <= Len(c2s[k]) /\ Len(c2s'[k]) \in Nat
      /\ DOMAIN c2s'[k] = 1..Len(c2s'[k]) /\ DOMAIN c2s[k] = 1..Len(c2s[k]) /\ Len(c2s[k]) \in Nat
      /\ s2c'[k] = << >>
  BY <1>1, Breaks
<1>4. c2s[k] = << >> => c2s'[k] = << >>
  <2>1. c2s'[k] \in Seq(ToServer)
    BY <1>1, LoseKeepsWire DEF WireOK
  <2>2. Len(c2s[k]) = 0 => Len(c2s'[k]) = 0
    BY <1>3
  <2>3. QED
    BY <1>1, <2>1, <2>2, Places, Zenon
<1>5. Remembers'
  BY <1>1 DEF Remembers, clientVars
<1>6. Unanswered'
  <2>1. SUFFICES ASSUME NEW j \in Conns, ~Past(j)
                 PROVE  /\ \A i \in DOMAIN c2s'[j] : c2s'[j][i].t \notin {"FILE", "DONE"}
                        /\ session # NoSession =>
                             /\ Len(c2s'[j]) <= 1 /\ (hpc[j] = "renew" => c2s'[j] = << >>)
                             /\ \A i \in DOMAIN c2s'[j] : c2s'[j][i].t = "RESUME"
    BY <1>1 DEF Unanswered, Past
  <2>2. CASE j # k
    BY <1>1, <1>2, <2>1, <2>2 DEF Unanswered
  <2>3. CASE j = k
    <3>1. Len(c2s[k]) <= 1 => Len(c2s'[k]) <= 1
      <4>1. Len(c2s'[k]) <= Len(c2s[k]) /\ Len(c2s'[k]) \in Nat /\ Len(c2s[k]) \in Nat
        BY <1>3
      <4>2. \A a, b \in Nat : a <= b /\ b <= 1 => a <= 1
        OBVIOUS
      <4>3. QED
        BY <4>1, <4>2
    <3>2. QED
      BY <1>1, <1>3, <1>4, <2>1, <2>3, <3>1 DEF Unanswered
  <2>4. QED
    BY <2>2, <2>3
<1>7. FirstLine'
  <2>1. CASE bpc' = "off"
    BY <2>1 DEF FirstLine
  <2>2. CASE UNCHANGED clientVars /\ k # conn
    <3>1. bpc' = bpc /\ needs' = needs /\ part' = part
      BY <2>2 DEF clientVars
    <3>2. conn \in Conns => c2s'[conn] = c2s[conn] /\ s2c'[conn] = s2c[conn]
      BY <1>2, <2>2
    <3>3. QED
      BY <1>1, <3>1, <3>2 DEF FirstLine, Past
  <2>3. CASE UNCHANGED clientVars /\ k = conn
    <3>1. bpc' = bpc /\ needs' = needs /\ part' = part
      BY <2>3 DEF clientVars
    <3>2. Len(s2c'[conn]) <= 1
      <4>1. s2c'[conn] = << >> /\ Len(<< >>) = 0
        BY <1>3, <2>3
      <4>2. QED
        BY <4>1
    <3>3. QED
      BY <1>1, <1>3, <1>4, <2>3, <3>1, <3>2 DEF FirstLine, Past
  <2>4. QED
    BY <2>1, <2>2, <2>3
<1>8. DoneIsLast'
  <2>1. SUFFICES ASSUME NEW j \in Conns, NEW i \in DOMAIN c2s'[j], c2s'[j][i].t = "DONE"
                 PROVE  i = Len(c2s'[j]) /\ (j = conn => bpc' \in {"ok", "off", "connect"})
    BY <1>1 DEF DoneIsLast
  <2>2. bpc' = bpc \/ bpc' = "off"
    BY DEF clientVars
  <2>3. CASE j # k
    <3>1. c2s'[j] = c2s[j]
      BY <1>2, <2>3
    <3>2. i = Len(c2s[j]) /\ (j = conn => bpc \in {"ok", "off", "connect"})
      BY <1>1, <2>1, <3>1 DEF DoneIsLast
    <3>3. QED
      BY <2>2, <3>1, <3>2
  <2>4. CASE j = k
    <3>1. i \in DOMAIN c2s[k] /\ c2s[k][i].t = "DONE" /\ i \in 1..Len(c2s'[k])
      BY <1>3, <2>1, <2>4
    <3>2. i = Len(c2s[k]) /\ (k = conn => bpc \in {"ok", "off", "connect"})
      BY <1>1, <3>1 DEF DoneIsLast
    <3>3. Len(c2s'[k]) <= Len(c2s[k]) /\ Len(c2s'[k]) \in Nat /\ Len(c2s[k]) \in Nat
      BY <1>3
    <3>4. i = Len(c2s'[k])
      BY <3>1, <3>2, <3>3
    <3>5. QED
      BY <2>2, <2>4, <3>2, <3>4
  <2>5. QED
    BY <2>3, <2>4
<1>9. QED
  BY <1>5, <1>6, <1>7, <1>8 DEF TalkInv

(* Whatever the console does, its channels are as they were, or its        *)
(* connection breaks.                                                      *)
LEMMA ConsoleKeepsTalkInv ==
  ASSUME ServedInv, TalkInv, UNCHANGED serverVars,
         Boot \/ SwitchOff \/ (\E f \in Files : Play(f)) \/ Start \/ Abort \/ ScanStep
  PROVE  TalkInv'
<1>1. CASE UNCHANGED wireVars
  <2>1. session' = session /\ conn' = conn /\ c2s' = c2s /\ s2c' = s2c /\ hpc' = hpc
        /\ mtimes' = mtimes
    BY <1>1 DEF serverVars, wireVars, Boot, SwitchOff, Play, Start, Abort, ScanStep, ScanSaves,
                ScanDone, diskVars
  <2>2. \/ bpc' = bpc /\ needs' = needs /\ part' = part /\ (aborting' = aborting \/ aborting')
        \/ bpc' = "off" /\ needs' = << >>
        \/ bpc = "off" /\ bpc' = "connect" /\ ~aborting /\ needs' = needs
    BY DEF Boot, SwitchOff, Play, Start, Abort, ScanStep, ScanSaves, ScanDone, threadVars
  <2>3. TalkInv
    OBVIOUS
  <2>4. Remembers' /\ Unanswered' /\ DoneIsLast'
    BY <2>1, <2>2, <2>3 DEF TalkInv, Remembers, Unanswered, DoneIsLast, Past
  <2>5. FirstLine'
    BY <2>1, <2>2, <2>3 DEF TalkInv, FirstLine, Past
  <2>6. QED
    BY <2>4, <2>5 DEF TalkInv
<1>2. CASE SwitchOff /\ ~UNCHANGED wireVars
  <2>1. conn > 0 /\ link[conn] = "open" /\ Lose(conn)
    BY <1>2 DEF SwitchOff
  <2>2. conn \in Conns
    BY <2>1, Sizes DEF ServedInv, ClientInv, WireOK, Conns
  <2>3. bpc' = "off" /\ needs' = << >> /\ session' = session
    BY <1>2 DEF SwitchOff, diskVars
  <2>4. QED
    BY <2>1, <2>2, <2>3, LoseKeepsTalkInv
<1>3. QED
  BY <1>1, <1>2 DEF Boot, SwitchOff, Play, Start, Abort, ScanStep, ScanSaves, ScanDone

(* Every step keeps what either side knows of the other.                   *)
LEMMA StepTalkInv ==
  ASSUME ServedInv, TalkInv, [BackupNext]_allVars
  PROVE  TalkInv'
<1>1. CASE Server
  <2>1. PICK k \in Conns : ServerAct(k)
    BY <1>1 DEF Server, ServerStep, ServerAct
  <2>2. QED
    BY <1>1, <2>1, ServerKeepsTalkInv DEF Server
<1>2. CASE Network
  BY <1>2, LoseKeepsTalkInv DEF Network
<1>3. CASE Client
  <2>1. CASE ThreadStep
    BY <1>3, <2>1, ThreadKeepsRemembers, ThreadKeepsUnanswered, ThreadKeepsFirstLine,
       ThreadKeepsDone DEF Client, TalkInv
  <2>2. CASE ~ThreadStep
    BY <1>3, <2>2, ConsoleKeepsTalkInv DEF Client, ClientStep
  <2>3. QED
    BY <2>1, <2>2
<1>4. CASE UNCHANGED allVars
  <2>1. UNCHANGED << wireVars, clientVars, serverVars >>
    BY <1>4 DEF allVars
  <2>2. QED
    BY <2>1 DEF TalkInv, Remembers, Unanswered, FirstLine, DoneIsLast, Past, wireVars, clientVars,
                serverVars
<1>5. QED
  BY <1>1, <1>2, <1>3, <1>4 DEF BackupNext

(* Nothing is said at the start.                                           *)
LEMMA InitTalkInv == BackupInit => TalkInv
<1> SUFFICES ASSUME BackupInit PROVE TalkInv
  OBVIOUS
<1>1. /\ \A k \in Conns : c2s[k] = << >> /\ mtimes[k] = NoMtimes
      /\ needs = << >> /\ bpc = "off" /\ session = NoSession
  BY DEF BackupInit, WireInit, ClientInit, ServerInit
<1>2. QED
  BY <1>1 DEF TalkInv, Remembers, Unanswered, FirstLine, DoneIsLast

(***************************************************************************)
(* A save that is there: what the server does about it.                    *)
(***************************************************************************)

(* A list of files has all of them.                                        *)
LEMMA ListsAll ==
  ASSUME NEW T \in SUBSET Files, NEW s \in SetToSeqs(T), NEW f
  PROVE  Listed(s, f) <=> f \in T
<1> DEFINE n == Cardinality(T)
<1>1. IsFiniteSet(T) /\ n \in Nat
  BY WireAssumption, FS_Subset, FS_CardinalityType
<1>2. s \in [1..n -> T] /\ \A i, j \in 1..n : i # j => s[i] # s[j]
  BY DEF SetToSeqs
<1>3. s \in Injection(1..n, T)
  BY <1>2 DEF Injection, IsInjective
<1>4. IsFiniteSet(1..n) /\ Cardinality(1..n) = n
  BY <1>1, FS_Interval
<1>5. s \in Surjection(1..n, T)
  BY <1>1, <1>3, <1>4, FS_Injection
<1>6. f \in T => \E i \in 1..n : s[i] = f
  BY <1>5 DEF Surjection
<1>7. QED
  BY <1>2, <1>6 DEF Listed

(* DONE is read of a connection that is served alone, and by then the      *)
(* client has nothing more to send on it.                                  *)
LEMMA DoneAlone ==
  ASSUME ServedInv, TalkInv, NEW k \in Conns, Done(k)
  PROVE  /\ Len(c2s[k]) = 1 /\ c2s[k][1].t = "DONE" /\ DOMAIN c2s[k] = {1}
         /\ k = conn => bpc \in {"ok", "off", "connect"}
         /\ conn \in Conns /\ Past(conn) => bpc \in {"ok", "off", "connect"}
         /\ \A j \in Conns : j # k => hpc[j] \in {"none", "gone", "crashed"}
         /\ hpc[k] = "files" /\ hpc'[k] = "gone"
<1>1. WireOK /\ ServerOK /\ LinksOK /\ OneServed /\ DoneIsLast /\ c2s[k] \in Seq(ToServer)
  BY DEF ServedInv, ClientInv, TalkInv, WireOK
<1>2. hpc[k] = "files" /\ c2s[k] # << >> /\ Head(c2s[k]).t = "DONE" /\ hpc'[k] = "gone"
  BY <1>1 DEF Done, Gets, ServerOK
<1>3. 1 \in DOMAIN c2s[k] /\ c2s[k][1].t = "DONE" /\ DOMAIN c2s[k] = 1..Len(c2s[k])
  BY <1>1, <1>2, Places
<1>4. Len(c2s[k]) = 1 /\ (k = conn => bpc \in {"ok", "off", "connect"})
  BY <1>1, <1>3 DEF DoneIsLast
<1>5. ASSUME NEW j \in Conns, j # k PROVE hpc[j] \in {"none", "gone", "crashed"}
  BY <1>1, <1>2, <1>5, Alone
<1>6. ASSUME conn \in Conns, Past(conn), conn # k PROVE FALSE
  <2>1. k < conn \/ k > conn
    BY <1>6 DEF Conns
  <2>2. ~(k > conn)
    BY <1>1, <1>2 DEF LinksOK
  <2>3. hpc[conn] = "none"
    BY <1>1, <1>2, <1>6, <2>1, <2>2 DEF OneServed, Past
  <2>4. QED
    BY <1>6, <2>3 DEF Past
<1>7. QED
  BY <1>2, <1>3, <1>4, <1>5, <1>6

(* What the server needs is what it lacks.                                 *)
LEMMA ServerKeepsKnown ==
  ASSUME ServedInv, NEW k \in Conns, ServerAct(k), UNCHANGED clientVars,
         NEW f \in Files, Known(f)
  PROVE  Known(f)'
<1>1. WireOK /\ ServerOK /\ c2s[k] \in Seq(ToServer)
      /\ disk' = disk /\ manifest' = manifest /\ cache' = cache
  BY DEF ServedInv, ClientInv, clientVars, WireOK
<1>2. SUFFICES ASSUME NEW j \in Conns
               PROVE  /\ mtimes'[j][f] \in {0, disk[f]}
                      /\ \A i \in DOMAIN c2s'[j] :
                           c2s'[j][i].t = "MANIFEST" => c2s'[j][i].entries[f] \in {0, disk[f]}
  BY <1>1 DEF Known
<1>3. CASE j # k
  BY <1>1, <1>2, <1>3, ServerActs, ServerTells DEF Known
<1>4. CASE j = k
  <2>1. PICK d \in {0, 1} : \A i \in DOMAIN c2s'[k] :
          i + d \in DOMAIN c2s[k] /\ c2s'[k][i] = c2s[k][i + d]
    BY <1>1, ServerReads
  <2>2. ASSUME Manifest(k) PROVE mtimes'[k][f] \in {0, disk[f]}
    <3>1. mtimes'[k] = Head(c2s[k]).entries /\ c2s[k] # << >> /\ Head(c2s[k]).t = "MANIFEST"
      BY <1>1, <2>2 DEF Manifest, Gets, ServerOK
    <3>2. 1 \in DOMAIN c2s[k] /\ Head(c2s[k]) = c2s[k][1]
      BY <1>1, <3>1, Places
    <3>3. QED
      BY <3>1, <3>2 DEF Known
  <2>3. mtimes'[k][f] \in {0, disk[f]}
    BY <1>1, <2>2, ServerTells DEF Known
  <2>4. QED
    BY <1>4, <2>1, <2>3 DEF Known
<1>5. QED
  BY <1>3, <1>4

(* What is lacking stays so until a snapshot is promoted.                  *)
LEMMA LackingStays ==
  ASSUME NEW f \in Files, disk'[f] = disk[f], latest' = latest
  PROVE  Lacks(f)' <=> Lacks(f)
  BY DEF Lacks, Differs

(* The server lists what it lacks, and nothing of the save is promoted but *)
(* what it lacked.                                                         *)
LEMMA ServerKeepsLists ==
  ASSUME ServedInv, TalkInv, NEW k \in Conns, ServerAct(k), UNCHANGED clientVars,
         NEW f \in Files, disk[f] > 0, SaveInv(f)
  PROVE  ListsLack(f)'
<1>1. /\ WireOK /\ ServerOK /\ Remembers /\ FirstLine /\ Unanswered /\ Negotiating
      /\ Known(f) /\ ListsLack(f) /\ c2s[k] \in Seq(ToServer) /\ s2c[k] \in Seq(ToClient)
      /\ (bpc \notin {"off", "connect"} => conn \in Conns)
  BY Talking DEF ServedInv, ClientInv, TalkInv, SaveInv, WireOK
<1>2. /\ bpc' = bpc /\ needs' = needs /\ session' = session /\ disk' = disk /\ conn' = conn
  BY <1>1, ServerActs DEF clientVars
<1>3. Listed(session.needs, f) => session # NoSession
  BY DEF Listed, NoSession
<1>4. CASE Done(k)
  <2>1. /\ k = conn => bpc \in {"ok", "off", "connect"}
        /\ conn \in Conns /\ Past(conn) => bpc \in {"ok", "off", "connect"}
        /\ \A j \in Conns : hpc'[j] \notin {"files", "data"}
    BY <1>1, <1>4, DoneAlone, ServerActs
  <2>2. ~saved'
    BY <1>4 DEF Done
  <2>3. ~(bpc \in {"transfer", "send", "stop"} /\ Listed(needs, f))
    BY <1>1, <2>1 DEF FirstLine, Listed
  <2>4. ~(bpc = "need" /\ s2c'[conn] # << >>)
    <3>1. SUFFICES ASSUME bpc = "need", s2c'[conn] # << >> PROVE FALSE
      OBVIOUS
    <3>2. s2c'[conn] = s2c[conn]
      BY <1>1, <2>1, <3>1, ServerActs
    <3>3. QED
      BY <1>1, <2>1, <3>1, <3>2 DEF FirstLine
  <2>5. ~(bpc = "go" /\ s2c'[conn] # << >> /\ Head(s2c'[conn]).t = "GO")
    <3>1. SUFFICES ASSUME bpc = "go", s2c'[conn] # << >>, Head(s2c'[conn]).t = "GO" PROVE FALSE
      OBVIOUS
    <3>2. s2c'[conn] = s2c[conn]
      BY <1>1, <2>1, <3>1, ServerActs
    <3>3. hpc[conn] = "files"
      BY <1>1, <3>1, <3>2 DEF Negotiating, Asked, Granted, Refused, Broken
    <3>4. QED
      BY <1>1, <2>1, <3>1, <3>3 DEF Past
  <2>6. QED
    BY <1>2, <2>1, <2>2, <2>3, <2>4, <2>5 DEF ListsLack
<1>5. CASE ~Done(k)
  <2>1. latest' = latest
    BY <1>5 DEF ServerAct, Serve, ResumeFails, Resume, Manifest, NoManifest, FileHeader, FileData,
                AbortLine, Eof
  <2>2. Lacks(f)' <=> Lacks(f)
    BY <1>2, <2>1, LackingStays
  <2>3. s2c'[k] = s2c[k] \/ Manifest(k) \/ Resume(k)
    BY <1>1, <1>5 DEF ServerAct, Serve, ResumeFails, NoManifest, FileHeader, FileData,
                AbortLine, Eof, wireVars
  <2>4. \A j \in Conns : j # k => s2c'[j] = s2c[j]
    BY <1>1, ServerActs
  <2>5. ASSUME bpc = "go", s2c'[conn] # << >>, Head(s2c'[conn]).t = "GO", Listed(needs, f)
        PROVE  Lacks(f)
    <3>1. CASE s2c'[conn] = s2c[conn]
      BY <1>1, <2>5, <3>1 DEF ListsLack
    <3>2. CASE s2c'[conn] # s2c[conn]
      <4>1. k = conn /\ (Manifest(k) \/ Resume(k))
        BY <1>1, <2>3, <2>4, <2>5, <3>2
      <4>2. session # NoSession /\ needs = session.needs
        BY <1>1, <2>5 DEF Remembers
      <4>3. ~Manifest(k)
        <5>1. SUFFICES ASSUME Manifest(k) PROVE FALSE
          OBVIOUS
        <5>2. ~Past(k) /\ c2s[k] # << >> /\ Head(c2s[k]).t = "MANIFEST"
          BY <5>1 DEF Manifest, Gets, Past
        <5>3. 1 \in DOMAIN c2s[k] /\ Head(c2s[k]) = c2s[k][1]
          BY <1>1, <5>2, Places
        <5>4. QED
          BY <1>1, <4>2, <5>2, <5>3 DEF Unanswered
      <4>4. s2c[k] = << >>
        <5>1. hpc[k] = "first"
          BY <4>1, <4>3 DEF Resume
        <5>2. QED
          BY <1>1, <2>5, <4>1, <5>1 DEF Negotiating, Asked, Granted, Refused, Broken
      <4>5. saved
        <5>1. SUFFICES ASSUME ~saved PROVE FALSE
          OBVIOUS
        <5>2. s2c' = Reply(k, [t |-> "NEW"])
          BY <4>1, <4>3, <5>1 DEF Resume
        <5>3. s2c'[k] = << [t |-> "NEW"] >> \/ s2c'[k] = << >>
          BY <1>1, <4>4, <5>2 DEF Reply, WireOK
        <5>4. QED
          BY <2>5, <4>1, <5>3
      <4>6. QED
        BY <1>1, <2>5, <4>2, <4>5 DEF ListsLack
    <3>3. QED
      BY <3>1, <3>2
  <2>6. ASSUME bpc = "need", s2c'[conn] # << >>, Head(s2c'[conn]).t = "NEED",
               Listed(Head(s2c'[conn]).files, f)
        PROVE  Lacks(f)
    <3>1. CASE s2c'[conn] = s2c[conn]
      BY <1>1, <2>6, <3>1 DEF ListsLack
    <3>2. CASE s2c'[conn] # s2c[conn]
      <4>1. k = conn /\ (Manifest(k) \/ Resume(k))
        BY <1>1, <2>3, <2>4, <2>6, <3>2
      <4>2. ~Past(k)
        BY <4>1 DEF Manifest, Resume, Past
      <4>3. s2c[k] = << >>
        BY <1>1, <2>6, <4>1, <4>2 DEF FirstLine
      <4>4. ~Resume(k)
        <5>1. SUFFICES ASSUME Resume(k) PROVE FALSE
          OBVIOUS
        <5>2. c2s[k] # << >> /\ Head(c2s[k]).t = "RESUME"
          BY <5>1 DEF Resume, Gets
        <5>3. 1 \in DOMAIN c2s[k] /\ Head(c2s[k]) = c2s[k][1]
          BY <1>1, <5>2, Places
        <5>4. QED
          BY <1>1, <2>6, <4>1, <5>2, <5>3 DEF FirstLine
      <4> DEFINE m == Head(c2s[k]).entries
                 T == {g \in Files : m[g] > 0 /\ Differs(g, m[g])}
      <4>5. PICK s \in SetToSeqs(T) : s2c' = Reply(k, [t |-> "NEED", files |-> s])
        BY <4>1, <4>4 DEF Manifest
      <4>6. s2c'[k] = << [t |-> "NEED", files |-> s] >> \/ s2c'[k] = << >>
        BY <1>1, <4>3, <4>5 DEF Reply, WireOK
      <4>7. Listed(s, f)
        BY <2>6, <4>1, <4>6
      <4>8. f \in T
        <5> HIDE DEF m
        <5>1. T \in SUBSET Files
          OBVIOUS
        <5> HIDE DEF T
        <5>2. QED
          BY <4>5, <4>7, <5>1, ListsAll
      <4>9. m[f] \in {0, disk[f]}
        <5>1. c2s[k] # << >> /\ Head(c2s[k]).t = "MANIFEST"
          BY <4>1, <4>4 DEF Manifest, Gets
        <5>2. 1 \in DOMAIN c2s[k] /\ Head(c2s[k]) = c2s[k][1]
          BY <1>1, <5>1, Places
        <5>3. QED
          BY <1>1, <5>1, <5>2 DEF Known
      <4>10. QED
        BY <4>8, <4>9 DEF Lacks
    <3>3. QED
      BY <3>1, <3>2
  <2>7. ASSUME Listed(session.needs, f), ~Lacks(f)
        PROVE  ~saved' /\ \A j \in Conns : hpc'[j] \notin {"files", "data"}
    <3>1. session # NoSession /\ ~saved /\ \A j \in Conns : hpc[j] \notin {"files", "data"}
      BY <1>1, <1>3, <2>7 DEF ListsLack
    <3>2. ~Manifest(k) /\ ~NoManifest(k)
      <4>1. SUFFICES ASSUME Manifest(k) \/ NoManifest(k) PROVE FALSE
        OBVIOUS
      <4>2. ~Past(k) /\ c2s[k] # << >> /\ (hpc[k] # "renew" => Head(c2s[k]).t = "MANIFEST")
        BY <4>1 DEF Manifest, NoManifest, Gets, Past
      <4>3. 1 \in DOMAIN c2s[k] /\ Head(c2s[k]) = c2s[k][1]
        BY <1>1, <4>2, Places
      <4>4. QED
        BY <1>1, <3>1, <4>2, <4>3 DEF Unanswered
    <3>3. hpc[k] \notin {"files", "data"} /\ hpc \in [Conns -> {"none", "first", "renew", "files",
                                                               "data", "gone", "crashed"}]
      BY <1>1, <3>1 DEF ServerOK
    <3>4. Serve(k) \/ ResumeFails(k) \/ Resume(k) \/ AbortLine(k) \/ Eof(k)
      BY <3>2, <3>3 DEF ServerAct, FileHeader, FileData, Done
    <3>5. hpc'[k] \notin {"files", "data"}
      BY <3>1, <3>3, <3>4 DEF Serve, ResumeFails, Resume, AbortLine, Eof
    <3>6. Serve(k) \/ ResumeFails(k) \/ Resume(k) => ~saved'
      BY <3>1 DEF Serve, ResumeFails, Resume
    <3>7. AbortLine(k) \/ Eof(k) => ~saved'
      BY <3>1, <3>3, Zenon DEF AbortLine, Eof
    <3>8. QED
      BY <1>1, <3>1, <3>4, <3>5, <3>6, <3>7, ServerActs
  <2>8. QED
    BY <1>1, <1>2, <2>2, <2>5, <2>6, <2>7 DEF ListsLack
<1>6. QED
  BY <1>4, <1>5

(* What the server's thread does for the head of a file.                   *)
LEMMA HeaderTaken ==
  ASSUME WireOK, ServerOK, NEW k \in Conns, FileHeader(k), NEW m, m = c2s[k][1]
  PROVE  /\ 1 \in DOMAIN c2s[k] /\ m.t = "FILE" /\ hpc[k] = "files"
         /\ m.path \in Files /\ m.size \in 0..Chunks /\ m.off \in 0..Chunks
         /\ \A g \in Files : g # m.path => temp'[g] = temp[g]
         /\ temp'[m.path].data \in {<< >>, temp[m.path].data} /\ There(temp[m.path])'
         /\ m.off = 0 => temp'[m.path].data = << >>
         /\ recv'[k].file = m.path /\ recv'[k].left = m.size /\ recv'[k].pos = m.off
         /\ hpc'[k] = (IF m.size > 0 THEN "data" ELSE "files")
         /\ latest' = latest /\ mtimes' = mtimes /\ s2c' = s2c /\ link' = link
         /\ c2s[k] # << >> /\ c2s'[k] = Tail(c2s[k])
<1> DEFINE e == IF m.off > 0 /\ There(temp[m.path])
                THEN temp[m.path] ELSE [data |-> << >>, mtime |-> 0]
           e2 == IF m.size = 0 THEN Stamped(k, m.path, e) ELSE e
<1>1. temp \in [Files -> Entries]
      /\ hpc \in [Conns -> {"none", "first", "renew", "files", "data", "gone", "crashed"}]
      /\ recv \in [Conns -> [file : Files \cup {Junk}, left : Int, pos : Nat]]
      /\ c2s \in [Conns -> Seq(ToServer)]
  BY DEF ServerOK, WireOK
<1>2. hpc[k] = "files" /\ c2s[k] # << >> /\ Head(c2s[k]).t = "FILE"
  BY DEF FileHeader, Gets
<1>3. Head(c2s[k]) = m /\ 1 \in DOMAIN c2s[k] /\ m \in ToServer /\ m.t = "FILE"
  <2>1. c2s[k] \in Seq(ToServer)
    BY <1>1
  <2>2. Head(c2s[k]) = c2s[k][1] /\ 1 \in DOMAIN c2s[k]
    BY <1>2, <2>1, Places
  <2>3. Head(c2s[k]) \in ToServer
    BY <1>2, ChannelsStay
  <2>4. QED
    BY <1>2, <2>2, <2>3
<1>4. m.path \in Files /\ m.size \in 0..Chunks /\ m.off \in 0..Chunks
  BY <1>3, SaidToServer
<1>5. e \in Entries /\ There(e) /\ e.data \in {<< >>, temp[m.path].data}
      /\ (m.off = 0 => e.data = << >>)
  <2>1. << >> \in Seq(Nat)
    OBVIOUS
  <2>2. CASE m.off > 0 /\ There(temp[m.path])
    <3>1. e = temp[m.path]
      BY <2>2
    <3> HIDE DEF e
    <3>2. QED
      BY <1>1, <1>4, <2>2, <3>1
  <2>3. CASE ~(m.off > 0 /\ There(temp[m.path]))
    <3>1. e = [data |-> << >>, mtime |-> 0]
      BY <2>3
    <3> HIDE DEF e
    <3>2. QED
      BY <2>1, <3>1, Sizes DEF Entries, There
  <2>4. QED
    BY <2>2, <2>3
<1>6. e2.data = e.data /\ There(e2)
  BY <1>4, <1>5, StampedWell
<1>7. /\ temp' = [temp EXCEPT ![m.path] = e2]
      /\ recv' = [recv EXCEPT ![k] = [file |-> m.path, left |-> m.size, pos |-> m.off]]
      /\ hpc' = [hpc EXCEPT ![k] = IF m.size > 0 THEN "data" ELSE "files"]
      /\ c2s' = [c2s EXCEPT ![k] = Tail(@)]
      /\ latest' = latest /\ mtimes' = mtimes /\ s2c' = s2c /\ link' = link
  BY <1>3 DEF FileHeader, Taken
<1> HIDE DEF e, e2
<1>8. temp'[m.path] = e2 /\ \A g \in Files : g # m.path => temp'[g] = temp[g]
  BY <1>1, <1>4, <1>7
<1>9. There(temp[m.path])'
  BY <1>6, <1>8 DEF There
<1>10. hpc'[k] = (IF m.size > 0 THEN "data" ELSE "files") /\ c2s'[k] = Tail(c2s[k])
       /\ recv'[k].file = m.path /\ recv'[k].left = m.size /\ recv'[k].pos = m.off
  BY <1>1, <1>7
<1>11. temp'[m.path].data = e.data
  BY <1>6, <1>8
<1>12. QED
  BY <1>2, <1>3, <1>4, <1>5, <1>7, <1>8, <1>9, <1>10, <1>11

(* And for a chunk of it.                                                  *)
LEMMA DataTaken ==
  ASSUME WireOK, ServerOK, NEW k \in Conns, FileData(k), NEW f, f = recv[k].file
  PROVE  /\ 1 \in DOMAIN c2s[k] /\ c2s[k][1].t = "data" /\ c2s[k][1].v \in Nat
         /\ hpc[k] = "data" /\ f \in Files
         /\ \A g \in Files : g # f => temp'[g] = temp[g]
         /\ temp'[f].data = Written(temp[f].data, recv[k].pos, c2s[k][1].v) /\ There(temp[f])'
         /\ recv'[k] = [file |-> f, left |-> recv[k].left - 1, pos |-> recv[k].pos + 1]
         /\ hpc'[k] = (IF recv[k].left = 1 THEN "files" ELSE "data")
         /\ latest' = latest /\ mtimes' = mtimes /\ s2c' = s2c /\ link' = link
         /\ c2s[k] # << >> /\ c2s'[k] = Tail(c2s[k])
<1> DEFINE w == Written(temp[f].data, recv[k].pos, Head(c2s[k]).v)
           e == [data |-> w, mtime |-> 0]
           e2 == IF recv[k].left = 1 THEN Stamped(k, f, e) ELSE e
<1>1. temp \in [Files -> Entries]
      /\ hpc \in [Conns -> {"none", "first", "renew", "files", "data", "gone", "crashed"}]
      /\ recv \in [Conns -> [file : Files \cup {Junk}, left : Int, pos : Nat]]
      /\ c2s \in [Conns -> Seq(ToServer)]
  BY DEF ServerOK, WireOK
<1>2. hpc[k] = "data" /\ c2s[k] # << >> /\ Head(c2s[k]).t = "data" /\ f \in Files
  BY DEF FileData, Gets, ServerOK
<1>3. Head(c2s[k]) = c2s[k][1] /\ 1 \in DOMAIN c2s[k] /\ Head(c2s[k]).v \in Nat
  <2>1. c2s[k] \in Seq(ToServer)
    BY <1>1
  <2>2. Head(c2s[k]) = c2s[k][1] /\ 1 \in DOMAIN c2s[k]
    BY <1>2, <2>1, Places
  <2>3. Head(c2s[k]) \in ToServer
    BY <1>2, ChannelsStay
  <2>4. QED
    BY <1>2, <2>2, <2>3, SaidToServer, Sizes
<1>4. recv[k].pos \in Nat /\ temp[f].data \in Seq(Nat)
  BY <1>1, <1>2 DEF Entries
<1>5. w \in Seq(Nat)
  BY <1>3, <1>4, ChunkWritten
<1>6. e \in Entries /\ There(e) /\ e.data = w
  <2> HIDE DEF w
  <2>1. QED
    BY <1>5, Sizes DEF Entries, There
<1>7. e2.data = w /\ There(e2)
  BY <1>2, <1>6, StampedWell
<1>8. /\ temp' = [temp EXCEPT ![f] = e2]
      /\ recv' = [recv EXCEPT ![k].left = @ - 1, ![k].pos = @ + 1]
      /\ hpc' = [hpc EXCEPT ![k] = IF recv[k].left = 1 THEN "files" ELSE "data"]
      /\ c2s' = [c2s EXCEPT ![k] = Tail(@)]
      /\ latest' = latest /\ mtimes' = mtimes /\ s2c' = s2c /\ link' = link
  BY DEF FileData, Taken
<1>9. recv'[k] = [file |-> f, left |-> recv[k].left - 1, pos |-> recv[k].pos + 1]
  BY <1>1, <1>8, OneMore, Zenon
<1> HIDE DEF e, e2, w
<1>10. temp'[f] = e2 /\ \A g \in Files : g # f => temp'[g] = temp[g]
  BY <1>1, <1>2, <1>8
<1>11. There(temp[f])'
  BY <1>7, <1>10 DEF There
<1>12. hpc'[k] = (IF recv[k].left = 1 THEN "files" ELSE "data") /\ c2s'[k] = Tail(c2s[k])
  BY <1>1, <1>8
<1>13. temp'[f].data = Written(temp[f].data, recv[k].pos, c2s[k][1].v)
  BY <1>3, <1>7, <1>10 DEF w
<1>14. QED
  BY <1>2, <1>3, <1>8, <1>9, <1>10, <1>11, <1>12, <1>13

(* A chunk that is written where a file ends is added to it; none is lost. *)
LEMMA ChunkAdded ==
  ASSUME NEW data \in Seq(Nat), NEW at \in Nat, NEW v \in Nat, at <= Len(data)
  PROVE  /\ \A i \in DOMAIN Written(data, at, v) :
              \/ Written(data, at, v)[i] = v
              \/ i \in DOMAIN data /\ Written(data, at, v)[i] = data[i]
         /\ at = Len(data) => Len(Written(data, at, v)) = at + 1
<1> DEFINE top == {Len(data), at + 1}
           n   == Max(top)
           e(i) == IF i = at + 1 THEN v ELSE IF i \in DOMAIN data THEN data[i] ELSE 0
<1>1. Len(data) \in Nat /\ DOMAIN data = 1..Len(data)
  BY LenProperties
<1>2. \E x \in top : \A y \in top : x >= y
  BY <1>1
<1>3. n \in top /\ \A y \in top : n >= y
  <2> HIDE DEF top
  <2>1. QED
    BY <1>2 DEF Max
<1>4. n \in Nat /\ (n <= Len(data) \/ n = at + 1)
  BY <1>1, <1>3
<1>5. at = Len(data) => n = at + 1
  BY <1>1, <1>3
<1>6. n \in Nat
  BY <1>1, <1>3
<1>7. Written(data, at, v) = [i \in 1..n |-> e(i)]
  BY Zenon DEF Written
<1> HIDE DEF n
<1>8. Len([i \in 1..n |-> e(i)]) = n /\ DOMAIN [i \in 1..n |-> e(i)] = 1..n
  BY <1>6
<1>9. ASSUME NEW i \in 1..n
      PROVE  e(i) = v \/ (i \in DOMAIN data /\ e(i) = data[i])
  <2>1. i = at + 1 \/ i \in 1..Len(data)
    BY <1>1, <1>4, <1>6
  <2>2. QED
    BY <1>1, <2>1
<1>10. \A i \in 1..n : [j \in 1..n |-> e(j)][i] = e(i)
  OBVIOUS
<1> HIDE DEF e
<1>11. QED
  BY <1>5, <1>7, <1>8, <1>9, <1>10

(* The server's other steps write nothing.                                 *)
LEMMA ServerElse ==
  ASSUME WireOK, ServerOK, NEW k \in Conns, ServerAct(k),
         ~FileHeader(k), ~FileData(k), ~Done(k)
  PROVE  /\ temp' = temp /\ latest' = latest /\ hpc'[k] # "data"
         /\ Past(k) => hpc'[k] = "gone"
<1>1. hpc \in [Conns -> {"none", "first", "renew", "files", "data", "gone", "crashed"}]
  BY DEF ServerOK
<1>2. temp' = temp /\ latest' = latest
  BY DEF ServerAct, Serve, ResumeFails, Resume, Manifest, NoManifest, AbortLine, Eof
<1>3. hpc'[k] # "data" /\ (Past(k) => hpc'[k] = "gone")
  BY <1>1 DEF ServerAct, Serve, ResumeFails, Resume, Manifest, NoManifest, AbortLine, Eof, Past
<1>4. QED
  BY <1>2, <1>3

(* While a connection sends files, no other is served.                     *)
LEMMA OtherServed ==
  ASSUME ServedInv, NEW k \in Conns, ServerAct(k), NEW j \in Conns, j # k,
         hpc[j] \in {"files", "data"}
  PROVE  Serve(k) /\ UNCHANGED << wireVars, latest, temp, saved, mtimes, recv >>
<1>1. WireOK /\ ServerOK /\ OneServed
  BY DEF ServedInv, ClientInv
<1>2. hpc[k] \in {"none", "gone", "crashed"}
  BY <1>1, Alone
<1>3. hpc[k] = "none"
  BY <1>1, <1>2, ServerActs
<1>4. Serve(k)
  BY <1>3 DEF ServerAct, ResumeFails, Resume, Manifest, NoManifest, FileHeader, FileData, Done,
              AbortLine, Eof
<1>5. QED
  BY <1>4 DEF Serve

(* The server receives and stores only what it lacks.                      *)
LEMMA ServerKeepsFiles ==
  ASSUME ServedInv, TalkInv, NEW k \in Conns, ServerAct(k), UNCHANGED clientVars,
         NEW f \in Files, disk[f] > 0, SaveInv(f)
  PROVE  FilesLack(f)'
<1>1. /\ WireOK /\ ServerOK /\ Unanswered /\ FilesLack(f) /\ Known(f) /\ disk' = disk
      /\ hpc[k] \notin {"gone", "crashed"}
  BY ServerActs DEF ServedInv, ClientInv, TalkInv, SaveInv, clientVars
<1>2. ~Done(k) => (Lacks(f)' <=> Lacks(f))
  <2>1. ~Done(k) => latest' = latest
    BY DEF ServerAct, Serve, ResumeFails, Resume, Manifest, NoManifest, FileHeader, FileData,
           AbortLine, Eof
  <2>2. QED
    BY <1>1, <2>1, LackingStays
<1>3. There(temp[f])' => Lacks(f)'
  <2>1. CASE FileHeader(k)
    <3>1. PICK m : m = c2s[k][1]
      OBVIOUS
    <3>2. /\ 1 \in DOMAIN c2s[k] /\ m.t = "FILE" /\ (f # m.path => temp'[f] = temp[f])
          /\ latest' = latest
      BY <1>1, <2>1, <3>1, HeaderTaken
    <3>3. Lacks(f)' <=> Lacks(f)
      BY <1>1, <3>2, LackingStays
    <3>4. CASE f = m.path
      BY <1>1, <3>1, <3>2, <3>3, <3>4 DEF FilesLack
    <3>5. CASE f # m.path
      BY <1>1, <3>2, <3>3, <3>5 DEF FilesLack, There
    <3>6. QED
      BY <3>4, <3>5
  <2>2. CASE FileData(k)
    <3>1. PICK p : p = recv[k].file
      OBVIOUS
    <3>2. hpc[k] = "data" /\ latest' = latest /\ (f # p => temp'[f] = temp[f])
      BY <1>1, <2>2, <3>1 DEF FileData, ServerOK
    <3>3. Lacks(f)' <=> Lacks(f)
      BY <1>1, <3>2, LackingStays
    <3>4. QED
      BY <1>1, <3>1, <3>2, <3>3 DEF FilesLack, There
  <2>3. CASE Done(k)
    BY <2>3 DEF Done, There, Missing
  <2>4. CASE ~FileHeader(k) /\ ~FileData(k) /\ ~Done(k)
    <3>1. temp' = temp
      BY <1>1, <2>4, ServerElse
    <3>2. QED
      BY <1>1, <1>2, <2>4, <3>1 DEF FilesLack, There
  <2>5. QED
    BY <2>1, <2>2, <2>3, <2>4
<1>4. ASSUME NEW j \in Conns, hpc'[j] \notin {"gone", "crashed"}, NEW i \in DOMAIN c2s'[j],
             c2s'[j][i].t = "FILE", c2s'[j][i].path = f
      PROVE  Lacks(f)' /\ (mtimes'[j][f] > 0 => c2s'[j][i].off = 0 /\ c2s'[j][i].size = Chunks)
  <2>1. CASE j # k
    <3>1. c2s'[j] = c2s[j] /\ hpc'[j] = hpc[j] /\ mtimes'[j] = mtimes[j]
      BY <1>1, <2>1, ServerActs, ServerTells
    <3>2. ~Done(k)
      <4>1. SUFFICES ASSUME Done(k) PROVE FALSE
        OBVIOUS
      <4>2. hpc[j] = "none"
        BY <1>4, <2>1, <3>1, <4>1, DoneAlone
      <4>3. QED
        BY <1>1, <1>4, <3>1, <4>2 DEF Unanswered, Past
    <3>3. QED
      BY <1>1, <1>2, <1>4, <3>1, <3>2 DEF FilesLack
  <2>2. CASE j = k
    <3>1. PICK d \in {0, 1} : \A n \in DOMAIN c2s'[k] :
            n + d \in DOMAIN c2s[k] /\ c2s'[k][n] = c2s[k][n + d]
      BY <1>1, ServerReads
    <3>2. i + d \in DOMAIN c2s[k] /\ c2s[k][i + d].t = "FILE" /\ c2s[k][i + d] = c2s'[k][i]
      BY <1>4, <2>2, <3>1
    <3>3. Past(k)
      BY <1>1, <3>2 DEF Unanswered
    <3>4. mtimes' = mtimes
      BY <1>1, <3>3, ServerTells
    <3>5. ~Done(k)
      BY <1>4, <2>2, DoneAlone
    <3>6. QED
      BY <1>1, <1>2, <1>4, <2>2, <3>2, <3>4, <3>5 DEF FilesLack
  <2>3. QED
    BY <2>1, <2>2
<1>5. ASSUME NEW j \in Conns, hpc'[j] = "data", recv'[j].file = f
      PROVE  /\ Lacks(f)'
             /\ mtimes'[j][f] > 0 =>
                  /\ There(temp[f])' /\ Len(temp'[f].data) = recv'[j].pos
                  /\ recv'[j].pos + recv'[j].left = Chunks
  <2>1. CASE j # k
    <3>1. hpc[j] = "data"
      BY <1>1, <1>5, <2>1, ServerActs
    <3>2. UNCHANGED << latest, temp, mtimes, recv >>
      BY <2>1, <3>1, OtherServed
    <3>3. Lacks(f)' <=> Lacks(f)
      BY <1>1, <3>2, LackingStays
    <3>4. QED
      BY <1>1, <1>5, <3>1, <3>2, <3>3 DEF FilesLack, There
  <2>2. CASE j = k /\ FileHeader(k)
    <3>1. PICK m : m = c2s[k][1]
      OBVIOUS
    <3>2. /\ 1 \in DOMAIN c2s[k] /\ m.t = "FILE" /\ hpc[k] = "files" /\ m.path = f
          /\ There(temp[f])' /\ (m.off = 0 => temp'[f].data = << >>)
          /\ recv'[k].left = m.size /\ recv'[k].pos = m.off
          /\ latest' = latest /\ mtimes' = mtimes
      BY <1>1, <1>5, <2>2, <3>1, HeaderTaken
    <3>3. Lacks(f)' <=> Lacks(f)
      BY <1>1, <3>2, LackingStays
    <3>4. Lacks(f) /\ (mtimes[k][f] > 0 => m.off = 0 /\ m.size = Chunks)
      BY <1>1, <3>1, <3>2 DEF FilesLack
    <3>5. Len(<< >>) = 0 /\ 0 + Chunks = Chunks
      BY Sizes
    <3>6. QED
      BY <2>2, <3>2, <3>3, <3>4, <3>5
  <2>3. CASE j = k /\ FileData(k)
    <3>1. recv'[k] = [file |-> recv[k].file, left |-> recv[k].left - 1, pos |-> recv[k].pos + 1]
      BY <1>1, <2>3, DataTaken, Zenon
    <3>2. recv[k].file = f /\ recv'[k].left = recv[k].left - 1 /\ recv'[k].pos = recv[k].pos + 1
      BY <1>5, <2>3, <3>1
    <3>3. /\ hpc[k] = "data" /\ c2s[k][1].v \in Nat /\ There(temp[f])'
          /\ temp'[f].data = Written(temp[f].data, recv[k].pos, c2s[k][1].v)
          /\ latest' = latest /\ mtimes' = mtimes
      BY <1>1, <2>3, <3>2, DataTaken, Zenon
    <3>4. Lacks(f)' <=> Lacks(f)
      BY <1>1, <3>3, LackingStays
    <3>5. /\ Lacks(f)
          /\ mtimes[k][f] > 0 =>
               There(temp[f]) /\ Len(temp[f].data) = recv[k].pos /\ recv[k].pos + recv[k].left = Chunks
      BY <1>1, <3>2, <3>3 DEF FilesLack
    <3>6. temp[f].data \in Seq(Nat) /\ recv[k].pos \in Nat /\ recv[k].left \in Int
          /\ Len(temp[f].data) \in Nat
      BY <1>1, LenProperties DEF ServerOK, Entries
    <3>7. ASSUME Len(temp[f].data) = recv[k].pos
          PROVE  Len(temp'[f].data) = recv[k].pos + 1
      <4>1. Len(Written(temp[f].data, recv[k].pos, c2s[k][1].v)) = recv[k].pos + 1
        BY <3>3, <3>6, <3>7, ChunkAdded
      <4>2. QED
        BY <3>3, <4>1
    <3>8. recv[k].pos + recv[k].left = Chunks => recv'[k].pos + recv'[k].left = Chunks
      BY <3>2, <3>6, Sizes
    <3>9. QED
      BY <2>3, <3>2, <3>3, <3>4, <3>5, <3>7, <3>8
  <2>4. CASE j = k /\ ~FileHeader(k) /\ ~FileData(k)
    <3>1. ~Done(k)
      BY <1>5, <2>4, DoneAlone
    <3>2. QED
      BY <1>1, <1>5, <2>4, <3>1, ServerElse
  <2>5. QED
    BY <2>1, <2>2, <2>3, <2>4
<1>6. QED
  BY <1>3, <1>4, <1>5, <1>1 DEF FilesLack

(* A channel before and after a message is read from it.                   *)
LEMMA ReadOn ==
  ASSUME NEW q \in Seq(ToServer), NEW r, q # << >>, r = Tail(q)
  PROVE  /\ Len(r) \in Nat /\ Len(q) = Len(r) + 1
         /\ \A n \in DOMAIN r : n \in Nat \ {0} /\ n + 1 \in DOMAIN q /\ r[n] = q[n + 1]
         /\ \A n \in DOMAIN q : n # 1 => n - 1 \in DOMAIN r /\ r[n - 1] = q[n]
         /\ \A l, i \in Nat : OnlyData(r, l, i) => OnlyData(q, l + 1, i + 1)
<1>1. /\ Len(q) \in Nat /\ Len(q) >= 1 /\ DOMAIN q = 1..Len(q)
      /\ Len(r) = Len(q) - 1 /\ DOMAIN r = 1..(Len(q) - 1)
      /\ \A n \in 1..(Len(q) - 1) : r[n] = q[n + 1]
  BY Places
<1>2. \A n \in DOMAIN r : n \in Nat \ {0} /\ n + 1 \in DOMAIN q /\ r[n] = q[n + 1]
  BY <1>1
<1>3. ASSUME NEW n \in DOMAIN q, n # 1
      PROVE  n - 1 \in DOMAIN r /\ r[n - 1] = q[n] /\ n \in Nat
  <2>1. n \in Nat /\ n - 1 \in 1..(Len(q) - 1) /\ (n - 1) + 1 = n
    BY <1>1, <1>3
  <2>2. QED
    BY <1>1, <2>1
<1>4. ASSUME NEW l \in Nat, NEW i \in Nat, OnlyData(r, l, i)
      PROVE  OnlyData(q, l + 1, i + 1)
  <2>1. SUFFICES ASSUME NEW n \in DOMAIN q, l + 1 < n, n < i + 1
                 PROVE  q[n].t = "data"
    BY DEF OnlyData
  <2>2. n # 1 /\ n \in Nat
    BY <1>1, <2>1
  <2>3. l < n - 1 /\ n - 1 < i
    BY <2>1, <2>2
  <2>4. n - 1 \in DOMAIN r /\ r[n - 1] = q[n]
    BY <1>3, <2>2
  <2>5. r[n - 1].t = "data"
    BY <1>4, <2>3, <2>4 DEF OnlyData
  <2>6. QED
    BY <2>4, <2>5
<1>5. Len(r) \in Nat /\ Len(q) = Len(r) + 1
  BY <1>1
<1>6. QED
  BY <1>2, <1>3, <1>4, <1>5

(* The data stay those of the save when the server reads on.               *)
LEMMA ServerKeepsData ==
  ASSUME ServedInv, NEW k \in Conns, ServerAct(k), UNCHANGED clientVars,
         NEW f \in Files, DataTrue(f)
  PROVE  DataTrue(f)'
<1>1. /\ WireOK /\ ServerOK /\ NoHoles /\ disk' = disk /\ c2s[k] \in Seq(ToServer)
      /\ temp \in [Files -> Entries] /\ temp[f].data \in Seq(Nat) /\ recv[k].pos \in Nat
  BY DEF ServedInv, ClientInv, clientVars, WireOK, ServerOK, Entries
<1>2. \A i \in DOMAIN temp'[f].data : temp'[f].data[i] = disk[f]
  <2>1. CASE FileHeader(k)
    <3>1. PICK m : m = c2s[k][1]
      OBVIOUS
    <3>2. /\ f # m.path => temp'[f] = temp[f]
          /\ temp'[m.path].data \in {<< >>, temp[m.path].data}
      BY <1>1, <2>1, <3>1, HeaderTaken, Zenon
    <3>3. temp'[f].data = << >> \/ temp'[f].data = temp[f].data
      BY <3>2
    <3>4. QED
      BY <3>3 DEF DataTrue
  <2>2. CASE FileData(k) /\ recv[k].file = f
    <3>1. /\ 1 \in DOMAIN c2s[k] /\ c2s[k][1].t = "data" /\ c2s[k][1].v \in Nat
          /\ hpc[k] = "data" /\ temp'[f].data = Written(temp[f].data, recv[k].pos, c2s[k][1].v)
      BY <1>1, <2>2, DataTaken, Zenon
    <3>2. OnlyData(c2s[k], 0, 1)
      BY <1>1, Places DEF OnlyData
    <3>3. c2s[k][1].v = disk[f]
      BY <2>2, <3>1, <3>2 DEF DataTrue
    <3>4. recv[k].pos <= Len(temp[f].data)
      BY <1>1, <2>2, <3>1 DEF NoHoles
    <3>5. \A i \in DOMAIN temp'[f].data :
            \/ temp'[f].data[i] = c2s[k][1].v
            \/ i \in DOMAIN temp[f].data /\ temp'[f].data[i] = temp[f].data[i]
      <4>1. PICK v \in Nat : v = c2s[k][1].v
        BY <3>1
      <4>2. \A i \in DOMAIN Written(temp[f].data, recv[k].pos, v) :
               \/ Written(temp[f].data, recv[k].pos, v)[i] = v
               \/ /\ i \in DOMAIN temp[f].data
                  /\ Written(temp[f].data, recv[k].pos, v)[i] = temp[f].data[i]
        BY <1>1, <3>4, ChunkAdded
      <4>3. QED
        BY <3>1, <4>1, <4>2
    <3>6. QED
      BY <3>3, <3>5 DEF DataTrue
  <2>3. CASE FileData(k) /\ recv[k].file # f
    <3>1. temp'[f] = temp[f]
      BY <1>1, <2>3 DEF FileData
    <3>2. QED
      BY <3>1 DEF DataTrue
  <2>4. CASE Done(k)
    BY <2>4 DEF Done, Missing
  <2>5. CASE ~FileHeader(k) /\ ~FileData(k) /\ ~Done(k)
    <3>1. temp' = temp
      BY <1>1, <2>5, ServerElse
    <3>2. QED
      BY <3>1 DEF DataTrue
  <2>6. QED
    BY <2>1, <2>2, <2>3, <2>4, <2>5
<1>3. \A i \in DOMAIN latest'[f].data : latest'[f].data[i] = disk[f]
  <2>1. latest' = latest \/ latest' = [g \in Files |-> IF There(temp[g]) THEN temp[g] ELSE latest[g]]
    BY DEF ServerAct, Serve, ResumeFails, Resume, Manifest, NoManifest, FileHeader, FileData,
           Done, AbortLine, Eof
  <2>2. latest'[f] = latest[f] \/ latest'[f] = temp[f]
    BY <2>1
  <2>3. QED
    BY <2>2 DEF DataTrue
<1>4. ASSUME NEW j \in Conns, j # k, NEW i \in DOMAIN c2s'[j], c2s'[j][i].t = "data"
      PROVE  /\ \A l \in DOMAIN c2s'[j] :
                  l < i /\ OnlyData(c2s'[j], l, i) /\ c2s'[j][l].t = "FILE" /\ c2s'[j][l].path = f =>
                    c2s'[j][i].v = disk[f]
             /\ OnlyData(c2s'[j], 0, i) /\ hpc'[j] = "data" /\ recv'[j].file = f =>
                  c2s'[j][i].v = disk[f]
  <2>1. c2s'[j] = c2s[j] /\ hpc'[j] = hpc[j] /\ recv'[j] = recv[j]
    BY <1>1, <1>4, ServerActs
  <2>2. QED
    BY <1>4, <2>1 DEF DataTrue
<1>5. ASSUME NEW i \in DOMAIN c2s'[k], c2s'[k][i].t = "data"
      PROVE  /\ \A l \in DOMAIN c2s'[k] :
                  l < i /\ OnlyData(c2s'[k], l, i) /\ c2s'[k][l].t = "FILE" /\ c2s'[k][l].path = f =>
                    c2s'[k][i].v = disk[f]
             /\ OnlyData(c2s'[k], 0, i) /\ hpc'[k] = "data" /\ recv'[k].file = f =>
                  c2s'[k][i].v = disk[f]
  <2>1. CASE c2s'[k] = << >>
    BY <1>5, <2>1
  <2>2. CASE c2s'[k] = c2s[k] /\ ~(c2s[k] # << >> /\ c2s'[k] = Tail(c2s[k]))
    <3>1. hpc'[k] # "data"
      <4>1. ~FileHeader(k)
        BY <1>1, <2>2, HeaderTaken
      <4>2. ~FileData(k)
        BY <1>1, <2>2, DataTaken
      <4>3. Done(k) => hpc'[k] = "gone"
        BY <1>1 DEF Done, ServerOK
      <4>4. QED
        BY <1>1, <4>1, <4>2, <4>3, ServerElse
    <3>2. QED
      BY <1>5, <2>2, <3>1 DEF DataTrue
  <2>3. CASE c2s[k] # << >> /\ c2s'[k] = Tail(c2s[k])
    <3>1. PICK q \in Seq(ToServer) : q = c2s[k]
      BY <1>1
    <3>2. PICK r : r = c2s'[k]
      OBVIOUS
    <3>3. /\ \A n \in DOMAIN r : n \in Nat \ {0} /\ n + 1 \in DOMAIN q /\ r[n] = q[n + 1]
          /\ \A l, n \in Nat : OnlyData(r, l, n) => OnlyData(q, l + 1, n + 1)
      <4>1. q # << >> /\ r = Tail(q)
        BY <2>3, <3>1, <3>2
      <4>2. \A n \in DOMAIN r : n \in Nat \ {0} /\ n + 1 \in DOMAIN q /\ r[n] = q[n + 1]
        BY <4>1, Places
      <4>3. \A l, n \in Nat : OnlyData(r, l, n) => OnlyData(q, l + 1, n + 1)
        BY <4>1, ReadOn, Zenon
      <4>4. Len(r) \in Nat /\ Len(q) = Len(r) + 1
        BY <4>1, ReadOn, Zenon
      <4>5. QED
        BY <4>2, <4>3, <4>4
    <3>4. i \in Nat /\ i > 0 /\ i + 1 \in DOMAIN q /\ r[i] = q[i + 1] /\ q[i + 1].t = "data"
      BY <1>5, <3>2, <3>3
    <3>5. /\ \A l \in DOMAIN q :
               l < i + 1 /\ OnlyData(q, l, i + 1) /\ q[l].t = "FILE" /\ q[l].path = f =>
                 q[i + 1].v = disk[f]
          /\ OnlyData(q, 0, i + 1) /\ hpc[k] = "data" /\ recv[k].file = f => q[i + 1].v = disk[f]
      BY <3>1, <3>4 DEF DataTrue
    <3>6. ASSUME NEW l \in DOMAIN r, l < i, OnlyData(r, l, i), r[l].t = "FILE", r[l].path = f
          PROVE  r[i].v = disk[f]
      <4>1. l \in Nat /\ l + 1 \in DOMAIN q /\ q[l + 1] = r[l]
        BY <3>3
      <4>2. OnlyData(q, l + 1, i + 1) /\ l + 1 < i + 1
        BY <3>3, <3>4, <3>6, <4>1
      <4>3. QED
        BY <3>4, <3>5, <3>6, <4>1, <4>2
    <3>7. ASSUME OnlyData(r, 0, i), hpc'[k] = "data", recv'[k].file = f
          PROVE  r[i].v = disk[f]
      <4>1. OnlyData(q, 1, i + 1)
        <5>1. OnlyData(q, 0 + 1, i + 1) /\ 0 + 1 = 1
          BY <3>3, <3>4, <3>7
        <5>2. QED
          BY <5>1
      <4>2. CASE FileHeader(k)
        <5>1. PICK m : m = c2s[k][1]
          OBVIOUS
        <5>2. 1 \in DOMAIN c2s[k] /\ m.t = "FILE" /\ recv'[k].file = m.path
          <6>1. WireOK /\ ServerOK
            BY <1>1
          <6>2. QED
            BY <4>2, <5>1, <6>1, HeaderTaken, ZenonT(60)
        <5>3. 1 \in DOMAIN q /\ q[1].t = "FILE" /\ q[1].path = f
          BY <3>1, <3>7, <5>1, <5>2
        <5>4. 1 < i + 1
          BY <3>4
        <5>5. QED
          BY <3>4, <3>5, <4>1, <5>3, <5>4
      <4>3. CASE FileData(k)
        <5>1. PICK p : p = recv[k].file
          OBVIOUS
        <5>2. /\ q[1].t = "data" /\ hpc[k] = "data"
              /\ recv'[k] = [file |-> p, left |-> recv[k].left - 1, pos |-> recv[k].pos + 1]
          BY <1>1, <3>1, <4>3, <5>1, DataTaken, Zenon
        <5>3. recv[k].file = f
          BY <3>7, <5>1, <5>2
        <5>4. OnlyData(q, 0, i + 1)
          <6>1. \A n \in DOMAIN q : n \in Nat /\ (0 < n => n = 1 \/ 1 < n)
            BY Places
          <6>2. QED
            BY <4>1, <5>2, <6>1 DEF OnlyData
        <5>5. QED
          BY <3>4, <3>5, <5>2, <5>3, <5>4
      <4>4. CASE ~FileHeader(k) /\ ~FileData(k)
        <5>1. Done(k) => hpc'[k] = "gone"
          BY <1>1 DEF Done, ServerOK
        <5>2. QED
          BY <1>1, <3>7, <4>4, <5>1, ServerElse
      <4>5. QED
        BY <4>2, <4>3, <4>4
    <3>8. QED
      BY <3>2, <3>6, <3>7
  <2>4. QED
    BY <1>1, <2>1, <2>2, <2>3, ServerActs
<1>6. \A j \in Conns : \A i \in DOMAIN c2s'[j] : c2s'[j][i].t = "data" =>
             /\ \A l \in DOMAIN c2s'[j] :
                  l < i /\ OnlyData(c2s'[j], l, i) /\ c2s'[j][l].t = "FILE" /\ c2s'[j][l].path = f =>
                    c2s'[j][i].v = disk[f]
             /\ OnlyData(c2s'[j], 0, i) /\ hpc'[j] = "data" /\ recv'[j].file = f =>
                  c2s'[j][i].v = disk[f]
  BY <1>4, <1>5
<1>7. QED
  BY <1>1, <1>2, <1>3, <1>6 DEF DataTrue, OnlyData

(* What is sent and what is received go on together.                       *)
LEMMA ServerKeepsSends ==
  ASSUME ServedInv, SendsIt, NEW k \in Conns, ServerAct(k), UNCHANGED clientVars
  PROVE  SendsIt'
<1>0. WireOK /\ ServerOK
  BY DEF ServedInv, ClientInv
<1>1. /\ WireOK /\ ServerOK /\ c2s[k] \in Seq(ToServer)
      /\ bpc' = bpc /\ needs' = needs /\ idx' = idx /\ conn' = conn
      /\ (bpc = "send" => conn \in Conns)
  BY Talking, ServerActs DEF ServedInv, ClientInv, clientVars, WireOK
<1>2. SUFFICES ASSUME bpc = "send", link'[conn] = "open"
               PROVE  /\ \A l \in DOMAIN c2s'[conn] :
                           OnlyData(c2s'[conn], l, Len(c2s'[conn]) + 1) /\ c2s'[conn][l].t = "FILE" =>
                             c2s'[conn][l].path = needs[idx]
                      /\ OnlyData(c2s'[conn], 0, Len(c2s'[conn]) + 1) /\ hpc'[conn] = "data" =>
                           recv'[conn].file = needs[idx]
  BY <1>1 DEF SendsIt, OnlyData
<1>3. CASE k # conn
  <2>1. c2s'[conn] = c2s[conn] /\ hpc'[conn] = hpc[conn] /\ recv'[conn] = recv[conn]
        /\ link'[conn] = link[conn]
    BY <1>1, <1>2, <1>3, ServerActs
  <2>2. QED
    BY <1>2, <2>1 DEF SendsIt
<1>4. CASE k = conn
  <2>1. link[k] = "open" /\ ~ResumeFails(k)
    BY <1>1, <1>2, <1>4, ServerAnswers
  <2>2. CASE c2s[k] # << >> /\ c2s'[k] = Tail(c2s[k])
    <3>1. PICK q \in Seq(ToServer) : q = c2s[k]
      BY <1>1
    <3>2. PICK r : r = c2s'[k]
      OBVIOUS
    <3>3. /\ \A n \in DOMAIN r : n \in Nat \ {0} /\ n + 1 \in DOMAIN q /\ r[n] = q[n + 1]
          /\ \A l, n \in Nat : OnlyData(r, l, n) => OnlyData(q, l + 1, n + 1)
          /\ Len(r) \in Nat /\ Len(q) = Len(r) + 1
      <4>1. q # << >> /\ r = Tail(q)
        BY <2>2, <3>1, <3>2
      <4>2. \A n \in DOMAIN r : n \in Nat \ {0} /\ n + 1 \in DOMAIN q /\ r[n] = q[n + 1]
        BY <4>1, Places
      <4>3. \A l, n \in Nat : OnlyData(r, l, n) => OnlyData(q, l + 1, n + 1)
        BY <4>1, ReadOn, Zenon
      <4>4. Len(r) \in Nat /\ Len(q) = Len(r) + 1
        BY <4>1, ReadOn, Zenon
      <4>5. QED
        BY <4>2, <4>3, <4>4
    <3>4. PICK n \in Nat : n = Len(r) + 1 /\ n + 1 = Len(q) + 1
      BY <3>3
    <3>5. /\ \A l \in DOMAIN q :
               OnlyData(q, l, n + 1) /\ q[l].t = "FILE" => q[l].path = needs[idx]
          /\ OnlyData(q, 0, n + 1) /\ hpc[k] = "data" => recv[k].file = needs[idx]
      BY <1>2, <1>4, <2>1, <3>1, <3>4 DEF SendsIt
    <3>6. ASSUME NEW l \in DOMAIN r, OnlyData(r, l, n), r[l].t = "FILE"
          PROVE  r[l].path = needs[idx]
      <4>1. l \in Nat /\ l + 1 \in DOMAIN q /\ q[l + 1] = r[l]
        BY <3>3
      <4>2. OnlyData(q, l + 1, n + 1)
        BY <3>3, <3>6, <4>1
      <4>3. QED
        BY <3>5, <3>6, <4>1, <4>2
    <3>7. ASSUME OnlyData(r, 0, n), hpc'[k] = "data"
          PROVE  recv'[k].file = needs[idx]
      <4>1. OnlyData(q, 1, n + 1)
        <5>1. OnlyData(q, 0 + 1, n + 1) /\ 0 + 1 = 1
          BY <3>3, <3>7
        <5>2. QED
          BY <5>1
      <4>2. CASE FileHeader(k)
        <5>1. PICK m : m = c2s[k][1]
          OBVIOUS
        <5>2. 1 \in DOMAIN c2s[k] /\ m.t = "FILE" /\ recv'[k].file = m.path
          BY <1>0, <4>2, <5>1, HeaderTaken, Zenon
        <5>3. QED
          BY <3>1, <3>5, <4>1, <5>1, <5>2
      <4>3. CASE FileData(k)
        <5>1. PICK p : p = recv[k].file
          OBVIOUS
        <5>2. /\ q[1].t = "data" /\ hpc[k] = "data"
              /\ recv'[k] = [file |-> p, left |-> recv[k].left - 1, pos |-> recv[k].pos + 1]
          BY <1>0, <3>1, <4>3, <5>1, DataTaken, Zenon
        <5>3. OnlyData(q, 0, n + 1)
          <6>1. \A x \in DOMAIN q : x \in Nat /\ (0 < x => x = 1 \/ 1 < x)
            BY Places
          <6>2. QED
            BY <4>1, <5>2, <6>1 DEF OnlyData
        <5>4. QED
          BY <3>5, <5>1, <5>2, <5>3
      <4>4. CASE ~FileHeader(k) /\ ~FileData(k)
        <5>1. Done(k) => hpc'[k] = "gone"
          BY <1>1 DEF Done, ServerOK
        <5>2. QED
          BY <1>1, <3>7, <4>4, <5>1, ServerElse
      <4>5. QED
        BY <4>2, <4>3, <4>4
    <3>8. QED
      BY <1>4, <3>2, <3>4, <3>6, <3>7
  <2>3. CASE ~(c2s[k] # << >> /\ c2s'[k] = Tail(c2s[k]))
    <3>1. hpc'[k] # "data"
      <4>1. ~FileHeader(k)
        BY <1>1, <2>3, HeaderTaken
      <4>2. ~FileData(k)
        BY <1>1, <2>3, DataTaken
      <4>3. Done(k) => hpc'[k] = "gone"
        BY <1>1 DEF Done, ServerOK
      <4>4. QED
        BY <1>1, <4>1, <4>2, <4>3, ServerElse
    <3>2. c2s'[k] = c2s[k] \/ c2s'[k] = << >>
      BY <1>1, <2>3, ServerActs
    <3>3. QED
      BY <1>2, <1>4, <2>1, <3>1, <3>2 DEF SendsIt
  <2>4. QED
    BY <2>2, <2>3
<1>5. QED
  BY <1>3, <1>4

(* What is listed still comes, or has come, when the server reads on.      *)
LEMMA ServerKeepsProgress ==
  ASSUME ServedInv, TalkInv, NEW k \in Conns, ServerAct(k), UNCHANGED clientVars,
         NEW f \in Files, disk[f] > 0, SaveInv(f)
  PROVE  Progress(f)'
<1>0. WireOK /\ ServerOK
  BY DEF ServedInv, ClientInv
<1>1. /\ Unanswered /\ FirstLine /\ Known(f) /\ FilesLack(f) /\ Progress(f)
      /\ disk' = disk /\ bpc' = bpc /\ needs' = needs /\ idx' = idx /\ conn' = conn
      /\ c2s[k] \in Seq(ToServer) /\ c2s'[k] \in Seq(ToServer) \cup {Tail(c2s[k]), << >>}
      /\ hpc \in [Conns -> {"none", "first", "renew", "files", "data", "gone", "crashed"}]
      /\ mtimes \in [Conns -> [Files -> 0..MaxVersion]]
  BY <1>0, ServerActs DEF TalkInv, SaveInv, clientVars, WireOK, ServerOK
<1>2. SUFFICES ASSUME NEW j \in Conns, hpc'[j] \in {"files", "data"}, mtimes'[j][f] > 0,
                      MayFinish(j)'
               PROVE  \/ Delivered(f)' \/ Coming(j, f)'
                      \/ j = conn /\ link'[j] = "open" /\ ToSend(f)'
  BY <1>1 DEF Progress
<1>3. CASE j # k
  <2>1. hpc'[j] = hpc[j] /\ c2s'[j] = c2s[j] /\ s2c'[j] = s2c[j] /\ recv'[j] = recv[j]
        /\ link'[j] = link[j]
    BY <1>0, <1>3, ServerActs
  <2>2. UNCHANGED << latest, temp, mtimes >>
    BY <1>2, <1>3, <2>1, OtherServed
  <2>3. MayFinish(j)
    BY <1>1, <1>2, <2>1 DEF MayFinish
  <2>4. Delivered(f) \/ Coming(j, f) \/ (j = conn /\ link[j] = "open" /\ ToSend(f))
    BY <1>1, <1>2, <2>1, <2>2, <2>3 DEF Progress
  <2>5. Delivered(f)' <=> Delivered(f)
    BY <1>1, <2>2, LackingStays DEF Delivered, There
  <2>6. Coming(j, f)' <=> Coming(j, f)
    BY <2>1 DEF Coming
  <2>7. j = conn => (ToSend(f)' <=> ToSend(f))
    BY <1>1, <2>1 DEF ToSend
  <2>8. QED
    BY <2>1, <2>4, <2>5, <2>6, <2>7
<1>4. CASE j = k
  <2>1. /\ \A i \in DOMAIN c2s'[k] : \E n \in DOMAIN c2s[k] : c2s[k][n] = c2s'[k][i]
        /\ link'[k] = "open" => link[k] = "open"
    <3>1. \A i \in DOMAIN c2s'[k] : \E n \in DOMAIN c2s[k] : c2s[k][n] = c2s'[k][i]
      <4>1. PICK d \in {0, 1} : \A i \in DOMAIN c2s'[k] :
              i + d \in DOMAIN c2s[k] /\ c2s'[k][i] = c2s[k][i + d]
        BY <1>0, ServerReads
      <4>2. QED
        BY <4>1
    <3>2. QED
      BY <1>0, <3>1, ServerAnswers
  <2>2. MayFinish(k)
    <3>1. CASE \E i \in DOMAIN c2s'[k] : c2s'[k][i].t = "DONE"
      BY <2>1, <3>1 DEF MayFinish
    <3>2. CASE k = conn /\ link'[k] = "open" /\ bpc \in {"need", "transfer", "send"}
      BY <2>1, <3>2 DEF MayFinish
    <3>3. QED
      BY <1>1, <1>2, <1>4, <3>1, <3>2 DEF MayFinish
  <2>3. CASE ~Past(k)
    <3>1. Manifest(k)
      <4>1. mtimes[k][f] = 0
        BY <1>1, <2>3 DEF Unanswered, NoMtimes
      <4>2. mtimes' # mtimes
        BY <1>2, <1>4, <4>1
      <4>3. QED
        BY <1>0, <4>2, ServerTells
    <3>2. k = conn /\ link[k] = "open" /\ bpc = "need"
      <4>1. \A i \in DOMAIN c2s[k] : c2s[k][i].t # "DONE"
        BY <1>1, <2>3 DEF Unanswered
      <4>2. k = conn /\ link[k] = "open" /\ bpc \in {"need", "transfer", "send"}
        BY <2>2, <4>1 DEF MayFinish
      <4>3. bpc \notin {"transfer", "send"}
        BY <1>1, <2>3, <4>2 DEF FirstLine
      <4>4. QED
        BY <4>2, <4>3
    <3>3. s2c[k] = << >>
      BY <1>1, <2>3, <3>2 DEF FirstLine
    <3> DEFINE m == Head(c2s[k]).entries
               T == {g \in Files : m[g] > 0 /\ Differs(g, m[g])}
    <3>4. PICK s \in SetToSeqs(T) : s2c' = Reply(k, [t |-> "NEED", files |-> s])
      BY <3>1 DEF Manifest
    <3>5. s2c'[k] = << [t |-> "NEED", files |-> s] >>
      BY <1>0, <3>2, <3>3, <3>4 DEF Reply, WireOK
    <3>6. /\ mtimes'[k] = m /\ temp' = temp /\ latest' = latest /\ link' = link
          /\ c2s[k] # << >> /\ Head(c2s[k]).t = "MANIFEST"
      BY <1>1, <3>1 DEF Manifest, Gets
    <3>7. m[f] = disk[f] /\ m[f] > 0
      <4>1. 1 \in DOMAIN c2s[k] /\ Head(c2s[k]) = c2s[k][1]
        BY <1>1, <3>6, Places
      <4>2. m[f] \in {0, disk[f]}
        BY <1>1, <3>6, <4>1 DEF Known
      <4>3. m[f] > 0
        BY <1>2, <1>4, <3>6
      <4>4. QED
        BY <4>2, <4>3
    <3> HIDE DEF m
    <3>8. CASE Lacks(f)
      <4>1. f \in T /\ T \in SUBSET Files
        BY <3>7, <3>8 DEF Lacks
      <4> HIDE DEF T
      <4>2. Listed(s, f)
        BY <3>4, <4>1, ListsAll
      <4>3. s2c'[conn] # << >> /\ Head(s2c'[conn]).t = "NEED" /\ Head(s2c'[conn]).files = s
        BY <3>2, <3>5
      <4>4. ToSend(f)'
        BY <1>1, <3>2, <4>2, <4>3 DEF ToSend, Listed
      <4>5. QED
        BY <1>4, <3>2, <3>6, <4>4
    <3>9. CASE ~Lacks(f)
      <4>1. ~There(temp[f])
        BY <1>1, <3>9 DEF FilesLack
      <4>2. Lacks(f)' <=> Lacks(f)
        BY <1>1, <3>6, LackingStays
      <4>3. Delivered(f)'
        BY <3>6, <3>9, <4>1, <4>2 DEF Delivered, There
      <4>4. QED
        BY <4>3
    <3>10. QED
      BY <3>8, <3>9
  <2>4. CASE Past(k)
    <3>1. mtimes' = mtimes /\ (link'[k] = link[k])
      <4>1. ~ResumeFails(k)
        BY <2>4 DEF ResumeFails, Past
      <4>2. QED
        BY <1>0, <2>4, <4>1, ServerTells, ServerAnswers
    <3>2. hpc[k] \in {"files", "data"}
      BY <1>0, <1>1, <2>4, ServerActs DEF Past
    <3>3. Delivered(f) \/ Coming(k, f) \/ (k = conn /\ link[k] = "open" /\ ToSend(f))
      BY <1>1, <1>2, <1>4, <2>2, <3>1, <3>2 DEF Progress
    <3>4. mtimes[k][f] > 0
      BY <1>2, <1>4, <3>1
    <3>5. CASE FileHeader(k)
      <4>1. PICK m : m = c2s[k][1]
        OBVIOUS
      <4>2. /\ 1 \in DOMAIN c2s[k] /\ m.t = "FILE" /\ hpc[k] = "files"
            /\ f # m.path => temp'[f] = temp[f]
            /\ recv'[k].file = m.path /\ hpc'[k] = (IF m.size > 0 THEN "data" ELSE "files")
            /\ latest' = latest /\ s2c' = s2c /\ c2s[k] # << >> /\ c2s'[k] = Tail(c2s[k])
        BY <1>0, <3>5, <4>1, HeaderTaken
      <4>3. CASE m.path = f
        <5>1. m.size = Chunks
          BY <1>1, <3>2, <3>4, <4>1, <4>2, <4>3 DEF FilesLack
        <5>2. hpc'[k] = "data"
          BY <4>2, <5>1, Sizes
        <5>3. QED
          BY <1>4, <4>2, <4>3, <5>2 DEF Coming
      <4>4. CASE m.path # f
        <5>1. Delivered(f)' <=> Delivered(f)
          <6>1. Lacks(f)' <=> Lacks(f)
            BY <1>1, <4>2, LackingStays
          <6>2. QED
            BY <4>2, <4>4, <6>1 DEF Delivered, There
        <5>2. Coming(k, f) => Coming(k, f)'
          <6>1. SUFFICES ASSUME NEW i \in DOMAIN c2s[k], c2s[k][i].t = "FILE", c2s[k][i].path = f
                         PROVE  \E n \in DOMAIN c2s'[k] : c2s'[k][n].t = "FILE" /\ c2s'[k][n].path = f
            BY <4>2 DEF Coming
          <6>2. i # 1
            BY <4>1, <4>4, <6>1
          <6>3. i - 1 \in DOMAIN c2s'[k] /\ c2s'[k][i - 1] = c2s[k][i]
            <7>1. PICK q \in Seq(ToServer) : q = c2s[k]
              BY <1>1
            <7>2. PICK r : r = c2s'[k]
              OBVIOUS
            <7>3. q # << >> /\ r = Tail(q) /\ i \in DOMAIN q
              BY <4>2, <6>1, <7>1, <7>2
            <7>4. i - 1 \in DOMAIN r /\ r[i - 1] = q[i]
              BY <6>2, <7>3, Places
            <7>5. QED
              BY <7>1, <7>2, <7>4
          <6>4. QED
            BY <6>1, <6>3
        <5>3. ToSend(f) => ToSend(f)'
          BY <1>1, <4>2 DEF ToSend
        <5>4. QED
          BY <1>4, <3>1, <3>3, <5>1, <5>2, <5>3
      <4>5. QED
        BY <4>3, <4>4
    <3>6. CASE FileData(k)
      <4>1. /\ 1 \in DOMAIN c2s[k] /\ c2s[k][1].t = "data" /\ hpc[k] = "data"
            /\ c2s[k] # << >> /\ c2s'[k] = Tail(c2s[k]) /\ c2s[k][1].v \in Nat
            /\ hpc'[k] = (IF recv[k].left = 1 THEN "files" ELSE "data")
            /\ latest' = latest /\ s2c' = s2c
        BY <1>0, <3>6, DataTaken
      <4>2. CASE recv[k].file = f
        <5>1. /\ temp'[f].data = Written(temp[f].data, recv[k].pos, c2s[k][1].v)
              /\ There(temp[f])'
              /\ recv'[k] = [file |-> f, left |-> recv[k].left - 1, pos |-> recv[k].pos + 1]
          BY <1>0, <3>6, <4>2, DataTaken, Zenon
        <5>2. CASE recv[k].left = 1
          <6>1. Len(temp[f].data) = recv[k].pos /\ recv[k].pos + recv[k].left = Chunks
            BY <1>1, <3>4, <4>1, <4>2 DEF FilesLack
          <6>2. temp[f].data \in Seq(Nat) /\ recv[k].pos \in Nat /\ recv[k].pos <= Len(temp[f].data)
            BY <1>0, <6>1 DEF ServerOK, Entries
          <6>3. PICK v \in Nat : v = c2s[k][1].v
            BY <4>1
          <6>4. Len(Written(temp[f].data, recv[k].pos, v)) = recv[k].pos + 1
            BY <6>1, <6>2, ChunkAdded
          <6>5. Len(temp'[f].data) = Chunks
            BY <5>1, <5>2, <6>1, <6>3, <6>4
          <6>6. QED
            BY <5>1, <6>5 DEF Delivered, There
        <5>3. CASE recv[k].left # 1
          BY <1>4, <4>1, <5>1, <5>3 DEF Coming
        <5>4. QED
          BY <5>2, <5>3
      <4>3. CASE recv[k].file # f
        <5>1. Delivered(f)' <=> Delivered(f)
          <6>1. Lacks(f)' <=> Lacks(f)
            BY <1>1, <4>1, LackingStays
          <6>2. temp'[f] = temp[f]
            BY <1>0, <3>6, <4>3 DEF FileData, ServerOK
          <6>3. QED
            BY <6>1, <6>2 DEF Delivered, There
        <5>2. Coming(k, f) => Coming(k, f)'
          <6>1. SUFFICES ASSUME NEW i \in DOMAIN c2s[k], c2s[k][i].t = "FILE", c2s[k][i].path = f
                         PROVE  \E n \in DOMAIN c2s'[k] : c2s'[k][n].t = "FILE" /\ c2s'[k][n].path = f
            BY <4>3 DEF Coming
          <6>2. i # 1
            BY <4>1, <6>1
          <6>3. i - 1 \in DOMAIN c2s'[k] /\ c2s'[k][i - 1] = c2s[k][i]
            <7>1. PICK q \in Seq(ToServer) : q = c2s[k]
              BY <1>1
            <7>2. PICK r : r = c2s'[k]
              OBVIOUS
            <7>3. q # << >> /\ r = Tail(q) /\ i \in DOMAIN q
              BY <4>1, <6>1, <7>1, <7>2
            <7>4. i - 1 \in DOMAIN r /\ r[i - 1] = q[i]
              BY <6>2, <7>3, Places
            <7>5. QED
              BY <7>1, <7>2, <7>4
          <6>4. QED
            BY <6>1, <6>3
        <5>3. ToSend(f) => ToSend(f)'
          BY <1>1, <4>1 DEF ToSend
        <5>4. QED
          BY <1>4, <3>1, <3>3, <5>1, <5>2, <5>3
      <4>4. QED
        BY <4>2, <4>3
    <3>7. CASE ~FileHeader(k) /\ ~FileData(k)
      <4>1. Done(k) => hpc'[k] = "gone"
        BY <1>1 DEF Done
      <4>2. hpc'[k] = "gone"
        BY <1>0, <2>4, <3>7, <4>1, ServerElse
      <4>3. QED
        BY <1>2, <1>4, <4>2
    <3>8. QED
      BY <3>5, <3>6, <3>7
  <2>5. QED
    BY <2>3, <2>4
<1>5. QED
  BY <1>3, <1>4

(***************************************************************************)
(* A save that is there: what the client's thread does about it.           *)
(***************************************************************************)

(* The message that the thread's step says.                                *)
Spoken(m) ==
  \/ /\ m.t = "MANIFEST" /\ (SendManifest \/ ManifestAborted)
     /\ \A f \in Files : m.entries[f] \in {0, manifest[f]}
  \/ m.t = "DONE" /\ (RecvNothingNeeded \/ SendDone)
  \/ m.t = "FILE" /\ SkipFile /\ m.path = needs[idx] /\ disk[m.path] = 0
  \/ /\ m.t = "FILE" /\ OpenFile /\ m.path = needs[idx]
     /\ m.off = 0 \/ part.path = m.path
     /\ m.size = Chunks - m.off
  \/ m.t = "data" /\ SendChunk /\ m.v = disk[needs[idx]]
  \/ m.t = "ABORT" /\ AbortNoticed

(* The thread's step adds at most one message to one channel.              *)
LEMMA ThreadWrites ==
  ASSUME ServedInv, ThreadStep, NEW k \in Conns
  PROVE  \/ c2s'[k] = c2s[k]
         \/ /\ Connect /\ k = conn + 1 /\ c2s[k] = << >>
            /\ c2s'[k] = << [t |-> "RESUME", path |-> session.path] >>
         \/ /\ k = conn /\ conn' = conn /\ link[k] = "open"
            /\ Len(c2s[k]) \in Nat /\ DOMAIN c2s[k] = 1..Len(c2s[k])
            /\ Len(c2s'[k]) = Len(c2s[k]) + 1 /\ DOMAIN c2s'[k] = 1..(Len(c2s[k]) + 1)
            /\ \A i \in DOMAIN c2s[k] : c2s'[k][i] = c2s[k][i]
            /\ \E m \in ToServer : Spoken(m) /\ c2s'[k][Len(c2s[k]) + 1] = m
<1>1. /\ WireOK /\ PlaceOK /\ LinksOK
      /\ c2s \in [Conns -> Seq(ToServer)]
  BY DEF ServedInv, ClientInv, WireOK
<1>2. CASE c2s' = c2s
  BY <1>2
<1>3. CASE Connect
  <2>1. conn + 1 \in Conns /\ conn + 1 > conn
    BY <1>1, <1>3, Sizes DEF Connect, Here, PlaceOK, Conns, WireOK
  <2>2. c2s[conn + 1] = << >>
    BY <1>1, <2>1 DEF LinksOK
  <2>3. c2s' = c2s
           \/ c2s' = [c2s EXCEPT ![conn + 1] = << [t |-> "RESUME", path |-> session.path] >>]
    BY <1>3 DEF Connect
  <2>4. QED
    BY <1>1, <1>3, <2>1, <2>2, <2>3
<1>4. CASE conn' = conn /\ conn \in Conns /\ \E m \in ToServer : c2s' = Says(m) /\ Spoken(m)
  <2>1. PICK m \in ToServer : c2s' = Says(m) /\ Spoken(m)
    BY <1>4
  <2>2. CASE k # conn \/ link[conn] # "open"
    BY <1>1, <1>4, <2>1, <2>2, ClientWrites
  <2>3. CASE k = conn /\ link[conn] = "open"
    <3>1. /\ Len(c2s'[conn]) = Len(c2s[conn]) + 1
          /\ DOMAIN c2s'[conn] = 1..(Len(c2s[conn]) + 1)
          /\ DOMAIN c2s[conn] = 1..Len(c2s[conn])
          /\ \A i \in DOMAIN c2s[conn] : c2s'[conn][i] = c2s[conn][i]
          /\ c2s'[conn][Len(c2s[conn]) + 1] = m
          /\ Len(c2s[conn]) \in Nat
      BY <1>1, <1>4, <2>1, <2>3, ClientWrites
    <3>2. QED
      BY <1>4, <2>1, <2>3, <3>1
  <2>4. QED
    BY <2>2, <2>3
<1>5. QED
  BY <1>2, <1>3, <1>4, ThreadSays DEF Spoken

(* What is new in a channel is what is said, or a resumption.              *)
LEMMA WhatIsNew ==
  ASSUME ServedInv, ThreadStep, NEW k \in Conns, NEW i \in DOMAIN c2s'[k]
  PROVE  \/ i \in DOMAIN c2s[k] /\ c2s'[k][i] = c2s[k][i]
         \/ c2s'[k][i].t = "RESUME"
         \/ /\ k = conn /\ conn' = conn /\ link[k] = "open" /\ Len(c2s[k]) \in Nat
            /\ i = Len(c2s[k]) + 1 /\ c2s'[k][i] \in ToServer /\ Spoken(c2s'[k][i])
<1>1. CASE c2s'[k] = c2s[k]
  BY <1>1
<1>2. CASE c2s'[k] = << [t |-> "RESUME", path |-> session.path] >>
  <2>1. i = 1 /\ c2s'[k][1] = [t |-> "RESUME", path |-> session.path]
    BY <1>2
  <2>2. QED
    BY <2>1
<1>3. ASSUME /\ k = conn /\ conn' = conn /\ link[k] = "open"
             /\ Len(c2s[k]) \in Nat /\ DOMAIN c2s[k] = 1..Len(c2s[k])
             /\ Len(c2s'[k]) = Len(c2s[k]) + 1 /\ DOMAIN c2s'[k] = 1..(Len(c2s[k]) + 1)
             /\ \A n \in DOMAIN c2s[k] : c2s'[k][n] = c2s[k][n]
             /\ \E m \in ToServer : Spoken(m) /\ c2s'[k][Len(c2s[k]) + 1] = m
      PROVE  \/ i \in DOMAIN c2s[k] /\ c2s'[k][i] = c2s[k][i]
             \/ /\ k = conn /\ conn' = conn /\ link[k] = "open" /\ Len(c2s[k]) \in Nat
                /\ i = Len(c2s[k]) + 1 /\ c2s'[k][i] \in ToServer /\ Spoken(c2s'[k][i])
  <2>1. i \in DOMAIN c2s[k] \/ i = Len(c2s[k]) + 1
    BY <1>3
  <2>2. CASE i \in DOMAIN c2s[k]
    BY <1>3, <2>2
  <2>3. CASE i = Len(c2s[k]) + 1
    <3>1. PICK m \in ToServer : Spoken(m) /\ c2s'[k][Len(c2s[k]) + 1] = m
      BY <1>3
    <3>2. c2s'[k][i] = m
      BY <2>3, <3>1
    <3>3. Spoken(c2s'[k][i])
      BY <3>1, <3>2, Zenon
    <3>4. QED
      BY <1>3, <2>3, <3>1, <3>2, <3>3
  <2>4. QED
    BY <2>1, <2>2, <2>3
<1>4. QED
  BY <1>1, <1>2, <1>3, ThreadWrites

(* The thread's step leaves the saves and their manifests alone.           *)
LEMMA ThreadLeaves ==
  ASSUME ThreadStep, UNCHANGED serverVars
  PROVE  /\ disk' = disk /\ cache' = cache /\ manifest' = manifest
         /\ latest' = latest /\ temp' = temp /\ saved' = saved /\ hpc' = hpc
         /\ mtimes' = mtimes /\ recv' = recv
<1>1. disk' = disk /\ cache' = cache /\ manifest' = manifest
  BY DEF ThreadStep, Negotiate, Transfer, Unreachable, Connect, RecvGo, SendManifest,
      RecvNothingNeeded, RecvNeed, RecvFails, Fail, SkipFile, OpenFile, SendChunk, FileSent,
      SendFails, SendDone, RecvOk, AbortNoticed, EndAborted, ManifestAborted, diskVars
<1>2. QED
  BY <1>1 DEF serverVars

(* A manifest that is read from the disk has the version of the disk.      *)
LEMMA ThreadKeepsKnown ==
  ASSUME ServedInv, ThreadStep, UNCHANGED serverVars, NEW f \in Files, Known(f)
  PROVE  Known(f)'
<1>1. disk' = disk /\ cache' = cache /\ manifest' = manifest /\ mtimes' = mtimes
  BY ThreadLeaves
<1>2. ASSUME NEW k \in Conns, NEW i \in DOMAIN c2s'[k], c2s'[k][i].t = "MANIFEST"
      PROVE  c2s'[k][i].entries[f] \in {0, disk[f]}
  <2>1. CASE i \in DOMAIN c2s[k] /\ c2s'[k][i] = c2s[k][i]
    BY <1>2, <2>1 DEF Known
  <2>2. CASE Spoken(c2s'[k][i])
    <3>1. c2s'[k][i].entries[f] \in {0, manifest[f]}
      BY <1>2, <2>2 DEF Spoken
    <3>2. QED
      BY <3>1 DEF Known
  <2>3. QED
    BY <1>2, <2>1, <2>2, WhatIsNew
<1>3. QED
  BY <1>1, <1>2 DEF Known

(* Of a file that is sent, the client has the entry in its need list; from *)
(* a manifest on, it sends it whole.                                       *)
LEMMA ThreadKeepsFiles ==
  ASSUME ServedInv, TalkInv, ThreadStep, UNCHANGED serverVars,
         NEW f \in Files, disk[f] > 0, SaveInv(f)
  PROVE  FilesLack(f)'
<1>1. /\ ClientOK /\ FirstLine /\ ListsLack(f) /\ FilesLack(f)
      /\ disk' = disk /\ latest' = latest /\ temp' = temp /\ hpc' = hpc /\ mtimes' = mtimes
      /\ recv' = recv
  BY ThreadLeaves DEF ServedInv, ClientInv, TalkInv, SaveInv
<1>2. Lacks(f)' <=> Lacks(f)
  BY <1>1, LackingStays
<1>3. ASSUME NEW k \in Conns, hpc[k] \notin {"gone", "crashed"}, NEW i \in DOMAIN c2s'[k],
             c2s'[k][i].t = "FILE", c2s'[k][i].path = f
      PROVE  Lacks(f) /\ (mtimes[k][f] > 0 => c2s'[k][i].off = 0 /\ c2s'[k][i].size = Chunks)
  <2>1. CASE i \in DOMAIN c2s[k] /\ c2s'[k][i] = c2s[k][i]
    BY <1>1, <1>3, <2>1 DEF FilesLack
  <2>2. CASE k = conn /\ c2s'[k][i] \in ToServer /\ Spoken(c2s'[k][i])
    <3>1. PICK m \in ToServer : m = c2s'[k][i]
      BY <2>2
    <3>2. /\ OpenFile /\ m.path = needs[idx] /\ (m.off = 0 \/ part.path = m.path)
          /\ m.size = Chunks - m.off
      <4>1. Spoken(m) /\ m.t = "FILE" /\ m.path = f
        BY <1>3, <2>2, <3>1, Zenon
      <4>2. disk[m.path] # 0
        BY <4>1
      <4>3. QED
        BY <4>1, <4>2 DEF Spoken
    <3>3. bpc = "transfer" /\ idx <= Len(needs) /\ needs[idx] = f
      BY <1>3, <3>1, <3>2 DEF OpenFile, Here
    <3>4. Lacks(f)
      <4>1. idx \in DOMAIN needs
        BY <1>1, <3>3, Sizes DEF ClientOK, NeedLists
      <4>2. Listed(needs, f)
        BY <3>3, <4>1 DEF Listed
      <4>3. QED
        BY <1>1, <3>3, <4>2 DEF ListsLack
    <3>5. ASSUME mtimes[k][f] > 0
          PROVE  m.off = 0 /\ m.size = Chunks
      <4>1. mtimes[conn] # NoMtimes
        BY <2>2, <3>5 DEF NoMtimes
      <4>2. part.path = Junk
        BY <1>1, <3>3, <4>1 DEF FirstLine
      <4>3. m.off = 0
        BY <3>2, <3>3, <4>2, Sizes
      <4>4. QED
        BY <3>2, <4>3, Sizes
    <3>6. QED
      BY <3>1, <3>4, <3>5
  <2>3. QED
    BY <1>3, <2>1, <2>2, WhatIsNew
<1>4. QED
  BY <1>1, <1>2, <1>3 DEF FilesLack, There

(* The thread takes its list from the server or from the session, which    *)
(* lists what the server lacked.                                           *)
LEMMA ThreadKeepsLists ==
  ASSUME ServedInv, TalkInv, ThreadStep, UNCHANGED serverVars,
         NEW f \in Files, disk[f] > 0, SaveInv(f)
  PROVE  ListsLack(f)'
<1>1. /\ WireOK /\ ClientOK /\ PlaceOK /\ LinksOK /\ FirstLine /\ Remembers /\ ListsLack(f)
      /\ disk' = disk /\ latest' = latest /\ saved' = saved /\ hpc' = hpc
      /\ (bpc \notin {"off", "connect"} => conn \in Conns)
      /\ s2c \in [Conns -> Seq(ToClient)]
  BY ThreadLeaves, Talking DEF ServedInv, ClientInv, TalkInv, SaveInv, WireOK
<1>2. Lacks(f)' <=> Lacks(f)
  BY <1>1, LackingStays
<1>3. ~Listed(<< >>, f)
  BY DEF Listed
<1>4. ASSUME bpc' \in {"transfer", "send", "stop"}, Listed(needs', f)
      PROVE  Lacks(f)
  <2>1. CASE RecvGo
    <3>1. bpc = "go" /\ s2c[conn] # << >> /\ Head(s2c[conn]).t = "GO" /\ needs' = needs
      BY <1>4, <2>1 DEF RecvGo, Here, Hears
    <3>2. QED
      BY <1>1, <1>4, <3>1 DEF ListsLack
  <2>2. CASE RecvNeed
    <3>1. bpc = "need" /\ s2c[conn] # << >> /\ Head(s2c[conn]).t = "NEED"
      BY <2>2 DEF RecvNeed, Here, Hears
    <3> DEFINE s == Head(s2c[conn]).files
    <3>2. needs' = s \/ \E n \in 0..Len(s) :
                          needs' = [i \in DOMAIN s |-> IF i <= n THEN s[i] ELSE Junk]
      BY <2>2, Zenon DEF RecvNeed
    <3> HIDE DEF s
    <3>3. f # Junk
      BY Sizes
    <3>4. PICK i \in DOMAIN needs' : needs'[i] = f
      BY <1>4 DEF Listed
    <3>5. i \in DOMAIN s /\ s[i] = f
      BY <3>2, <3>3, <3>4
    <3>6. Listed(Head(s2c[conn]).files, f)
      BY <3>5 DEF Listed, s
    <3>7. QED
      BY <1>1, <3>1, <3>6 DEF ListsLack
  <2>3. CASE ManifestAborted
    <3>1. bpc = "manifest" /\ needs' = needs
      BY <2>3 DEF ManifestAborted, Here
    <3>2. QED
      BY <1>1, <1>3, <1>4, <3>1 DEF Remembers
  <2>4. CASE ~(RecvGo \/ RecvNeed \/ ManifestAborted)
    <3>1. bpc \in {"transfer", "send"} /\ needs' = needs
      BY <1>4, <2>4 DEF ThreadStep, Negotiate, Transfer, Unreachable, Connect, SendManifest,
        RecvNothingNeeded, RecvFails, Fail, SkipFile, OpenFile, SendChunk, FileSent, NextFile,
        SendFails, SendDone, RecvOk, AbortNoticed, EndAborted, End, Here
    <3>2. QED
      BY <1>1, <1>4, <3>1 DEF ListsLack
  <2>5. QED
    BY <2>1, <2>2, <2>3, <2>4
<1>5. ASSUME bpc' = "go"
      PROVE  s2c'[conn'] = << >>
  <2>1. Connect
    BY <1>5 DEF ThreadStep, Negotiate, Transfer, Unreachable, RecvGo, SendManifest,
        RecvNothingNeeded, RecvNeed, RecvFails, Fail, SkipFile, OpenFile, SendChunk, FileSent,
        NextFile, SendFails, SendDone, RecvOk, AbortNoticed, EndAborted, ManifestAborted, End, Here
  <2>2. conn + 1 \in Conns /\ conn + 1 > conn /\ conn' = conn + 1 /\ s2c' = s2c
    BY <1>1, <2>1, Sizes DEF Connect, Here, PlaceOK, Conns, WireOK
  <2>3. QED
    BY <1>1, <2>2 DEF LinksOK
<1>6. ASSUME bpc' = "need"
      PROVE  s2c'[conn'] = << >>
  <2>1. SendManifest
    BY <1>6 DEF ThreadStep, Negotiate, Transfer, Unreachable, Connect, RecvGo,
        RecvNothingNeeded, RecvNeed, RecvFails, Fail, SkipFile, OpenFile, SendChunk, FileSent,
        NextFile, SendFails, SendDone, RecvOk, AbortNoticed, EndAborted, ManifestAborted, End, Here
  <2>2. bpc = "manifest" /\ conn' = conn /\ s2c' = s2c
    BY <2>1 DEF SendManifest, Here
  <2>3. QED
    BY <1>1, <2>2 DEF FirstLine
<1>7. ASSUME Listed(session'.needs, f)
      PROVE  Lacks(f) \/ (~saved /\ \A k \in Conns : hpc[k] \notin {"files", "data"})
  <2>1. CASE session' = session
    BY <1>1, <1>7, <2>1 DEF ListsLack
  <2>2. CASE session' = NoSession
    BY <1>3, <1>7, <2>2 DEF NoSession
  <2>3. ASSUME NEW i \in Nat, 1 <= i, i <= Len(needs), NEW off, session' = SavedFrom(i, off),
               bpc \in {"manifest", "stop", "transfer", "send"}
        PROVE  Lacks(f)
    <3>1. session'.needs = SubSeq(needs, i, Len(needs))
      BY <2>3 DEF SavedFrom
    <3>2. needs \in Seq(Files \cup {Junk}) /\ Len(needs) \in Nat /\ DOMAIN needs = 1..Len(needs)
      BY <1>1, LenProperties DEF ClientOK, NeedLists
    <3> DEFINE r == SubSeq(needs, i, Len(needs))
    <3>3. r \in Seq(Files \cup {Junk}) /\ Len(r) = Len(needs) - i + 1
          /\ \A n \in 1..(Len(needs) - i + 1) : r[n] = needs[i + n - 1]
      <4>1. \A n \in i..Len(needs) : needs[n] \in Files \cup {Junk}
        BY <2>3, <3>2, ElementOfSeq
      <4>2. i \in Int /\ Len(needs) \in Int
        BY <3>2
      <4>3. QED
        BY <2>3, <3>2, <4>1, <4>2, SubSeqProperties
    <3>4. DOMAIN r = 1..(Len(needs) - i + 1)
      BY <3>3, LenProperties
    <3>5. PICK n \in DOMAIN r : r[n] = f
      BY <1>7, <3>1 DEF Listed
    <3> HIDE DEF r
    <3>6. needs[i + n - 1] = f /\ i + n - 1 \in DOMAIN needs
      <4>1. n \in 1..(Len(needs) - i + 1)
        BY <3>4
      <4>2. i + n - 1 \in 1..Len(needs)
        BY <2>3, <3>2, <4>1
      <4>3. QED
        BY <3>2, <3>3, <3>5, <4>1, <4>2
    <3>7. Listed(needs, f)
      BY <3>6 DEF Listed
    <3>8. bpc # "manifest"
      BY <1>1, <1>3, <3>7 DEF Remembers
    <3>9. QED
      BY <1>1, <2>3, <3>7, <3>8 DEF ListsLack
  <2>4. CASE AbortNoticed
    <3>1. idx \in Nat /\ 1 <= idx /\ Len(needs) \in Nat
      BY <1>1, Sizes, LenProperties DEF ClientOK, NeedLists
    <3>2. bpc = "transfer" => idx <= Len(needs) + 1
      BY <1>1 DEF PlaceOK
    <3>3. PICK n : EndAborted(n) /\ n \in Nat /\ bpc \in {"manifest", "stop", "transfer"}
      <4>1. \/ bpc \in {"manifest", "stop"} /\ EndAborted(0)
            \/ bpc = "transfer" /\ EndAborted(idx - 1)
        BY <2>4 DEF AbortNoticed
      <4>2. idx - 1 \in Nat
        BY <3>1
      <4>3. QED
        BY <4>1, <4>2
    <3>4. session' = IF n < Len(needs) THEN SavedFrom(n + 1, 0) ELSE session
      BY <3>3 DEF EndAborted
    <3>5. CASE n < Len(needs)
      <4>1. n + 1 \in Nat /\ 1 <= n + 1 /\ n + 1 <= Len(needs)
        BY <3>1, <3>3, <3>5
      <4>2. QED
        BY <2>3, <3>3, <3>4, <3>5, <4>1
    <3>6. CASE ~(n < Len(needs))
      BY <2>1, <3>4, <3>6
    <3>7. QED
      BY <3>5, <3>6
  <2>5. CASE SendFails
    <3>1. bpc = "send" /\ session' = SavedFrom(idx, pos.from)
      BY <2>5 DEF SendFails, Here
    <3>2. idx \in Nat /\ 1 <= idx /\ idx <= Len(needs)
      BY <1>1, <3>1, Sizes DEF PlaceOK, ClientOK
    <3>3. QED
      BY <2>3, <3>1, <3>2
  <2>6. CASE ~AbortNoticed /\ ~SendFails
    <3>1. session' \in {session, NoSession}
      BY <2>6 DEF ThreadStep, Negotiate, Transfer, Unreachable, Connect, RecvGo, SendManifest,
        RecvNothingNeeded, RecvNeed, RecvFails, Fail, SkipFile, OpenFile, SendChunk, FileSent,
        SendDone, RecvOk, ManifestAborted, ClearSession, diskVars
    <3>2. QED
      BY <2>1, <2>2, <3>1
  <2>7. QED
    BY <2>4, <2>5, <2>6
<1>8. QED
  BY <1>1, <1>2, <1>4, <1>5, <1>6, <1>7 DEF ListsLack

(* The chunks that are sent are those of the file they are sent for.       *)
LEMMA ThreadKeepsData ==
  ASSUME ServedInv, SendsIt, ThreadStep, UNCHANGED serverVars, NEW f \in Files, DataTrue(f)
  PROVE  DataTrue(f)'
<1>1. /\ disk' = disk /\ latest' = latest /\ temp' = temp /\ hpc' = hpc /\ recv' = recv
      /\ \A k \in Conns : c2s[k] \in Seq(ToServer)
  BY ThreadLeaves DEF ServedInv, ClientInv, WireOK
<1>2. SUFFICES ASSUME NEW k \in Conns, NEW i \in DOMAIN c2s'[k], c2s'[k][i].t = "data"
               PROVE  /\ \A l \in DOMAIN c2s'[k] :
                           l < i /\ OnlyData(c2s'[k], l, i) /\ c2s'[k][l].t = "FILE"
                             /\ c2s'[k][l].path = f => c2s'[k][i].v = disk[f]
                      /\ OnlyData(c2s'[k], 0, i) /\ hpc[k] = "data" /\ recv[k].file = f =>
                           c2s'[k][i].v = disk[f]
  BY <1>1 DEF DataTrue, OnlyData
<1>3. CASE c2s'[k] = c2s[k]
  BY <1>2, <1>3 DEF DataTrue
<1>4. CASE c2s'[k] = << [t |-> "RESUME", path |-> session.path] >>
  <2>1. c2s'[k][i].t = "RESUME"
    BY <1>2, <1>4
  <2>2. QED
    BY <1>2, <2>1
<1>5. ASSUME /\ k = conn /\ conn' = conn /\ link[k] = "open"
             /\ Len(c2s[k]) \in Nat /\ DOMAIN c2s[k] = 1..Len(c2s[k])
             /\ Len(c2s'[k]) = Len(c2s[k]) + 1 /\ DOMAIN c2s'[k] = 1..(Len(c2s[k]) + 1)
             /\ \A n \in DOMAIN c2s[k] : c2s'[k][n] = c2s[k][n]
             /\ \E m \in ToServer : Spoken(m) /\ c2s'[k][Len(c2s[k]) + 1] = m
      PROVE  /\ \A l \in DOMAIN c2s'[k] :
                  l < i /\ OnlyData(c2s'[k], l, i) /\ c2s'[k][l].t = "FILE"
                    /\ c2s'[k][l].path = f => c2s'[k][i].v = disk[f]
             /\ OnlyData(c2s'[k], 0, i) /\ hpc[k] = "data" /\ recv[k].file = f =>
                  c2s'[k][i].v = disk[f]
  <2>1. PICK n \in Nat : n = Len(c2s[k])
    BY <1>5
  <2>2. PICK m \in ToServer : Spoken(m) /\ c2s'[k][n + 1] = m
    BY <1>5, <2>1
  <2>3. DOMAIN c2s[k] = 1..n /\ DOMAIN c2s'[k] = 1..(n + 1) /\ DOMAIN c2s[k] \subseteq DOMAIN c2s'[k]
    BY <1>5, <2>1
  <2>4. \A l, x : OnlyData(c2s'[k], l, x) => OnlyData(c2s[k], l, x)
    BY <1>5, <2>3 DEF OnlyData
  <2>5. \A l \in DOMAIN c2s'[k] : l < i => l \in DOMAIN c2s[k] /\ c2s'[k][l] = c2s[k][l]
    BY <1>5, <2>3
  <2>6. CASE i \in DOMAIN c2s[k]
    BY <1>2, <1>5, <2>4, <2>5, <2>6 DEF DataTrue
  <2>7. CASE i \notin DOMAIN c2s[k]
    <3>1. i = n + 1
      BY <2>3, <2>7
    <3>2. SendChunk /\ m.v = disk[needs[idx]] /\ c2s'[k][i] = m
      BY <1>2, <2>2, <3>1 DEF Spoken
    <3>3. bpc = "send"
      BY <3>2 DEF SendChunk, Here
    <3>4. /\ \A l \in DOMAIN c2s[k] :
               OnlyData(c2s[k], l, n + 1) /\ c2s[k][l].t = "FILE" => c2s[k][l].path = needs[idx]
          /\ OnlyData(c2s[k], 0, n + 1) /\ hpc[k] = "data" => recv[k].file = needs[idx]
      BY <1>5, <2>1, <3>3 DEF SendsIt
    <3>5. QED
      BY <2>4, <2>5, <3>1, <3>2, <3>4
  <2>8. QED
    BY <2>6, <2>7
<1>6. QED
  BY <1>3, <1>4, <1>5, ThreadWrites

(* The thread sends the chunks of the file whose head it has sent.         *)
LEMMA ThreadKeepsSends ==
  ASSUME ServedInv, SendsIt, ThreadStep, UNCHANGED serverVars
  PROVE  SendsIt'
<1>1. /\ hpc' = hpc /\ recv' = recv /\ WireOK
  BY ThreadLeaves DEF ServedInv, ClientInv
<1>2. SUFFICES ASSUME bpc' = "send", link'[conn'] = "open"
               PROVE  /\ \A l \in DOMAIN c2s'[conn'] :
                           OnlyData(c2s'[conn'], l, Len(c2s'[conn']) + 1)
                             /\ c2s'[conn'][l].t = "FILE" => c2s'[conn'][l].path = needs'[idx']
                      /\ OnlyData(c2s'[conn'], 0, Len(c2s'[conn']) + 1) /\ hpc[conn'] = "data" =>
                           recv[conn'].file = needs'[idx']
  BY <1>1 DEF SendsIt, OnlyData
<1>3. OpenFile \/ SendChunk
  BY <1>2 DEF ThreadStep, Negotiate, Transfer, Unreachable, Connect, RecvGo, SendManifest,
        RecvNothingNeeded, RecvNeed, RecvFails, Fail, SkipFile, FileSent, NextFile,
        SendFails, SendDone, RecvOk, AbortNoticed, EndAborted, ManifestAborted, End, Here
<1>4. /\ conn' = conn /\ link' = link /\ needs' = needs /\ idx' = idx /\ conn \in Conns
      /\ (SendChunk => bpc = "send")
  BY <1>3, Talking DEF OpenFile, SendChunk, Here, ServedInv, ClientInv
<1>5. PICK k \in Conns : k = conn
  BY <1>4
<1>6. PICK m \in ToServer :
        /\ c2s' = Says(m)
        /\ (m.t = "FILE" /\ m.path = needs[idx]) \/ (m.t = "data" /\ bpc = "send")
  <2>1. ~Connect /\ ~RecvNothingNeeded /\ ~SendDone /\ ~SkipFile /\ ~AbortNoticed
          /\ ~SendManifest /\ ~ManifestAborted
    BY <1>2 DEF Connect, RecvNothingNeeded, SendDone, SkipFile, NextFile, AbortNoticed, EndAborted,
                SendManifest, ManifestAborted, End
  <2>2. QED
    BY <1>2, <1>4, <2>1, ThreadSays
<1>7. PICK n \in Nat : n = Len(c2s[k])
  BY <1>1, <1>5, LenProperties DEF WireOK
<1>8. /\ Len(c2s'[k]) = n + 1 /\ DOMAIN c2s'[k] = 1..(n + 1) /\ DOMAIN c2s[k] = 1..n
      /\ \A l \in DOMAIN c2s[k] : c2s'[k][l] = c2s[k][l]
      /\ c2s'[k][n + 1] = m
  BY <1>1, <1>2, <1>4, <1>5, <1>6, <1>7, ClientWrites
<1>9. /\ ~(OnlyData(c2s'[k], 0, n + 2) /\ m.t = "FILE")
      /\ \A l \in DOMAIN c2s[k] : ~(OnlyData(c2s'[k], l, n + 2) /\ m.t = "FILE")
  <2>1. n + 1 \in DOMAIN c2s'[k] /\ 0 < n + 1 /\ n + 1 < n + 2
        /\ \A l \in DOMAIN c2s[k] : l < n + 1
    BY <1>8
  <2>2. QED
    BY <1>8, <2>1 DEF OnlyData
<1>10. ASSUME m.t = "data", bpc = "send"
       PROVE  /\ \A l \in DOMAIN c2s[k] :
                   OnlyData(c2s'[k], l, n + 2) /\ c2s[k][l].t = "FILE" => c2s[k][l].path = needs[idx]
              /\ OnlyData(c2s'[k], 0, n + 2) /\ hpc[k] = "data" => recv[k].file = needs[idx]
  <2>1. /\ \A l \in DOMAIN c2s[k] :
             OnlyData(c2s[k], l, n + 1) /\ c2s[k][l].t = "FILE" => c2s[k][l].path = needs[idx]
        /\ OnlyData(c2s[k], 0, n + 1) /\ hpc[k] = "data" => recv[k].file = needs[idx]
    BY <1>2, <1>4, <1>5, <1>7, <1>10 DEF SendsIt
  <2>2. \A l : OnlyData(c2s'[k], l, n + 2) => OnlyData(c2s[k], l, n + 1)
    <3>1. \A x \in DOMAIN c2s[k] : x \in DOMAIN c2s'[k] /\ x < n + 2
      BY <1>8
    <3>2. QED
      BY <1>8, <3>1 DEF OnlyData
  <2>3. QED
    BY <2>1, <2>2
<1>11. ASSUME NEW l \in DOMAIN c2s'[k], OnlyData(c2s'[k], l, n + 2), c2s'[k][l].t = "FILE"
       PROVE  c2s'[k][l].path = needs[idx]
  <2>1. l \in DOMAIN c2s[k] \/ l = n + 1
    BY <1>8
  <2>2. CASE l = n + 1
    BY <1>6, <1>8, <1>11, <2>2
  <2>3. CASE l \in DOMAIN c2s[k]
    BY <1>6, <1>8, <1>9, <1>10, <1>11, <2>3
  <2>4. QED
    BY <2>1, <2>2, <2>3
<1>12. ASSUME OnlyData(c2s'[k], 0, n + 2), hpc[k] = "data"
       PROVE  recv[k].file = needs[idx]
  BY <1>6, <1>9, <1>10, <1>12
<1>13. Len(c2s'[k]) + 1 = n + 2
  BY <1>8
<1>14. QED
  BY <1>4, <1>5, <1>11, <1>12, <1>13

(* What is listed still comes, or has come, when the thread goes on.       *)
LEMMA ThreadKeepsProgress ==
  ASSUME ServedInv, TalkInv, ThreadStep, UNCHANGED serverVars,
         NEW f \in Files, disk[f] > 0, SaveInv(f)
  PROVE  Progress(f)'
<1>0. /\ WireOK /\ ClientOK /\ PlaceOK /\ LinksOK /\ FirstLine /\ DoneIsLast /\ Progress(f)
      /\ disk' = disk /\ latest' = latest /\ temp' = temp /\ hpc' = hpc /\ mtimes' = mtimes
      /\ recv' = recv
  BY ThreadLeaves DEF ServedInv, ClientInv, TalkInv, SaveInv
<1>00. needs \in Seq(Files \cup {Junk}) /\ idx \in Nat /\ 1 <= idx
  BY <1>0, Sizes DEF ClientOK, NeedLists
<1>1. /\ WireOK /\ ClientOK /\ PlaceOK /\ LinksOK /\ FirstLine /\ DoneIsLast /\ Progress(f)
      /\ disk' = disk /\ latest' = latest /\ temp' = temp /\ hpc' = hpc /\ mtimes' = mtimes
      /\ recv' = recv
      /\ (bpc \notin {"off", "connect"} => conn \in Conns)
      /\ Len(needs) \in Nat /\ DOMAIN needs = 1..Len(needs) /\ idx \in Nat /\ 1 <= idx
  BY <1>0, <1>00, Talking, LenProperties
<1>2. Delivered(f)' <=> Delivered(f)
  BY <1>1, LackingStays DEF Delivered, There
<1>3. ASSUME NEW k \in Conns, Coming(k, f)
      PROVE  Coming(k, f)'
  <2>1. CASE hpc[k] = "data" /\ recv[k].file = f
    BY <1>1, <2>1 DEF Coming
  <2>2. CASE \E i \in DOMAIN c2s[k] : c2s[k][i].t = "FILE" /\ c2s[k][i].path = f
    <3>1. PICK i \in DOMAIN c2s[k] : c2s[k][i].t = "FILE" /\ c2s[k][i].path = f
      BY <2>2
    <3>2. i \in DOMAIN c2s'[k] /\ c2s'[k][i] = c2s[k][i]
      <4>1. c2s[k] # << >>
        BY <3>1
      <4>2. \/ c2s'[k] = c2s[k]
            \/ /\ Len(c2s[k]) \in Nat /\ DOMAIN c2s[k] = 1..Len(c2s[k])
               /\ DOMAIN c2s'[k] = 1..(Len(c2s[k]) + 1)
               /\ \A n \in DOMAIN c2s[k] : c2s'[k][n] = c2s[k][n]
        BY <4>1, ThreadWrites
      <4>3. QED
        BY <3>1, <4>2
    <3>3. QED
      BY <3>1, <3>2 DEF Coming
  <2>3. QED
    BY <1>3, <2>1, <2>2 DEF Coming
<1>4. SUFFICES ASSUME NEW k \in Conns, hpc[k] \in {"files", "data"}, mtimes[k][f] > 0, MayFinish(k)'
               PROVE  \/ Delivered(f) \/ Coming(k, f)'
                      \/ k = conn' /\ link'[k] = "open" /\ ToSend(f)'
  BY <1>1, <1>2 DEF Progress
<1>5. SUFFICES ASSUME k = conn, link[k] = "open", ToSend(f), MayFinish(k)
               PROVE  \/ Coming(k, f)'
                      \/ k = conn' /\ link'[k] = "open" /\ ToSend(f)'
  <2>1. MayFinish(k)
    <3>1. CASE \E i \in DOMAIN c2s'[k] : c2s'[k][i].t = "DONE"
      <4>1. PICK i \in DOMAIN c2s'[k] : c2s'[k][i].t = "DONE"
        BY <3>1
      <4>2. CASE i \in DOMAIN c2s[k] /\ c2s'[k][i] = c2s[k][i]
        BY <4>1, <4>2 DEF MayFinish
      <4>3. CASE k = conn /\ link[k] = "open" /\ Spoken(c2s'[k][i])
        <5>1. RecvNothingNeeded \/ SendDone
          BY <4>1, <4>3 DEF Spoken
        <5>2. bpc \in {"need", "transfer"}
          BY <5>1 DEF RecvNothingNeeded, SendDone, Here
        <5>3. QED
          BY <4>3, <5>2 DEF MayFinish
      <4>4. QED
        BY <4>1, <4>2, <4>3, WhatIsNew
    <3>2. CASE k = conn' /\ link'[k] = "open" /\ bpc' \in {"need", "transfer", "send"}
      <4>1. ~Connect /\ ~(conn' = conn /\ bpc = "off")
        BY <3>2 DEF Connect, ThreadStep, Negotiate, Transfer, Unreachable, RecvGo, SendManifest,
          RecvNothingNeeded, RecvNeed, RecvFails, Fail, SkipFile, OpenFile, SendChunk, FileSent,
          SendFails, SendDone, RecvOk, AbortNoticed, ManifestAborted, Here
      <4>2. conn' = conn
        BY <4>1, ThreadSays
      <4>3. /\ bpc \in {"go", "manifest", "need", "transfer", "send"} /\ link'[k] = link[k]
        BY <3>2 DEF Connect, ThreadStep, Negotiate, Transfer, Unreachable, RecvGo, SendManifest,
          RecvNothingNeeded, RecvNeed, RecvFails, Fail, SkipFile, OpenFile, SendChunk, FileSent,
          NextFile, SendFails, SendDone, RecvOk, AbortNoticed, EndAborted, ManifestAborted, End,
          Here, wireVars
      <4>4. bpc \notin {"go", "manifest"}
        BY <1>1, <1>4, <3>2, <4>2 DEF FirstLine, NoMtimes
      <4>5. QED
        BY <3>2, <4>2, <4>3, <4>4 DEF MayFinish
    <3>3. QED
      BY <1>4, <3>1, <3>2 DEF MayFinish
  <2>2. Delivered(f) \/ Coming(k, f) \/ (k = conn /\ link[k] = "open" /\ ToSend(f))
    BY <1>1, <1>4, <2>1 DEF Progress
  <2>3. QED
    BY <1>3, <1>5, <2>1, <2>2
<1>6. /\ bpc \in {"need", "transfer", "send"}
      /\ \A i \in DOMAIN c2s[k] : c2s[k][i].t # "DONE"
  <2>1. bpc \in {"need", "transfer", "send"}
    BY <1>5 DEF ToSend
  <2>2. QED
    BY <1>1, <1>5, <2>1 DEF DoneIsLast
<1>7. CASE RecvNothingNeeded
  <2>1. bpc = "need" /\ Head(s2c[conn]).files = << >>
    BY <1>7 DEF RecvNothingNeeded, Here
  <2>2. ~ToSend(f)
    BY <2>1 DEF ToSend, Listed
  <2>3. QED
    BY <1>5, <2>2
<1>8. CASE SendDone
  <2>1. bpc = "transfer" /\ idx > Len(needs)
    BY <1>8 DEF SendDone, Here
  <2>2. ~ToSend(f)
    BY <1>1, <2>1 DEF ToSend
  <2>3. QED
    BY <1>5, <2>2
<1>9. CASE ~RecvNothingNeeded /\ ~SendDone
  <2>1. k = conn' /\ link'[k] = "open" /\ bpc' \in {"need", "transfer", "send"}
    <3>1. ASSUME NEW i \in DOMAIN c2s'[k], c2s'[k][i].t = "DONE" PROVE FALSE
      <4>1. ~Spoken(c2s'[k][i])
        BY <1>9, <3>1 DEF Spoken
      <4>2. QED
        BY <1>6, <3>1, <4>1, WhatIsNew
    <3>2. QED
      BY <1>4, <3>1 DEF MayFinish
  <2>2. CASE RecvNeed
    <3>1. /\ bpc = "need" /\ Head(s2c[conn]).t = "NEED" /\ s2c[conn] # << >>
          /\ ~aborting /\ idx' = 1 /\ bpc' = "transfer"
      BY <2>1, <2>2 DEF RecvNeed, Here, Hears
    <3>2. needs' = Head(s2c[conn]).files
      BY <2>2, <3>1 DEF RecvNeed
    <3>3. Listed(needs', f)
      BY <1>5, <3>1, <3>2 DEF ToSend
    <3>4. Head(s2c[conn]).files \in NeedLists
      BY <3>1, HeardWell, SaidToClient DEF ServedInv
    <3>5. \A i \in DOMAIN needs' : i >= 1
      BY <3>2, <3>4, LenProperties DEF NeedLists
    <3>6. ToSend(f)'
      BY <3>1, <3>3, <3>5 DEF ToSend, Listed
    <3>7. QED
      BY <2>1, <3>6
  <2>3. CASE SkipFile
    <3>1. /\ bpc = "transfer" /\ bpc' = "transfer" /\ needs' = needs /\ idx' = idx + 1
          /\ needs[idx] = Junk \/ disk[needs[idx]] = 0
      BY <2>3 DEF SkipFile, Here, NextFile
    <3>2. needs[idx] # f
      BY <3>1, Sizes
    <3>3. PICK i \in DOMAIN needs : i >= idx /\ needs[i] = f
      BY <1>5, <3>1 DEF ToSend
    <3>4. i >= idx + 1
      BY <1>1, <3>2, <3>3
    <3>5. QED
      BY <2>1, <3>1, <3>3, <3>4 DEF ToSend
  <2>4. CASE OpenFile
    <3>1. bpc = "transfer" /\ bpc' = "send" /\ needs' = needs /\ idx' = idx
      BY <2>4 DEF OpenFile, Here
    <3>2. PICK i \in DOMAIN needs : i >= idx /\ needs[i] = f
      BY <1>5, <3>1 DEF ToSend
    <3>3. CASE i = idx
      <4>1. PICK m \in ToServer : c2s' = Says(m) /\ m.t = "FILE" /\ m.path = needs[idx]
        <5>1. ~Connect /\ ~SkipFile /\ ~AbortNoticed /\ ~SendManifest /\ ~ManifestAborted /\ ~SendChunk
          BY <3>1 DEF Connect, SkipFile, NextFile, AbortNoticed, EndAborted, SendManifest, SendChunk,
                      ManifestAborted, End, Here
        <5>2. QED
          BY <1>9, <3>1, <5>1, ThreadSays
      <4>2. PICK n \in Nat : n = Len(c2s[k]) /\ n + 1 \in DOMAIN c2s'[k] /\ c2s'[k][n + 1] = m
        <5>1. /\ DOMAIN c2s'[conn] = 1..(Len(c2s[conn]) + 1)
              /\ c2s'[conn][Len(c2s[conn]) + 1] = m
              /\ Len(c2s[conn]) \in Nat
          BY <1>1, <1>5, <4>1, ClientWrites
        <5>2. QED
          BY <1>5, <5>1
      <4>3. Coming(k, f)'
        BY <3>2, <3>3, <4>1, <4>2 DEF Coming
      <4>4. QED
        BY <4>3
    <3>4. CASE i # idx
      <4>1. i > idx
        BY <1>1, <3>2, <3>4
      <4>2. QED
        BY <2>1, <3>1, <3>2, <4>1 DEF ToSend
    <3>5. QED
      BY <3>3, <3>4
  <2>5. CASE SendChunk
    <3>1. bpc = "send" /\ bpc' = "send" /\ needs' = needs /\ idx' = idx
      BY <2>5 DEF SendChunk, Here
    <3>2. QED
      BY <1>5, <2>1, <3>1 DEF ToSend
  <2>6. CASE FileSent
    <3>1. bpc = "send" /\ bpc' = "transfer" /\ needs' = needs /\ idx' = idx + 1
      BY <2>6 DEF FileSent, NextFile, Here
    <3>2. PICK i \in DOMAIN needs : i > idx /\ needs[i] = f
      BY <1>5, <3>1 DEF ToSend
    <3>3. i >= idx + 1
      BY <1>1, <3>2
    <3>4. QED
      BY <2>1, <3>1, <3>2, <3>3 DEF ToSend
  <2>7. CASE ~(RecvNeed \/ SkipFile \/ OpenFile \/ SendChunk \/ FileSent)
    <3>1. bpc' \notin {"need", "transfer", "send"}
      BY <1>6, <1>9, <2>7 DEF ThreadStep, Negotiate, Transfer, Unreachable, Connect, RecvGo,
         SendManifest, RecvFails, Fail, SendFails, RecvOk, AbortNoticed, EndAborted,
         ManifestAborted, End, Here
    <3>2. QED
      BY <2>1, <3>1
  <2>8. QED
    BY <2>2, <2>3, <2>4, <2>5, <2>6, <2>7
<1>10. QED
  BY <1>7, <1>8, <1>9

(***************************************************************************)
(* A save that is there: what the rest of the console and a connection     *)
(* that breaks do about it.                                                *)
(***************************************************************************)

(* The channels are as they were, or a part of them is left that does not  *)
(* tell that the client is done.                                           *)
Thinner ==
  /\ \A k \in Conns :
       /\ \A i \in DOMAIN c2s'[k] :
            /\ i \in DOMAIN c2s[k] /\ c2s'[k][i] = c2s[k][i]
            /\ \A j \in DOMAIN c2s[k] : j < i => j \in DOMAIN c2s'[k]
       /\ \/ c2s'[k] = c2s[k]
          \/ link'[k] # "open" /\ \A i \in DOMAIN c2s'[k] : c2s'[k][i].t # "DONE"
       /\ link'[k] = "open" => link[k] = "open" /\ s2c'[k] = s2c[k]
  /\ conn \in Conns => s2c'[conn] = s2c[conn] \/ s2c'[conn] = << >>
  /\ conn' = conn /\ session' = session /\ UNCHANGED serverVars
  /\ \/ bpc' = bpc /\ needs' = needs /\ idx' = idx
     \/ bpc' \in {"off", "connect"}

(* What is being sent is still what is received when messages are lost.    *)
LEMMA ThinnerKeepsSends ==
  ASSUME ServedInv, SendsIt, Thinner
  PROVE  SendsIt'
<1>1. WireOK /\ (bpc \notin {"off", "connect"} => conn \in Conns)
  BY Talking DEF ServedInv, ClientInv
<1>2. /\ conn' = conn /\ hpc' = hpc /\ recv' = recv
      /\ \/ bpc' = bpc /\ needs' = needs /\ idx' = idx
         \/ bpc' # "send"
  BY DEF Thinner, serverVars
<1>3. SUFFICES ASSUME bpc = "send", needs' = needs, idx' = idx, bpc' = bpc, link'[conn] = "open"
               PROVE  SendsIt'
  BY <1>2 DEF SendsIt
<1>4. conn \in Conns /\ c2s'[conn] = c2s[conn] /\ link[conn] = "open"
  BY <1>1, <1>3 DEF Thinner
<1>5. QED
  BY <1>2, <1>3, <1>4 DEF SendsIt, OnlyData

(* What is known of a save is kept when messages are lost and DONE is not  *)
(* among those left.                                                       *)
LEMMA ThinnerKeepsSave ==
  ASSUME ServedInv, TalkInv, Thinner,
         NEW f \in Files, disk[f] > 0, disk'[f] = disk[f], SaveInv(f),
         {manifest'[f], cache'[f]} \subseteq {0, disk[f]}
  PROVE  SaveInv(f)'
<1>1. /\ WireOK /\ DoneIsLast /\ Known(f) /\ ListsLack(f) /\ FilesLack(f) /\ DataTrue(f) /\ Progress(f)
      /\ (bpc \notin {"off", "connect"} => conn \in Conns)
  BY Talking DEF ServedInv, ClientInv, TalkInv, SaveInv
<1>2. /\ latest' = latest /\ temp' = temp /\ saved' = saved /\ hpc' = hpc /\ mtimes' = mtimes
      /\ recv' = recv /\ conn' = conn /\ session' = session
  BY DEF Thinner, serverVars
<1>3. \A k \in Conns : \A i \in DOMAIN c2s'[k] :
        /\ i \in DOMAIN c2s[k] /\ c2s'[k][i] = c2s[k][i]
        /\ \A j \in DOMAIN c2s[k] : j < i => j \in DOMAIN c2s'[k]
  BY DEF Thinner
<1>4. \/ bpc' = bpc /\ needs' = needs /\ idx' = idx
      \/ bpc' \in {"off", "connect"}
  BY DEF Thinner
<1>5. Lacks(f)' <=> Lacks(f)
  BY <1>2, LackingStays
<1>6. Known(f)'
  BY <1>1, <1>2, <1>3 DEF Known
<1>7. ListsLack(f)'
  <2>1. CASE bpc' \in {"off", "connect"}
    BY <1>1, <1>2, <1>5, <2>1 DEF ListsLack
  <2>2. CASE bpc' = bpc /\ needs' = needs /\ bpc \notin {"off", "connect"}
    <3>1. s2c'[conn] = s2c[conn] \/ s2c'[conn] = << >>
      BY <1>1, <2>2 DEF Thinner
    <3>2. QED
      BY <1>1, <1>2, <1>5, <2>2, <3>1 DEF ListsLack
  <2>3. QED
    BY <1>4, <2>1, <2>2
<1>8. FilesLack(f)'
  BY <1>1, <1>2, <1>3, <1>5 DEF FilesLack, There
<1>9. DataTrue(f)'
  <2>1. SUFFICES ASSUME NEW k \in Conns, NEW i \in DOMAIN c2s'[k], c2s'[k][i].t = "data"
                 PROVE  /\ \A l \in DOMAIN c2s'[k] :
                             l < i /\ OnlyData(c2s'[k], l, i) /\ c2s'[k][l].t = "FILE"
                               /\ c2s'[k][l].path = f => c2s'[k][i].v = disk[f]
                        /\ OnlyData(c2s'[k], 0, i) /\ hpc[k] = "data" /\ recv[k].file = f =>
                             c2s'[k][i].v = disk[f]
    BY <1>1, <1>2 DEF DataTrue, OnlyData
  <2>2. \A l : OnlyData(c2s'[k], l, i) => OnlyData(c2s[k], l, i)
    BY <1>3 DEF OnlyData
  <2>3. QED
    BY <1>1, <1>3, <2>1, <2>2 DEF DataTrue
<1>10. Progress(f)'
  <2>1. SUFFICES ASSUME NEW k \in Conns, hpc[k] \in {"files", "data"}, mtimes[k][f] > 0,
                        MayFinish(k)'
                 PROVE  \/ Delivered(f)' \/ Coming(k, f)'
                        \/ k = conn' /\ link'[k] = "open" /\ ToSend(f)'
    BY <1>2 DEF Progress
  <2>2. c2s'[k] = c2s[k] /\ (link'[k] = "open" => link[k] = "open" /\ s2c'[k] = s2c[k])
    <3>1. \/ \E i \in DOMAIN c2s'[k] : c2s'[k][i].t = "DONE"
          \/ link'[k] = "open"
      BY <2>1 DEF MayFinish
    <3>2. QED
      BY <3>1 DEF Thinner
  <2>3. MayFinish(k)
    <3>1. CASE \E i \in DOMAIN c2s'[k] : c2s'[k][i].t = "DONE"
      BY <2>2, <3>1 DEF MayFinish
    <3>2. CASE k = conn' /\ link'[k] = "open" /\ bpc' \in {"need", "transfer", "send"}
      BY <1>2, <1>4, <2>2, <3>2 DEF MayFinish
    <3>3. QED
      BY <2>1, <3>1, <3>2 DEF MayFinish
  <2>4. Delivered(f) \/ Coming(k, f) \/ (k = conn /\ link[k] = "open" /\ ToSend(f))
    BY <1>1, <2>1, <2>3 DEF Progress
  <2>5. Delivered(f)' <=> Delivered(f)
    BY <1>2, <1>5 DEF Delivered, There
  <2>6. Coming(k, f)' <=> Coming(k, f)
    BY <1>2, <2>2 DEF Coming
  <2>7. ASSUME k = conn, link[k] = "open", ToSend(f)
        PROVE  link'[k] = "open" /\ ToSend(f)'
    <3>1. bpc \in {"need", "transfer", "send"}
      BY <2>7 DEF ToSend
    <3>2. \A i \in DOMAIN c2s[k] : c2s[k][i].t # "DONE"
      BY <1>1, <2>7, <3>1 DEF DoneIsLast
    <3>3. link'[k] = "open" /\ bpc' \in {"need", "transfer", "send"}
      BY <2>1, <2>2, <3>2 DEF MayFinish
    <3>4. needs' = needs /\ idx' = idx /\ bpc' = bpc /\ s2c'[conn] = s2c[conn]
      BY <1>4, <2>2, <2>7, <3>3
    <3>5. QED
      BY <1>2, <2>7, <3>3, <3>4 DEF ToSend
  <2>8. QED
    BY <1>2, <2>4, <2>5, <2>6, <2>7
<1>11. QED
  BY <1>6, <1>7, <1>8, <1>9, <1>10 DEF SaveInv

(* A connection that breaks is thinner.                                    *)
LEMMA BreakIsThinner ==
  ASSUME ServedInv, TalkInv, NEW k \in Conns, Lose(k), UNCHANGED serverVars, session' = session,
         \/ bpc' = bpc /\ needs' = needs /\ idx' = idx
         \/ bpc' \in {"off", "connect"}
  PROVE  Thinner
<1>1. WireOK /\ DoneIsLast
  BY DEF ServedInv, ClientInv, TalkInv
<1>2. /\ conn' = conn
      /\ \A j \in Conns : j # k => c2s'[j] = c2s[j] /\ s2c'[j] = s2c[j] /\ link'[j] = link[j]
      /\ link'[k] = "lost" /\ s2c'[k] = << >>
      /\ \A i \in DOMAIN c2s'[k] : i \in DOMAIN c2s[k] /\ c2s'[k][i] = c2s[k][i]
      /\ Len(c2s'[k]) <= Len(c2s[k]) /\ Len(c2s'[k]) \in Nat
      /\ DOMAIN c2s'[k] = 1..Len(c2s'[k]) /\ DOMAIN c2s[k] = 1..Len(c2s[k]) /\ Len(c2s[k]) \in Nat
      /\ Len(c2s'[k]) = Len(c2s[k]) => c2s'[k] = c2s[k]
  BY <1>1, Breaks
<1>3. \A i \in DOMAIN c2s'[k] : \A j \in DOMAIN c2s[k] : j < i => j \in DOMAIN c2s'[k]
  <2>1. PICK n \in Nat : n = Len(c2s'[k])
    BY <1>2
  <2>2. PICK m \in Nat : m = Len(c2s[k])
    BY <1>2
  <2>3. DOMAIN c2s'[k] = 1..n /\ DOMAIN c2s[k] = 1..m
    BY <1>2, <2>1, <2>2
  <2>4. \A i \in 1..n : \A j \in 1..m : j < i => j \in 1..n
    OBVIOUS
  <2>5. QED
    BY <2>3, <2>4, Zenon
<1>4. c2s'[k] = c2s[k] \/ \A i \in DOMAIN c2s'[k] : c2s'[k][i].t # "DONE"
  <2>1. SUFFICES ASSUME NEW i \in DOMAIN c2s'[k], c2s'[k][i].t = "DONE"
                 PROVE  Len(c2s'[k]) = Len(c2s[k])
    BY <1>2
  <2>2. i = Len(c2s[k])
    BY <1>1, <1>2, <2>1 DEF DoneIsLast
  <2>3. Len(c2s[k]) \in 1..Len(c2s'[k])
    BY <1>2, <2>1, <2>2, Zenon
  <2>4. \A a, b \in Nat : a <= b /\ b \in 1..a => a = b
    OBVIOUS
  <2>5. QED
    BY <1>2, <2>3, <2>4
<1>5. \A j \in Conns :
       /\ \A i \in DOMAIN c2s'[j] :
            /\ i \in DOMAIN c2s[j] /\ c2s'[j][i] = c2s[j][i]
            /\ \A n \in DOMAIN c2s[j] : n < i => n \in DOMAIN c2s'[j]
       /\ \/ c2s'[j] = c2s[j]
          \/ link'[j] # "open" /\ \A i \in DOMAIN c2s'[j] : c2s'[j][i].t # "DONE"
       /\ link'[j] = "open" => link[j] = "open" /\ s2c'[j] = s2c[j]
  <2> TAKE j \in Conns
  <2>1. CASE j # k
    BY <1>2, <2>1
  <2>2. CASE j = k
    BY <1>2, <1>3, <1>4, <2>2
  <2>3. QED
    BY <2>1, <2>2
<1>6. conn \in Conns => s2c'[conn] = s2c[conn] \/ s2c'[conn] = << >>
  BY <1>2
<1>7. QED
  BY <1>2, <1>5, <1>6 DEF Thinner

(* Nor do the other steps of the console add to what it has said.          *)
LEMMA ConsoleIsThinner ==
  ASSUME ServedInv, TalkInv, UNCHANGED serverVars,
         Boot \/ SwitchOff \/ (\E f \in Files : Play(f)) \/ Start \/ Abort \/ ScanStep
  PROVE  Thinner
<1>1. /\ session' = session
      /\ \/ bpc' = bpc /\ needs' = needs /\ idx' = idx
         \/ bpc' \in {"off", "connect"}
  BY DEF Boot, SwitchOff, Play, Start, Abort, ScanStep, ScanSaves, ScanDone, diskVars, threadVars
<1>2. CASE UNCHANGED wireVars
  <2>1. conn' = conn /\ link' = link /\ c2s' = c2s /\ s2c' = s2c
    BY <1>2 DEF wireVars
  <2>2. QED
    BY <1>1, <2>1 DEF Thinner
<1>3. CASE ~UNCHANGED wireVars
  <2>1. SwitchOff
    BY <1>3 DEF Boot, Play, Start, Abort, ScanStep, ScanSaves, ScanDone
  <2>2. conn > 0 /\ Lose(conn)
    BY <1>3, <2>1 DEF SwitchOff
  <2>3. conn \in Conns
    BY <2>2, Sizes DEF ServedInv, ClientInv, WireOK, Conns
  <2>4. QED
    BY <1>1, <2>2, <2>3, BreakIsThinner
<1>4. QED
  BY <1>2, <1>3

(* What it lists it reads from the disk.                                   *)
LEMMA ConsoleLists ==
  ASSUME Boot \/ SwitchOff \/ (\E g \in Files : Play(g)) \/ Start \/ Abort \/ ScanStep,
         NEW f \in Files, Known(f)
  PROVE  {manifest'[f], cache'[f]} \subseteq {0, disk[f]}
<1>1. {manifest[f], cache[f]} \subseteq {0, disk[f]}
  BY DEF Known
<1>2. manifest' \in {manifest, cache, disk, NoSaves} /\ cache' \in {cache, manifest}
  BY DEF Boot, SwitchOff, Play, Start, Abort, ScanStep, ScanSaves, ScanDone, diskVars
<1>3. NoSaves[f] = 0
  BY DEF NoSaves
<1>4. QED
  BY <1>1, <1>2, <1>3

(***************************************************************************)
(* A backup that comes to its end.                                         *)
(***************************************************************************)

(* While the dashboard does not run, games delete saves, and write none.   *)
GamesDelete == \A f \in Files : disk'[f] \in {disk[f], 0}

(* Every step keeps the invariant of a save that is there, if games only   *)
(* delete saves.                                                           *)
LEMMA StepFreshInv ==
  ASSUME ServedInv, FreshInv, [BackupNext]_allVars, GamesDelete
  PROVE  FreshInv'
<1>1. TalkInv /\ SendsIt /\ (\A f \in Files : SaveInv(f)) /\ TalkInv'
      /\ disk \in [Files -> 0..MaxVersion]
  BY StepTalkInv DEF FreshInv, ServedInv, ClientInv, ClientOK
<1>2. ASSUME NEW f \in Files, disk'[f] > 0
      PROVE  disk'[f] = disk[f] /\ disk[f] > 0
  <2>1. disk'[f] \in {disk[f], 0}
    BY DEF GamesDelete
  <2>2. QED
    BY <1>2, <2>1
<1>3. SUFFICES SendsIt' /\ \A f \in Files : disk'[f] > 0 => SaveInv(f)'
  BY <1>1 DEF FreshInv, SaveInv
<1>4. CASE Server
  <2>1. PICK k \in Conns : ServerAct(k)
    BY <1>4 DEF Server, ServerStep, ServerAct
  <2>2. UNCHANGED clientVars
    BY <1>4 DEF Server
  <2>3. SendsIt'
    BY <1>1, <2>1, <2>2, ServerKeepsSends
  <2>4. ASSUME NEW f \in Files, disk'[f] > 0 PROVE SaveInv(f)'
    <3>1. disk[f] > 0 /\ SaveInv(f) /\ Known(f) /\ DataTrue(f)
      BY <1>1, <1>2, <2>4 DEF SaveInv
    <3>2. Known(f)' /\ DataTrue(f)'
      BY <2>1, <2>2, <3>1, ServerKeepsKnown, ServerKeepsData
    <3>3. ListsLack(f)' /\ FilesLack(f)' /\ Progress(f)'
      BY <1>1, <2>1, <2>2, <3>1, ServerKeepsLists, ServerKeepsFiles, ServerKeepsProgress
    <3>4. QED
      BY <3>2, <3>3 DEF SaveInv
  <2>5. QED
    BY <2>3, <2>4
<1>5. CASE ThreadStep /\ UNCHANGED serverVars
  <2>1. SendsIt'
    BY <1>1, <1>5, ThreadKeepsSends
  <2>2. ASSUME NEW f \in Files, disk'[f] > 0 PROVE SaveInv(f)'
    <3>1. disk[f] > 0 /\ SaveInv(f) /\ Known(f) /\ DataTrue(f)
      BY <1>1, <1>2, <2>2 DEF SaveInv
    <3>2. Known(f)' /\ DataTrue(f)'
      BY <1>1, <1>5, <3>1, ThreadKeepsKnown, ThreadKeepsData
    <3>3. ListsLack(f)' /\ FilesLack(f)' /\ Progress(f)'
      BY <1>1, <1>5, <3>1, ThreadKeepsLists, ThreadKeepsFiles, ThreadKeepsProgress
    <3>4. QED
      BY <3>2, <3>3 DEF SaveInv
  <2>3. QED
    BY <2>1, <2>2
<1>6. ASSUME Thinner, \A f \in Files : Known(f) => {manifest'[f], cache'[f]} \subseteq {0, disk[f]}
      PROVE  SendsIt' /\ \A f \in Files : disk'[f] > 0 => SaveInv(f)'
  <2>1. SendsIt'
    BY <1>1, <1>6, ThinnerKeepsSends
  <2>2. ASSUME NEW f \in Files, disk'[f] > 0 PROVE SaveInv(f)'
    <3>1. disk'[f] = disk[f] /\ disk[f] > 0 /\ SaveInv(f) /\ Known(f)
      BY <1>1, <1>2, <2>2 DEF SaveInv
    <3>2. {manifest'[f], cache'[f]} \subseteq {0, disk[f]}
      BY <1>6, <3>1
    <3>3. QED
      BY <1>1, <1>6, <3>1, <3>2, ThinnerKeepsSave
  <2>3. QED
    BY <2>1, <2>2
<1>7. CASE Client /\ ~ThreadStep
  <2>1. /\ UNCHANGED serverVars
        /\ Boot \/ SwitchOff \/ (\E f \in Files : Play(f)) \/ Start \/ Abort \/ ScanStep
    BY <1>7 DEF Client, ClientStep
  <2>2. Thinner
    BY <1>1, <2>1, ConsoleIsThinner
  <2>3. QED
    BY <1>6, <2>1, <2>2, ConsoleLists
<1>8. CASE Network
  <2>1. PICK k \in Conns : Lose(k)
    BY <1>8 DEF Network
  <2>2. /\ UNCHANGED serverVars /\ session' = session /\ bpc' = bpc /\ needs' = needs /\ idx' = idx
        /\ manifest' = manifest /\ cache' = cache
    BY <1>8 DEF Network, clientVars
  <2>3. Thinner
    BY <1>1, <2>1, <2>2, BreakIsThinner
  <2>4. QED
    BY <1>6, <2>2, <2>3 DEF Known
<1>9. CASE UNCHANGED allVars
  <2>1. UNCHANGED << wireVars, clientVars, serverVars >>
    BY <1>9 DEF allVars
  <2>2. UNCHANGED << conn, link, c2s, s2c, session, bpc, needs, idx, manifest, cache, serverVars >>
    BY <2>1 DEF wireVars, clientVars
  <2>3. \A k \in Conns : DOMAIN c2s[k] = 1..Len(c2s[k])
    BY LenProperties DEF ServedInv, ClientInv, WireOK
  <2>4. Thinner
    BY <2>2, <2>3 DEF Thinner
  <2>5. QED
    BY <1>6, <2>2, <2>4 DEF Known
<1>10. QED
  BY <1>4, <1>5, <1>7, <1>8, <1>9 DEF BackupNext, Client

(* At the start nothing is listed, sent or stored.                         *)
LEMMA InitFresh == BackupInit => FreshInv
<1> SUFFICES ASSUME BackupInit PROVE FreshInv
  OBVIOUS
<1>1. /\ \A k \in Conns : c2s[k] = << >> /\ s2c[k] = << >> /\ mtimes[k] = NoMtimes /\ hpc[k] = "none"
      /\ needs = << >> /\ bpc = "off" /\ session = NoSession /\ cache = NoSaves /\ manifest = NoSaves
      /\ \A f \in Files : temp[f] = Missing /\ latest[f] = Missing
  BY DEF BackupInit, WireInit, ClientInit, ServerInit
<1>2. SendsIt
  BY <1>1 DEF SendsIt
<1>3. ASSUME NEW f \in Files PROVE SaveInv(f)
  <2>1. NoSaves[f] = 0 /\ NoMtimes[f] = 0 /\ ~Listed(<< >>, f) /\ NoSession.needs = << >>
        /\ ~There(Missing) /\ Missing.data = << >>
    BY DEF NoSaves, NoMtimes, Listed, NoSession, There, Missing
  <2>2. Known(f) /\ ListsLack(f)
    BY <1>1, <2>1 DEF Known, ListsLack
  <2>3. FilesLack(f) /\ DataTrue(f) /\ Progress(f)
    BY <1>1, <2>1 DEF FilesLack, DataTrue, Progress
  <2>4. QED
    BY <2>2, <2>3 DEF SaveInv
<1>4. QED
  BY <1>2, <1>3, InitTalkInv DEF FreshInv

(* A file of as many chunks as a save has, all of one version, is whole.   *)
LEMMA AllOfOneVersion ==
  ASSUME NEW s \in Seq(Nat), NEW v, Len(s) = Chunks, \A i \in DOMAIN s : s[i] = v
  PROVE  s = Whole(v)
<1>1. DOMAIN s = 1..Chunks
  BY LenProperties
<1>2. s = [i \in 1..Chunks |-> s[i]]
  BY <1>1, LenProperties
<1>3. QED
  BY <1>1, <1>2 DEF Whole

(* When DONE is read, whatever was listed has come.                        *)
LEMMA PromotedWhole ==
  ASSUME ServedInv, FreshInv, [BackupNext]_allVars, NEW k \in Conns, Promotes(k),
         NEW f \in Files, mtimes[k][f] = disk[f], disk[f] > 0
  PROVE  latest'[f].data = Whole(disk[f])
<1>1. WireOK /\ ServerOK /\ TalkInv /\ SaveInv(f) /\ Progress(f) /\ DataTrue(f)
  BY DEF ServedInv, ClientInv, FreshInv, SaveInv
<1>2. hpc[k] = "files" /\ hpc'[k] = "gone" /\ Gets(k, "DONE")
  BY DEF Promotes
<1>3. Done(k)
  <2>1. Server
    <3>1. hpc' # hpc
      BY <1>2
    <3>2. QED
      BY <3>1 DEF BackupNext, Client, Network, allVars, serverVars
  <2>2. PICK j \in Conns : ServerAct(j)
    BY <2>1 DEF Server, ServerStep, ServerAct
  <2>3. j = k
    BY <1>1, <1>2, <2>2, ServerActs
  <2>4. ServerAct(k)
    BY <2>2, <2>3
  <2>5. Gets(k, "DONE") => c2s[k] # << >> /\ ~Gets(k, "FILE") /\ ~Gets(k, "ABORT")
    BY DEF Gets
  <2>6. QED
    BY <1>2, <2>4, <2>5 DEF ServerAct, Serve, ResumeFails, Resume, Manifest, NoManifest, FileHeader,
       FileData, AbortLine, Eof
<1>4. /\ 1 \in DOMAIN c2s[k] /\ c2s[k][1].t = "DONE" /\ DOMAIN c2s[k] = {1}
      /\ k = conn => bpc \in {"ok", "off", "connect"}
  BY <1>1, <1>3, DoneAlone
<1>5. MayFinish(k)
  BY <1>4 DEF MayFinish
<1>6. Delivered(f) \/ Coming(k, f) \/ (k = conn /\ link[k] = "open" /\ ToSend(f))
  BY <1>1, <1>2, <1>5 DEF Progress
<1>7. ~Coming(k, f)
  BY <1>2, <1>4 DEF Coming
<1>8. ~(k = conn /\ ToSend(f))
  BY <1>4 DEF ToSend
<1>9. Delivered(f)
  BY <1>6, <1>7, <1>8
<1>10. latest'[f] = IF There(temp[f]) THEN temp[f] ELSE latest[f]
  BY <1>3 DEF Done
<1>11. temp[f].data \in Seq(Nat) /\ latest[f].data \in Seq(Nat)
  BY <1>1 DEF ServerOK, Entries
<1>12. CASE There(temp[f])
  <2>1. Len(temp[f].data) = Chunks
    BY <1>9, <1>12 DEF Delivered
  <2>2. temp[f].data = Whole(disk[f])
    BY <1>1, <1>11, <2>1, AllOfOneVersion DEF DataTrue
  <2>3. QED
    BY <1>10, <1>12, <2>2
<1>13. CASE ~There(temp[f])
  <2>1. Len(latest[f].data) = Chunks
    BY <1>9, <1>13 DEF Delivered, Lacks, Differs
  <2>2. latest[f].data = Whole(disk[f])
    BY <1>1, <1>11, <2>1, AllOfOneVersion DEF DataTrue
  <2>3. QED
    BY <1>10, <1>13, <2>2
<1>14. QED
  BY <1>12, <1>13

(***************************************************************************)
(* A backup that began with a manifest and comes to its end (recv_files of *)
(* the server promotes temp when it reads DONE) leaves every save that the *)
(* manifest lists, and that is on the disk as listed, whole in the latest  *)
(* snapshot: its own chunks, all of them, in their order.  It holds when   *)
(* connections are served one after the other and a game that is played    *)
(* between two boots deletes saves but writes none.                        *)
(***************************************************************************)
THEOREM FreshBackupsAreComplete ==
  ASSUME Overlap = FALSE
  PROVE  BackupSpec /\ [][GamesDelete]_allVars => FreshBackupIsComplete
<1> DEFINE Whole1 == \A k \in Conns :
                       Promotes(k) =>
                         \A f \in Files :
                           mtimes[k][f] = disk[f] /\ disk[f] > 0 =>
                             latest'[f].data = Whole(disk[f])
<1>1. BackupInit => ServedInv /\ FreshInv
  BY InitServed, InitFresh
<1>2. ServedInv /\ [BackupNext]_allVars => ServedInv'
  BY StepServedInv
<1>3. ServedInv /\ FreshInv /\ [BackupNext]_allVars /\ [GamesDelete]_allVars => FreshInv'
  <2> SUFFICES ASSUME ServedInv, FreshInv, [BackupNext]_allVars, [GamesDelete]_allVars
               PROVE  FreshInv'
    OBVIOUS
  <2>1. GamesDelete
    <3>1. UNCHANGED allVars => disk' = disk
      BY DEF allVars, clientVars
    <3>2. QED
      BY <3>1 DEF GamesDelete
  <2>2. QED
    BY <2>1, StepFreshInv
<1>4. ServedInv /\ FreshInv /\ [BackupNext]_allVars => [Whole1]_allVars
  BY PromotedWhole
<1>5. QED
  BY <1>1, <1>2, <1>3, <1>4, PTL DEF BackupSpec, FreshBackupIsComplete
================================================================================
