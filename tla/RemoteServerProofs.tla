-------------------------- MODULE RemoteServerProofs --------------------------
(***************************************************************************)
(* Proofs about RemoteServer, for any clients, entries, threads and        *)
(* commands: no socket leaks or is used after it was closed, what belongs  *)
(* together is sent together, and the log goes to its subscribers only.    *)
(***************************************************************************)
EXTENDS RemoteServer, FiniteSetTheorems, SequenceTheorems, WellFoundedInduction, TLAPS

(***************************************************************************)
(* The inductive invariant.                                                *)
(***************************************************************************)
Piece == [of : Commands, end : BOOLEAN]

Kinds == {"nothing", "reply", "unknown", "prefix", "text", "header", "data", "end", "short"}

Places == {"boot", "out", "in", "lock", "prefix", "text", "deinit", "join", "destroy", "off"}

(* Where the server thread holds clients_mutex.                            *)
ServerHolds == {"recv", "cmd", "run", "lvgl", "inlvgl", "data", "assert"}

Types ==
  /\ TypeOK
  /\ spc \in ServerHolds \cup {"none", "bind", "loop", "accept", "poll", "exit"}
  /\ spc = "data" => left > 0
  /\ pc \in [Loggers -> Places]
  /\ net \in [Conns -> {"off", "pending", "open", "refused", "shut", "gone"}]
  /\ inbox \in [Conns -> Seq(Piece)] /\ \A c \in Conns : Len(inbox[c]) <= 2 * typed
  /\ sent \in [Conns -> [what : Kinds, by : Threads \cup {NoOne}]]
  /\ asked \in [Conns -> BOOLEAN]

(* A connection that was accepted and not closed has one entry, and an     *)
(* entry that streams is of one that asked for it.                         *)
Entries ==
  /\ \A i, j \in Ids :
       clients[i].fd = clients[j].fd /\ clients[i].fd # NoOne => i = j
  /\ \A c \in Conns : (\E i \in Ids : clients[i].fd = c) <=> net[c] \in {"open", "shut"}
  /\ \A i \in Ids : clients[i].fd # NoOne /\ clients[i].log => asked[clients[i].fd]

(* A thread that is where it needs clients_mutex has it.                   *)
Locks ==
  /\ clients_mutex = "server" <=> spc \in ServerHolds
  /\ \A t \in Loggers : clients_mutex = t <=> pc[t] \in {"prefix", "text"}

(* Before the interface is up no thread logs, and only an early server     *)
(* runs.                                                                   *)
BootShape ==
  pc["ui"] = "boot" => /\ \A t \in Workers : pc[t] = "out"
                       /\ ~Early => spc = "none"

(* Who has begun something on a connection goes on with it, and holds      *)
(* clients_mutex meanwhile.                                                *)
Frames ==
  \A c \in Conns :
    /\ sent[c].what = "prefix" =>
         /\ sent[c].by \in Loggers /\ clients_mutex = sent[c].by
         /\ pc[sent[c].by] = "text"
         /\ c \in Streaming
    /\ sent[c].what \in {"header", "data"} =>
         spc = "data" /\ c = Fd /\ sent[c].by = "server"

(* dash_remote_deinit destroys the mutex while other threads may hold it,  *)
(* which is the last thing that happens here.                              *)
ServerInv ==
  /\ Types /\ Entries
  /\ pc["ui"] # "off" => Locks /\ BootShape /\ Frames

LEMMA ThreadNames ==
  /\ "server" \notin Loggers /\ NoOne \notin Threads /\ "null" \notin Threads
  /\ "ui" \in Loggers /\ NoOne # "null" /\ NoOne \notin Conns
  BY NamesAssumption DEF Loggers, Threads

LEMMA IdNumbers == Ids \subseteq Nat /\ 1 \in Ids /\ MaxClients \in Nat
  BY SizesAssumption DEF Ids

(* Min picks one of the free entries.                                      *)
LEMMA FirstFreeIsFree == FreeIds # {} => Min(FreeIds) \in FreeIds
<1> SUFFICES ASSUME FreeIds # {} PROVE Min(FreeIds) \in FreeIds
  OBVIOUS
<1>1. FreeIds \subseteq Nat
  BY IdNumbers DEF FreeIds
<1>2. \E n \in FreeIds : \A m \in FreeIds : <<m, n>> \notin OpToRel(<, Nat)
  BY <1>1, NatLessThanWellFounded, WFMin
<1>3. PICK n \in FreeIds : \A m \in FreeIds : <<m, n>> \notin OpToRel(<, Nat)
  BY <1>2
<1>4. \A m \in FreeIds : ~(m < n)
  BY <1>1, <1>3, Zenon DEF OpToRel
<1>5. \A m \in FreeIds : n <= m
  BY <1>1, <1>4
<1>6. QED
  BY <1>5 DEF Min

LEMMA ServerBegins == Init => ServerInv
<1> SUFFICES ASSUME Init PROVE ServerInv
  OBVIOUS
<1> USE DEF Init
<1>1. Types
  <2>1. TypeOK
    <3>1. /\ clients \in [Ids -> [fd : Conns \cup {NoOne}, log : BOOLEAN]]
          /\ server_running \in BOOLEAN /\ quit \in BOOLEAN
      BY DEF NoClient
    <3>2. /\ index \in Ids /\ left \in 0..Chunks /\ typed \in 0..MaxCmds
          /\ \A c \in Conns : Len(inbox[c]) <= 2 * MaxCmds
      BY IdNumbers, SizesAssumption
    <3>3. QED
      BY <3>1, <3>2 DEF TypeOK
  <2>2. pc \in [Loggers -> Places] /\ asked \in [Conns -> BOOLEAN]
    BY DEF Places
  <2>3. inbox \in [Conns -> Seq(Piece)] /\ \A c \in Conns : Len(inbox[c]) <= 2 * typed
    BY EmptySeq
  <2>4. sent \in [Conns -> [what : Kinds, by : Threads \cup {NoOne}]]
    BY DEF Kinds
  <2>5. QED
    BY <2>1, <2>2, <2>3, <2>4 DEF Types
<1>2. Entries
  BY ThreadNames DEF Entries, NoClient
<1>3. Locks
  BY ThreadNames DEF Locks, ServerHolds, Threads
<1>4. BootShape /\ Frames
  BY NamesAssumption DEF BootShape, Frames, Loggers
<1>5. QED
  BY <1>1, <1>2, <1>3, <1>4 DEF ServerInv

(***************************************************************************)
(* The steps keep the types.                                               *)
(***************************************************************************)
LEMMA SentKeepsType ==
  ASSUME Types, NEW C, NEW what \in Kinds, NEW t \in Threads, Send(C, what, t)
  PROVE  sent' \in [Conns -> [what : Kinds, by : Threads \cup {NoOne}]]
  BY DEF Types, Send

LEMMA PlaceKeepsType ==
  ASSUME Types, NEW t, NEW p \in Places, pc' = [pc EXCEPT ![t] = p]
  PROVE  pc' \in [Loggers -> Places]
  BY DEF Types

(* What only the environment and a receive change.                         *)
InboxType ==
  /\ typed \in 0..MaxCmds /\ inbox \in [Conns -> Seq(Piece)]
  /\ \A c \in Conns : Len(inbox[c]) <= 2 * typed

LEMMA InboxesBounded ==
  ASSUME NEW n \in 0..MaxCmds, NEW box \in [Conns -> Seq(Piece)],
         \A c \in Conns : Len(box[c]) <= 2 * n
  PROVE  \A c \in Conns : Len(box[c]) <= 2 * MaxCmds
<1> SUFFICES ASSUME NEW c \in Conns PROVE Len(box[c]) <= 2 * MaxCmds
  OBVIOUS
<1>1. Len(box[c]) \in Nat /\ Len(box[c]) <= 2 * n
  OBVIOUS
<1>2. QED
  BY <1>1, SizesAssumption

LEMMA TypingKeepsInbox ==
  ASSUME Types, NEW c \in Conns, NEW k \in Commands, Type(c, k)
  PROVE  InboxType'
<1> DEFINE more == << [of |-> k, end |-> FALSE], [of |-> k, end |-> TRUE] >>
<1>1. more \in Seq(Piece) /\ Len(more) = 2
  BY DEF Piece
<1>2. inbox \in [Conns -> Seq(Piece)] /\ inbox' = [inbox EXCEPT ![c] = inbox[c] \o more]
  BY DEF Types, Type
<1> HIDE DEF more
<1>3. /\ inbox[c] \o more \in Seq(Piece)
      /\ Len(inbox[c] \o more) = Len(inbox[c]) + Len(more)
  <2>1. inbox[c] \in Seq(Piece)
    BY <1>2
  <2>2. QED
    BY <1>1, <2>1, ConcatProperties, Zenon
<1>4. \A d \in Conns : Len(inbox[d]) \in Nat /\ Len(inbox[d]) <= 2 * typed
  BY <1>2 DEF Types
<1>5. typed \in Nat /\ typed' = typed + 1 /\ typed' \in 0..MaxCmds
  BY SizesAssumption DEF Types, TypeOK, Type
<1>6. inbox' \in [Conns -> Seq(Piece)]
  BY <1>2, <1>3
<1>7. ASSUME NEW d \in Conns PROVE Len(inbox'[d]) <= 2 * typed'
  <2>1. Len(inbox'[d]) = IF d = c THEN Len(inbox[c]) + 2 ELSE Len(inbox[d])
    BY <1>1, <1>2, <1>3
  <2>2. QED
    BY <1>4, <1>5, <2>1
<1>8. QED
  BY <1>5, <1>6, <1>7 DEF InboxType

LEMMA RecvKeepsInbox ==
  ASSUME Types, Recv
  PROVE  InboxType'
<1>1. PICK n \in 1..Len(inbox[Fd]) :
        inbox' = [inbox EXCEPT ![Fd] = SubSeq(inbox[Fd], n + 1, Len(inbox[Fd]))]
  BY DEF Recv
<1>2. Fd \in Conns
  BY DEF Recv, Fd, Types, TypeOK
<1> DEFINE s == inbox[Fd]  m == Len(s)  r == SubSeq(s, n + 1, m)
<1>3. s \in Seq(Piece) /\ m \in Nat /\ m <= 2 * typed /\ \A i \in 1..m : s[i] \in Piece
  BY <1>2 DEF Types
<1>4. n + 1 \in Int /\ m \in Int /\ \A i \in (n + 1)..m : s[i] \in Piece
  BY <1>3
<1>5. r \in Seq(Piece) /\ Len(r) = IF n + 1 <= m THEN m - (n + 1) + 1 ELSE 0
  BY <1>4, SubSeqProperties
<1> HIDE DEF r, m, s
<1>6. Len(r) <= m
  BY <1>3, <1>5
<1>7. inbox' = [inbox EXCEPT ![Fd] = r] /\ typed' = typed
  BY <1>1 DEF r, s, m, Recv
<1>8. inbox' \in [Conns -> Seq(Piece)]
  BY <1>5, <1>7 DEF Types
<1>9. ASSUME NEW d \in Conns PROVE Len(inbox'[d]) <= 2 * typed'
  <2>1. Len(r) \in Nat /\ typed \in Nat
    BY <1>5 DEF Types, TypeOK
  <2>2. CASE d = Fd
    BY <1>2, <1>3, <1>6, <1>7, <2>1, <2>2 DEF Types
  <2>3. CASE d # Fd
    BY <1>7, <2>3 DEF Types
  <2>4. QED
    BY <2>2, <2>3
<1>10. QED
  BY <1>7, <1>8, <1>9 DEF InboxType, Types, TypeOK

(* The server's round over its clients.                                    *)
LEMMA NextClientFacts ==
  ASSUME Types, NextClient
  PROVE  /\ clients_mutex' \in Threads \cup {NoOne, "null"} /\ index' \in Ids
         /\ spc' \in {"recv", "loop"}
  BY IdNumbers DEF Types, TypeOK, NextClient, Ids

LEMMA EnvKeepsTypes ==
  ASSUME Types, Env
  PROVE  Types'
<1>1. InboxType'
  <2>1. CASE \E c \in Conns, k \in Commands : Type(c, k)
    BY <2>1, TypingKeepsInbox
  <2>2. CASE \E c \in Conns : Connect(c) \/ Shut(c)
    BY <2>2 DEF Types, TypeOK, InboxType, Connect, Shut
  <2>3. QED
    BY <2>1, <2>2 DEF Env
<1>2. \A c \in Conns : Len(inbox'[c]) <= 2 * MaxCmds
  BY <1>1, InboxesBounded DEF InboxType
<1>3. net' \in [Conns -> {"off", "pending", "open", "refused", "shut", "gone"}]
  BY DEF Env, Connect, Shut, Type, Types
<1>4. QED
  BY <1>1, <1>2, <1>3 DEF Env, Connect, Shut, Type, Types, TypeOK, InboxType, serverVars

LEMMA ServerKeepsTypes ==
  ASSUME Types, Server
  PROVE  Types'
<1> USE DEF Types, TypeOK, ServerHolds, netVars, serverVars
<1>1. CASE Bind \/ Loop \/ NobodyToAccept \/ PollLock
  BY <1>1, IdNumbers DEF Bind, Loop, NobodyToAccept, PollLock, Threads
<1>2. ASSUME NEW c \in Conns, Accept(c) PROVE Types'
  <2>1. sent' \in [Conns -> [what : Kinds, by : Threads \cup {NoOne}]]
    BY <1>2, SentKeepsType DEF Accept, Kinds, Threads
  <2>2. clients' \in [Ids -> [fd : Conns \cup {NoOne}, log : BOOLEAN]]
    <3> DEFINE e == [fd |-> c, log |-> FALSE]
    <3>1. e \in [fd : Conns \cup {NoOne}, log : BOOLEAN]
      OBVIOUS
    <3>2. clients' = clients \/ clients' = [clients EXCEPT ![Min(FreeIds)] = e]
      BY <1>2 DEF Accept
    <3> HIDE DEF e
    <3>3. QED
      BY <3>1, <3>2
  <2>3. net' \in [Conns -> {"off", "pending", "open", "refused", "shut", "gone"}]
    BY <1>2 DEF Accept
  <2>4. QED
    BY <1>2, <2>1, <2>2, <2>3 DEF Accept
<1>3. CASE RecvNothing \/ LinesDone
  <2>1. /\ clients_mutex' \in Threads \cup {NoOne, "null"} /\ index' \in Ids
        /\ spc' \in {"recv", "loop"}
    BY <1>3, NextClientFacts DEF RecvNothing, LinesDone
  <2>2. QED
    BY <1>3, <2>1 DEF RecvNothing, LinesDone
<1>4. CASE RecvEnd
  <2>1. /\ clients_mutex' \in Threads \cup {NoOne, "null"} /\ index' \in Ids
        /\ spc' \in {"recv", "loop"}
    BY <1>4, NextClientFacts DEF RecvEnd
  <2>2. clients' \in [Ids -> [fd : Conns \cup {NoOne}, log : BOOLEAN]]
    BY <1>4 DEF RecvEnd, NoClient
  <2>3. net' \in [Conns -> {"off", "pending", "open", "refused", "shut", "gone"}]
    BY <1>4 DEF RecvEnd
  <2>4. QED
    BY <1>4, <2>1, <2>2, <2>3 DEF RecvEnd
<1>5. CASE Recv
  <2>1. InboxType' /\ \A c \in Conns : Len(inbox'[c]) <= 2 * MaxCmds
    <3>1. InboxType'
      BY <1>5, RecvKeepsInbox
    <3>2. QED
      BY <3>1, InboxesBounded DEF InboxType
  <2>2. QED
    BY <1>5, <2>1 DEF Recv, InboxType
<1>6. CASE LogCommand
  <2>1. sent' \in [Conns -> [what : Kinds, by : Threads \cup {NoOne}]]
    BY <1>6, SentKeepsType DEF LogCommand, Kinds, Threads
  <2>2. QED
    BY <1>6, <2>1 DEF LogCommand
<1>7. CASE Answer
  <2> DEFINE k == Head(lines)  b == (k = "logon")
  <2>1. b \in BOOLEAN
    OBVIOUS
  <2>2. sent' \in [Conns -> [what : Kinds, by : Threads \cup {NoOne}]]
    BY <1>7, SentKeepsType DEF Answer, Kinds, Threads
  <2>3. /\ clients' = clients \/ clients' = [clients EXCEPT ![index].log = b]
        /\ asked' = asked \/ asked' = [asked EXCEPT ![Fd] = b]
    BY <1>7 DEF Answer
  <2>4. quit' \in BOOLEAN
    BY <1>7, Zenon DEF Answer
  <2> HIDE DEF b
  <2>5. /\ clients' \in [Ids -> [fd : Conns \cup {NoOne}, log : BOOLEAN]]
        /\ asked' \in [Conns -> BOOLEAN]
    BY <2>1, <2>3
  <2>6. QED
    BY <1>7, <2>2, <2>4, <2>5 DEF Answer
<1>8. CASE WantLvgl \/ GetLvgl
  BY <1>8 DEF WantLvgl, GetLvgl, Threads
<1>9. CASE InjectKey \/ Screenshot \/ SendData \/ ReadsShort
  <2>1. sent' \in [Conns -> [what : Kinds, by : Threads \cup {NoOne}]]
    BY <1>9, SentKeepsType DEF InjectKey, Screenshot, SendData, ReadsShort, Kinds, Threads
  <2>2. left' \in 0..Chunks /\ (spc' = "data" => left' > 0)
    BY <1>9, SizesAssumption DEF InjectKey, Screenshot, SendData, ReadsShort
  <2>3. QED
    BY <1>9, <2>1, <2>2 DEF InjectKey, Screenshot, SendData, ReadsShort
<1>10. QED
  BY <1>1, <1>2, <1>3, <1>4, <1>5, <1>6, <1>7, <1>8, <1>9 DEF Server

LEMMA MainKeepsTypes ==
  ASSUME Types, Main
  PROVE  Types'
<1> USE DEF Types, TypeOK, ServerHolds, netVars, serverVars
<1>1. CASE InitEarly
  BY <1>1 DEF InitEarly
<1>2. CASE InitRemote \/ Leave \/ DeinitStop \/ DeinitDestroy
  <2>1. pc' \in [Loggers -> Places]
    BY <1>2, PlaceKeepsType DEF InitRemote, Leave, DeinitStop, DeinitDestroy, Places
  <2>2. QED
    BY <1>2, <2>1 DEF InitRemote, Leave, DeinitStop, DeinitDestroy
<1>3. CASE DeinitClose
  <2>1. pc' \in [Loggers -> Places]
    BY <1>3, PlaceKeepsType DEF DeinitClose, Places
  <2>2. clients' \in [Ids -> [fd : Conns \cup {NoOne}, log : BOOLEAN]]
    BY <1>3 DEF DeinitClose
  <2>3. net' \in [Conns -> {"off", "pending", "open", "refused", "shut", "gone"}]
    BY <1>3 DEF DeinitClose
  <2>4. QED
    BY <1>3, <2>1, <2>2, <2>3 DEF DeinitClose
<1>4. QED
  BY <1>1, <1>2, <1>3 DEF Main

LEMMA LoggersKeepTypes ==
  ASSUME Types, NEW t \in Loggers,
         GetLock(t) \/ RemoveLock(t) \/ LogBegin(t) \/ LogGoesOn(t)
  PROVE  Types'
<1> USE DEF Types, TypeOK, ServerHolds, netVars, serverVars
<1>1. CASE GetLock(t) \/ RemoveLock(t) \/ LogBegin(t) \/ LogLock(t)
  <2>1. pc' \in [Loggers -> Places]
    BY <1>1, PlaceKeepsType DEF GetLock, RemoveLock, LogBegin, LogLock, After, Places
  <2>2. quit' \in BOOLEAN
    BY <1>1 DEF GetLock, RemoveLock, LogBegin, LogLock
  <2>3. QED
    BY <1>1, <2>1, <2>2 DEF GetLock, RemoveLock, LogBegin, LogLock, Threads
<1>2. CASE LogPrefix(t) \/ LogText(t)
  <2>1. sent' \in [Conns -> [what : Kinds, by : Threads \cup {NoOne}]]
    BY <1>2, SentKeepsType DEF LogPrefix, LogText, Kinds, Threads
  <2>2. pc' \in [Loggers -> Places]
    BY <1>2, PlaceKeepsType DEF LogPrefix, LogText, After, Places
  <2>3. QED
    BY <1>2, <2>1, <2>2 DEF LogPrefix, LogText
<1>3. QED
  BY <1>1, <1>2 DEF LogGoesOn

(***************************************************************************)
(* The steps keep the entries.                                             *)
(***************************************************************************)
LEMMA EnvKeepsEntries ==
  ASSUME Types, Entries, Env
  PROVE  Entries'
<1>1. UNCHANGED << clients, asked >>
  BY DEF Env, Connect, Shut, Type
<1>2. \A c \in Conns : net'[c] \in {"open", "shut"} <=> net[c] \in {"open", "shut"}
  BY DEF Env, Connect, Shut, Type, Types
<1>3. QED
  BY <1>1, <1>2 DEF Entries

LEMMA AcceptKeepsEntries ==
  ASSUME Types, Entries, NEW c \in Conns, Accept(c)
  PROVE  Entries'
<1>1. CASE FreeIds = {}
  <2>1. UNCHANGED << clients, asked >>
    BY <1>1 DEF Accept
  <2>2. \A d \in Conns : net'[d] \in {"open", "shut"} <=> net[d] \in {"open", "shut"}
    BY <1>1 DEF Accept, Types
  <2>3. QED
    BY <2>1, <2>2 DEF Entries
<1>2. CASE FreeIds # {}
  <2> DEFINE n == Min(FreeIds)
  <2>1. n \in Ids /\ clients[n].fd = NoOne
    BY <1>2, FirstFreeIsFree DEF FreeIds
  <2>2. clients' = [clients EXCEPT ![n] = [fd |-> c, log |-> FALSE]]
    BY <1>2 DEF Accept
  <2> HIDE DEF n
  <2>3. /\ clients'[n].fd = c /\ ~clients'[n].log
        /\ \A i \in Ids : i # n => clients'[i] = clients[i]
    BY <2>1, <2>2 DEF Types, TypeOK
  <2>4. /\ net'[c] = "open" /\ net[c] = "pending"
        /\ \A d \in Conns : d # c => net'[d] = net[d]
    BY <1>2 DEF Accept, Types
  <2>5. \A i \in Ids : clients[i].fd # c
    BY <2>4 DEF Entries
  <2>6. \A i, j \in Ids :
          clients'[i].fd = clients'[j].fd /\ clients'[i].fd # NoOne => i = j
    BY <2>3, <2>5 DEF Entries
  <2>7. ASSUME NEW d \in Conns
        PROVE  (\E i \in Ids : clients'[i].fd = d) <=> net'[d] \in {"open", "shut"}
    <3>1. CASE d = c
      BY <2>1, <2>3, <2>4, <3>1
    <3>2. CASE d # c
      <4>1. d # NoOne
        BY ThreadNames
      <4>2. (\E i \in Ids : clients'[i].fd = d) <=> \E i \in Ids : clients[i].fd = d
        BY <2>1, <2>3, <3>2, <4>1
      <4>3. QED
        BY <2>4, <3>2, <4>2 DEF Entries
    <3>3. QED
      BY <3>1, <3>2
  <2>8. \A i \in Ids : clients'[i].fd # NoOne /\ clients'[i].log => asked'[clients'[i].fd]
    BY <1>2, <2>3 DEF Accept, Entries
  <2>9. QED
    BY <2>6, <2>7, <2>8 DEF Entries
<1>3. QED
  BY <1>1, <1>2

LEMMA RecvEndKeepsEntries ==
  ASSUME Types, Entries, RecvEnd
  PROVE  Entries'
<1>1. index \in Ids /\ Fd \in Conns /\ Fd = clients[index].fd
  BY DEF RecvEnd, Types, TypeOK, Fd
<1>2. /\ clients'[index].fd = NoOne
      /\ \A i \in Ids : i # index => clients'[i] = clients[i]
  BY <1>1 DEF RecvEnd, NoClient, Types, TypeOK
<1>3. net'[Fd] = "gone" /\ \A d \in Conns : d # Fd => net'[d] = net[d]
  BY <1>1 DEF RecvEnd, Types
<1>4. asked' = asked
  BY DEF RecvEnd
<1>5. \A i \in Ids : i # index => clients[i].fd # Fd
  BY <1>1, ThreadNames DEF Entries
<1>6. ASSUME NEW d \in Conns
      PROVE  (\E i \in Ids : clients'[i].fd = d) <=> net'[d] \in {"open", "shut"}
  <2>1. d # NoOne
    BY ThreadNames
  <2>2. CASE d = Fd
    BY <1>2, <1>3, <1>5, <2>1, <2>2
  <2>3. CASE d # Fd
    <3>1. (\E i \in Ids : clients'[i].fd = d) <=> \E i \in Ids : clients[i].fd = d
      BY <1>1, <1>2, <2>1, <2>3
    <3>2. QED
      BY <1>3, <2>3, <3>1 DEF Entries
  <2>4. QED
    BY <2>2, <2>3
<1>7. QED
  BY <1>2, <1>4, <1>6 DEF Entries

(* Only the entry of the client that asked begins or ends to stream.       *)
LEMMA AnswerKeepsEntries ==
  ASSUME Types, Entries, Answer
  PROVE  Entries'
<1> DEFINE b == (Head(lines) = "logon")
<1>1. CASE UNCHANGED << clients, asked >>
  <2>1. net' = net
    BY DEF Answer, netVars
  <2>2. QED
    BY <1>1, <2>1 DEF Entries
<1>2. CASE clients' = [clients EXCEPT ![index].log = b] /\ asked' = [asked EXCEPT ![Fd] = b]
  <2>1. b \in BOOLEAN /\ index \in Ids /\ Fd = clients[index].fd /\ net' = net
    BY DEF Types, TypeOK, Fd, Answer, netVars
  <2> HIDE DEF b
  <2>2. /\ \A i \in Ids : clients'[i].fd = clients[i].fd
        /\ \A i \in Ids : i # index => clients'[i].log = clients[i].log
        /\ clients'[index].log = b
    BY <1>2, <2>1 DEF Types, TypeOK
  <2>3. ASSUME NEW i \in Ids, clients'[i].fd # NoOne, clients'[i].log
        PROVE  asked'[clients'[i].fd]
    <3>1. clients[i].fd \in Conns
      BY <2>2, <2>3 DEF Types, TypeOK
    <3>2. CASE i = index
      BY <1>2, <2>1, <2>2, <2>3, <3>1, <3>2 DEF Types
    <3>3. CASE i # index
      BY <1>2, <2>1, <2>2, <2>3, <3>1, <3>3 DEF Types, Entries
    <3>4. QED
      BY <3>2, <3>3
  <2>4. QED
    BY <2>1, <2>2, <2>3 DEF Entries
<1>3. QED
  BY <1>1, <1>2 DEF Answer

LEMMA CloseKeepsEntries ==
  ASSUME Types, Entries, DeinitClose
  PROVE  Entries'
<1>1. \A i \in Ids : clients'[i].fd = NoOne
  BY DEF DeinitClose, Types, TypeOK
<1>2. \A c \in Conns : net'[c] \notin {"open", "shut"} /\ c # NoOne
  BY ThreadNames DEF DeinitClose
<1>3. QED
  BY <1>1, <1>2 DEF Entries

LEMMA StepsKeepEntries ==
  ASSUME Types, Entries, [Next]_vars
  PROVE  Entries'
<1>1. CASE Env
  BY <1>1, EnvKeepsEntries
<1>2. CASE (\E c \in Conns : Accept(c)) \/ RecvEnd \/ Answer \/ DeinitClose
  BY <1>2, AcceptKeepsEntries, RecvEndKeepsEntries, AnswerKeepsEntries, CloseKeepsEntries
<1>3. CASE UNCHANGED << clients, net, asked >>
  BY <1>3 DEF Entries
<1>4. CASE Server
  BY <1>2, <1>3, <1>4
     DEF Server, Bind, Loop, NobodyToAccept, PollLock, RecvNothing, Recv, LinesDone, LogCommand,
         WantLvgl, GetLvgl, InjectKey, Screenshot, SendData, ReadsShort, netVars
<1>5. CASE Main
  BY <1>2, <1>3, <1>5 DEF Main, InitEarly, InitRemote, Leave, DeinitStop, DeinitDestroy, netVars
<1>6. CASE \E t \in Loggers : GetLock(t) \/ RemoveLock(t) \/ LogBegin(t) \/ LogGoesOn(t)
  BY <1>3, <1>6 DEF GetLock, RemoveLock, LogBegin, LogGoesOn, LogLock, LogPrefix, LogText, netVars
<1>7. CASE UNCHANGED vars
  BY <1>3, <1>7 DEF vars, netVars
<1>8. QED
  BY <1>1, <1>4, <1>5, <1>6, <1>7 DEF Next

(***************************************************************************)
(* The steps keep the locks.                                               *)
(***************************************************************************)
LEMMA ServerKeepsLocks ==
  ASSUME Types, Locks, Server
  PROVE  Locks'
<1> USE ThreadNames DEF ServerHolds
<1>0. pc' = pc
  BY DEF Server, Bind, Loop, Accept, NobodyToAccept, PollLock, RecvNothing, RecvEnd, Recv, LinesDone,
         LogCommand, Answer, WantLvgl, GetLvgl, InjectKey, Screenshot, SendData, ReadsShort
<1>1. CASE PollLock
  BY <1>0, <1>1 DEF PollLock, Locks, Threads
<1>2. CASE spc \in ServerHolds /\ spc' \in ServerHolds /\ clients_mutex' = clients_mutex
  BY <1>0, <1>2 DEF Locks
<1>3. CASE spc \notin ServerHolds /\ spc' \notin ServerHolds /\ clients_mutex' = clients_mutex
  BY <1>0, <1>3 DEF Locks
<1>4. CASE RecvNothing \/ RecvEnd \/ LinesDone
  <2>1. NextClient /\ clients_mutex = "server" /\ spc \in ServerHolds
    BY <1>4 DEF RecvNothing, RecvEnd, LinesDone, Locks
  <2>2. CASE spc' = "recv" /\ clients_mutex' = clients_mutex
    BY <1>2, <2>1, <2>2
  <2>3. CASE spc' = "loop" /\ clients_mutex' = NoOne
    BY <1>0, <2>1, <2>3 DEF Locks, Threads
  <2>4. QED
    BY <2>1, <2>2, <2>3 DEF NextClient
<1>5. CASE Bind \/ Loop \/ (\E c \in Conns : Accept(c)) \/ NobodyToAccept
  BY <1>3, <1>5 DEF Bind, Loop, Accept, NobodyToAccept
<1>6. CASE Recv \/ LogCommand \/ Answer \/ WantLvgl \/ GetLvgl \/ InjectKey \/ Screenshot \/ SendData \/ ReadsShort
  <2>1. spc \in ServerHolds /\ spc' \in ServerHolds
    BY <1>6 DEF Recv, LogCommand, Answer, WantLvgl, GetLvgl, InjectKey, Screenshot, SendData, ReadsShort
  <2>2. clients_mutex' = clients_mutex
    BY <1>6 DEF Recv, LogCommand, Answer, WantLvgl, GetLvgl, InjectKey, Screenshot, SendData, ReadsShort
  <2>3. QED
    BY <1>2, <2>1, <2>2
<1>7. QED
  BY <1>1, <1>4, <1>5, <1>6 DEF Server

LEMMA MainKeepsLocks ==
  ASSUME Types, Locks, BootShape, Main, pc'["ui"] # "off"
  PROVE  Locks'
<1> USE ThreadNames DEF ServerHolds
<1>1. CASE InitEarly \/ (InitRemote /\ ~Early)
  <2>1. pc["ui"] = "boot" /\ spc = "none" /\ spc' \notin ServerHolds /\ clients_mutex' = NoOne
    BY <1>1 DEF InitEarly, InitRemote, BootShape
  <2>2. \A t \in Loggers : pc[t] \notin {"prefix", "text"}
    BY <2>1 DEF BootShape, Loggers
  <2>3. \A t \in Loggers : pc'[t] \notin {"prefix", "text"}
    BY <1>1, <2>2 DEF InitEarly, InitRemote, Types
  <2>4. QED
    BY <2>1, <2>3 DEF Locks, Threads
<1>2. CASE (InitRemote /\ Early) \/ Leave \/ DeinitStop \/ DeinitClose
  <2>1. UNCHANGED << clients_mutex, spc >>
    BY <1>2 DEF InitRemote, Leave, DeinitStop, DeinitClose, serverVars
  <2>2. \A t \in Loggers :
          pc'[t] = pc[t] \/ (pc[t] \notin {"prefix", "text"} /\ pc'[t] \notin {"prefix", "text"})
    BY <1>2 DEF InitRemote, Leave, DeinitStop, DeinitClose, Types
  <2>3. QED
    BY <2>1, <2>2 DEF Locks
<1>3. CASE DeinitDestroy
  BY <1>3 DEF DeinitDestroy, Types
<1>4. QED
  BY <1>1, <1>2, <1>3 DEF Main

LEMMA LoggersKeepLocks ==
  ASSUME Types, Locks, NEW t \in Loggers,
         GetLock(t) \/ RemoveLock(t) \/ LogBegin(t) \/ LogGoesOn(t)
  PROVE  Locks'
<1> USE ThreadNames
<1>0. spc' = spc
  BY DEF GetLock, RemoveLock, LogBegin, LogGoesOn, LogLock, LogPrefix, LogText, serverVars
<1>1. \A u \in Loggers : u # t => pc'[u] = pc[u]
  BY DEF GetLock, RemoveLock, LogBegin, LogGoesOn, LogLock, LogPrefix, LogText, Types
<1>2. CASE /\ clients_mutex' = clients_mutex
           /\ pc[t] \in {"prefix", "text"} <=> pc'[t] \in {"prefix", "text"}
  BY <1>0, <1>1, <1>2 DEF Locks
<1>3. CASE GetLock(t) \/ RemoveLock(t) \/ LogBegin(t) \/ LogPrefix(t)
  BY <1>2, <1>3 DEF GetLock, RemoveLock, LogBegin, LogPrefix, Types
<1>4. CASE LogLock(t)
  <2>1. CASE clients_mutex = NoOne /\ clients_mutex' = t
    <3>1. pc'[t] = "prefix"
      BY <1>4, <2>1 DEF LogLock, Types
    <3>2. QED
      BY <1>0, <1>1, <2>1, <3>1 DEF Locks, Threads
  <2>2. CASE clients_mutex = "null" /\ clients_mutex' = clients_mutex
    BY <1>2, <1>4, <2>2 DEF LogLock, After, Types
  <2>3. QED
    BY <1>4, <2>1, <2>2 DEF LogLock
<1>5. CASE LogText(t)
  <2>1. clients_mutex = t /\ clients_mutex' = NoOne
    BY <1>5 DEF LogText, Locks
  <2>2. pc'[t] \notin {"prefix", "text"}
    BY <1>5 DEF LogText, After, Types
  <2>3. QED
    BY <1>0, <1>1, <2>1, <2>2 DEF Locks, Threads
<1>6. QED
  BY <1>3, <1>4, <1>5 DEF LogGoesOn

LEMMA StepsKeepBoot ==
  ASSUME Types, BootShape, [Next]_vars
  PROVE  BootShape'
<1> SUFFICES ASSUME pc'["ui"] = "boot"
             PROVE  (\A t \in Workers : pc'[t] = "out") /\ (~Early => spc' = "none")
  BY DEF BootShape
<1> USE ThreadNames DEF netVars, serverVars
<1>1. CASE Env \/ UNCHANGED vars
  BY <1>1 DEF Env, Connect, Shut, Type, vars, BootShape
<1>2. CASE Server
  <2>1. pc' = pc
    BY <1>2
       DEF Server, Bind, Loop, Accept, NobodyToAccept, PollLock, RecvNothing, RecvEnd, Recv, LinesDone,
           LogCommand, Answer, WantLvgl, GetLvgl, InjectKey, Screenshot, SendData, ReadsShort
  <2>2. spc # "none"
    BY <1>2
       DEF Server, Bind, Loop, Accept, NobodyToAccept, PollLock, RecvNothing, RecvEnd, Recv, LinesDone,
           LogCommand, Answer, WantLvgl, GetLvgl, InjectKey, Screenshot, SendData, ReadsShort
  <2>3. QED
    BY <2>1, <2>2 DEF BootShape
<1>3. CASE Main
  <2>1. CASE InitEarly
    BY <2>1 DEF InitEarly, BootShape
  <2>2. CASE ~InitEarly
    BY <1>3, <2>2 DEF Main, InitRemote, Leave, DeinitStop, DeinitClose, DeinitDestroy, Types
  <2>3. QED
    BY <2>1, <2>2
<1>4. ASSUME NEW t \in Loggers, GetLock(t) \/ RemoveLock(t) \/ LogBegin(t) \/ LogGoesOn(t)
      PROVE  pc'["ui"] # "boot"
  <2>1. CASE t = "ui"
    BY <1>4, <2>1
       DEF GetLock, RemoveLock, LogBegin, LogGoesOn, LogLock, LogPrefix, LogText, After, Types
  <2>2. CASE t # "ui"
    <3>1. pc'["ui"] = pc["ui"]
      BY <1>4, <2>2 DEF GetLock, RemoveLock, LogBegin, LogGoesOn, LogLock, LogPrefix, LogText, Types
    <3>2. CASE RemoveLock(t)
      BY <2>2, <3>1, <3>2 DEF RemoveLock, BootShape, Loggers
    <3>3. CASE ~RemoveLock(t)
      BY <1>4, <3>1, <3>3 DEF GetLock, LogBegin, LogGoesOn, LogLock, LogPrefix, LogText, Up
    <3>4. QED
      BY <3>2, <3>3
  <2>3. QED
    BY <2>1, <2>2
<1>5. QED
  BY <1>1, <1>2, <1>3, <1>4 DEF Next

(***************************************************************************)
(* The steps keep the frames.                                              *)
(***************************************************************************)
FrameOpen(c) == sent[c].what \in {"prefix", "header", "data"}

(* While no other thread has the mutex, and the server is not in a         *)
(* screenshot, nothing has been begun.                                     *)
LEMMA NothingBegun ==
  ASSUME Frames, clients_mutex \notin Loggers, spc # "data", NEW c \in Conns
  PROVE  ~FrameOpen(c)
  BY DEF Frames, FrameOpen

LEMMA NothingOpenIsFine ==
  ASSUME \A c \in Conns : ~FrameOpen(c)
  PROVE  Frames
  BY DEF Frames, FrameOpen

LEMMA NothingOpened ==
  ASSUME Types, \A c \in Conns : ~FrameOpen(c),
         UNCHANGED sent
           \/ \E C, t : \E what \in {"reply", "unknown", "text"} : Send(C, what, t)
  PROVE  Frames'
<1>1. \A c \in Conns : ~FrameOpen(c)'
  BY DEF FrameOpen, Send, Types
<1>2. QED
  BY <1>1 DEF Frames, FrameOpen

(* What the others do meanwhile does not concern a frame.                  *)
LEMMA OthersKeepFrames ==
  ASSUME Frames, UNCHANGED << sent, clients, clients_mutex >>,
         spc # "data" \/ UNCHANGED << spc, index >>,
         \A t \in Loggers : pc[t] = "text" => pc'[t] = "text"
  PROVE  Frames'
<1>1. Streaming' = Streaming
  BY DEF Streaming
<1>2. ASSUME NEW c \in Conns, sent[c].what = "prefix"
      PROVE  /\ sent'[c].by \in Loggers /\ clients_mutex' = sent'[c].by
             /\ pc'[sent'[c].by] = "text" /\ c \in Streaming'
  BY <1>1, <1>2 DEF Frames
<1>3. ASSUME NEW c \in Conns, sent[c].what \in {"header", "data"}
      PROVE  spc' = "data" /\ c = Fd' /\ sent'[c].by = "server"
  BY <1>3 DEF Frames, Fd
<1>4. QED
  BY <1>2, <1>3 DEF Frames

(* Where the server's steps find the mutex.                                *)
LEMMA ServerAlone ==
  ASSUME Types, Locks, Server, ~(Bind \/ Loop \/ NobodyToAccept)
  PROVE  clients_mutex \notin Loggers
<1>1. clients_mutex = NoOne \/ spc \in ServerHolds
  BY DEF Server, Accept, PollLock, RecvNothing, RecvEnd, Recv, LinesDone, LogCommand, Answer,
         WantLvgl, GetLvgl, InjectKey, Screenshot, SendData, ReadsShort, ServerHolds
<1>2. QED
  BY <1>1, ThreadNames DEF Locks, Threads

LEMMA ScreenshotKeepsFrames ==
  ASSUME Types, Locks, Frames, Screenshot \/ SendData \/ ReadsShort
  PROVE  Frames'
<1>1. clients_mutex \notin Loggers
  BY ServerAlone DEF Server, Screenshot, SendData, ReadsShort, Bind, Loop, NobodyToAccept
<1>2. \A c \in Conns : c # Fd => ~FrameOpen(c)
  BY <1>1 DEF Frames, FrameOpen
<1>3. CASE Send({Fd}, "reply", "server") \/ Send({Fd}, "end", "server") \/ Send({Fd}, "short", "server")
  <2>1. \A c \in Conns : ~FrameOpen(c)'
    BY <1>2, <1>3 DEF FrameOpen, Send
  <2>2. QED
    BY <2>1 DEF Frames, FrameOpen
<1>4. CASE /\ Send({Fd}, "header", "server") \/ Send({Fd}, "data", "server")
           /\ spc' = "data" /\ UNCHANGED << clients, index >>
  <2>1. Fd' = Fd
    BY <1>4 DEF Fd
  <2>2. ASSUME NEW c \in Conns, c # Fd PROVE ~FrameOpen(c)'
    BY <1>2, <1>4, <2>2 DEF FrameOpen, Send
  <2>3. ASSUME NEW c \in Conns, c = Fd
        PROVE  sent'[c].what \in {"header", "data"} /\ sent'[c].by = "server"
    BY <1>4, <2>3 DEF Send
  <2>4. QED
    BY <1>4, <2>1, <2>2, <2>3 DEF Frames, FrameOpen
<1>5. QED
  BY <1>3, <1>4 DEF Screenshot, SendData, ReadsShort

LEMMA ServerKeepsFrames ==
  ASSUME Types, Locks, Frames, Server
  PROVE  Frames'
<1>1. CASE Bind \/ Loop \/ NobodyToAccept
  BY <1>1, OthersKeepFrames DEF Bind, Loop, NobodyToAccept
<1>2. CASE Screenshot \/ SendData \/ ReadsShort
  BY <1>2, ScreenshotKeepsFrames
<1>3. CASE ~(Bind \/ Loop \/ NobodyToAccept) /\ ~(Screenshot \/ SendData \/ ReadsShort)
  <2>1. spc # "data"
    BY <1>3
       DEF Server, Accept, PollLock, RecvNothing, RecvEnd, Recv, LinesDone, LogCommand, Answer,
           WantLvgl, GetLvgl, InjectKey
  <2>2. \A c \in Conns : ~FrameOpen(c)
    BY <1>3, <2>1, ServerAlone, NothingBegun
  <2>3. \/ UNCHANGED sent
        \/ \E c \in Conns : Send({c}, "reply", "server")
        \/ Send({Fd}, "reply", "server") \/ Send({Fd}, "unknown", "server")
        \/ Send(Streaming, "text", "server")
    BY <1>3
       DEF Server, Accept, PollLock, RecvNothing, RecvEnd, Recv, LinesDone, LogCommand, Answer,
           WantLvgl, GetLvgl, InjectKey, netVars
  <2>4. QED
    BY <2>2, <2>3, NothingOpened
<1>4. QED
  BY <1>1, <1>2, <1>3

LEMMA MainKeepsFrames ==
  ASSUME Types, Locks, BootShape, Frames, Main, pc'["ui"] # "off"
  PROVE  Frames'
<1>1. CASE InitEarly \/ (InitRemote /\ ~Early)
  <2>1. spc = "none" /\ \A t \in Loggers : pc[t] \notin {"prefix", "text"}
    BY <1>1 DEF InitEarly, InitRemote, BootShape, Loggers
  <2>2. \A c \in Conns : ~FrameOpen(c)
    BY <2>1, NothingBegun DEF Locks
  <2>3. QED
    BY <1>1, <2>2, NothingOpened DEF InitEarly, InitRemote
<1>2. CASE DeinitClose
  <2>1. \A c \in Conns : ~FrameOpen(c)
    BY <1>2, NothingBegun, ThreadNames DEF DeinitClose, Threads
  <2>2. QED
    BY <1>2, <2>1, NothingOpened DEF DeinitClose
<1>3. CASE (InitRemote /\ Early) \/ Leave \/ DeinitStop
  BY <1>3, OthersKeepFrames DEF InitRemote, Leave, DeinitStop, serverVars, Types
<1>4. CASE DeinitDestroy
  BY <1>4, ThreadNames DEF DeinitDestroy, Types
<1>5. QED
  BY <1>1, <1>2, <1>3, <1>4 DEF Main

(* Who logs has the mutex, so that its log line is the only thing begun.   *)
LEMMA LoggerHasMutex ==
  ASSUME Locks, NEW t \in Loggers, pc[t] \in {"prefix", "text"}
  PROVE  clients_mutex = t /\ spc # "data"
  BY ThreadNames DEF Locks, ServerHolds

LEMMA LoggersKeepFrames ==
  ASSUME Types, Locks, Frames, NEW t \in Loggers,
         GetLock(t) \/ RemoveLock(t) \/ LogBegin(t) \/ LogGoesOn(t)
  PROVE  Frames'
<1>1. CASE GetLock(t) \/ RemoveLock(t) \/ LogBegin(t)
  BY <1>1, OthersKeepFrames DEF GetLock, RemoveLock, LogBegin, serverVars, Types
<1>2. CASE LogLock(t)
  <2>1. clients_mutex \notin Loggers
    BY <1>2, ThreadNames DEF LogLock, Threads
  <2>2. spc # "data" \/ UNCHANGED << spc, index, clients_mutex >>
    BY <1>2, <2>1, ThreadNames DEF LogLock, Locks, ServerHolds, Threads, serverVars
  <2>3. CASE spc # "data"
    BY <1>2, <2>1, <2>3, NothingBegun, NothingOpened DEF LogLock
  <2>4. CASE spc = "data"
    <3>1. clients_mutex = "server"
      BY <2>4 DEF Locks, ServerHolds
    <3>2. QED
      BY <1>2, <3>1, ThreadNames DEF LogLock, Threads
  <2>5. QED
    BY <2>3, <2>4
<1>3. CASE LogPrefix(t)
  <2>1. clients_mutex = t /\ spc # "data"
    BY <1>3, LoggerHasMutex DEF LogPrefix
  <2>2. \A c \in Conns : ~FrameOpen(c)
    BY <1>3, <2>1 DEF Frames, FrameOpen, LogPrefix
  <2>3. pc'[t] = "text" /\ UNCHANGED << clients, clients_mutex >>
    BY <1>3 DEF LogPrefix, Types
  <2>4. Streaming' = Streaming
    BY <2>3 DEF Streaming
  <2>5. ASSUME NEW c \in Conns, c \in Streaming
        PROVE  sent'[c].what = "prefix" /\ sent'[c].by = t
    BY <1>3, <2>5 DEF LogPrefix, Send
  <2>6. ASSUME NEW c \in Conns, c \notin Streaming PROVE ~FrameOpen(c)'
    BY <1>3, <2>2, <2>6 DEF LogPrefix, Send, FrameOpen
  <2>7. QED
    BY <2>1, <2>3, <2>4, <2>5, <2>6 DEF Frames, FrameOpen
<1>4. CASE LogText(t)
  <2>1. clients_mutex = t /\ spc # "data"
    BY <1>4, LoggerHasMutex DEF LogText
  <2>2. \A c \in Conns : FrameOpen(c) => c \in Streaming
    BY <2>1 DEF Frames, FrameOpen
  <2>3. \A c \in Conns : ~FrameOpen(c)'
    BY <1>4, <2>2 DEF LogText, Send, FrameOpen
  <2>4. QED
    BY <2>3 DEF Frames, FrameOpen
<1>5. QED
  BY <1>1, <1>2, <1>3, <1>4 DEF LogGoesOn

(***************************************************************************)
(* The invariant.                                                          *)
(***************************************************************************)
LEMMA StepsKeepServer == ServerInv /\ [Next]_vars => ServerInv'
<1> SUFFICES ASSUME ServerInv, [Next]_vars PROVE ServerInv'
  OBVIOUS
<1>1. Entries'
  BY StepsKeepEntries DEF ServerInv
<1>2. CASE UNCHANGED vars
  <2>1. Types'
    BY <1>2 DEF vars, serverVars, netVars, ServerInv, Types, TypeOK
  <2>2. (Locks /\ BootShape /\ Frames)' = (Locks /\ BootShape /\ Frames) /\ pc' = pc
    BY <1>2 DEF vars, serverVars, netVars, Locks, BootShape, Frames, Streaming, Fd
  <2>3. QED
    BY <1>1, <2>1, <2>2 DEF ServerInv
<1>3. CASE Next
  <2>1. Types /\ Locks /\ BootShape /\ Frames
    BY <1>3 DEF ServerInv, Next
  <2>2. BootShape'
    BY <2>1, StepsKeepBoot
  <2>3. CASE Env
    <3>1. UNCHANGED << clients, clients_mutex, sent, pc, serverVars >>
      BY <2>3 DEF Env, Connect, Type, Shut
    <3>2. Locks' /\ Frames'
      BY <2>1, <3>1 DEF serverVars, Locks, Frames, Streaming, Fd
    <3>3. QED
      BY <1>1, <2>1, <2>2, <2>3, <3>2, EnvKeepsTypes DEF ServerInv
  <2>4. CASE Server
    BY <1>1, <2>1, <2>2, <2>4, ServerKeepsTypes, ServerKeepsLocks, ServerKeepsFrames DEF ServerInv
  <2>5. CASE Main
    BY <1>1, <2>1, <2>2, <2>5, MainKeepsTypes, MainKeepsLocks, MainKeepsFrames DEF ServerInv
  <2>6. CASE \E t \in Loggers : GetLock(t) \/ RemoveLock(t) \/ LogBegin(t) \/ LogGoesOn(t)
    BY <1>1, <2>1, <2>2, <2>6, LoggersKeepTypes, LoggersKeepLocks, LoggersKeepFrames DEF ServerInv
  <2>7. QED
    BY <1>3, <2>3, <2>4, <2>5, <2>6 DEF Next
<1>4. QED
  BY <1>2, <1>3

(* Counting the entries of a connection.                                   *)
LEMMA EntriesAreCounted == Types /\ Entries => SocketsAccounted
<1> SUFFICES ASSUME Types, Entries, NEW c \in Conns
             PROVE  Cardinality({i \in Ids : clients[i].fd = c})
                      = (IF net[c] \in {"open", "shut"} THEN 1 ELSE 0)
  BY DEF SocketsAccounted
<1>1. CASE net[c] \in {"open", "shut"}
  <2>1. PICK i \in Ids : clients[i].fd = c
    BY <1>1 DEF Entries
  <2>2. {j \in Ids : clients[j].fd = c} = {i}
    BY <2>1, ThreadNames DEF Entries
  <2>3. QED
    BY <1>1, <2>2, FS_Singleton
<1>2. CASE net[c] \notin {"open", "shut"}
  <2>1. {j \in Ids : clients[j].fd = c} = {}
    BY <1>2 DEF Entries
  <2>2. QED
    BY <1>2, <2>1, FS_EmptySet
<1>3. QED
  BY <1>1, <1>2

(* What a step sends, and in which state of the connection.                *)
LEMMA SendsFit ==
  ASSUME ServerInv, [Next]_vars, NEW c \in Conns, sent'[c] # sent[c]
  PROVE  /\ sent[c].what \in DOMAIN Followers =>
              /\ sent'[c].what \in Followers[sent[c].what]
              /\ sent'[c].by = sent[c].by
         /\ sent'[c].what \in {"prefix", "text"} => asked[c]
<1>1. Types /\ Entries /\ Locks /\ Frames /\ Next
  BY DEF ServerInv, Next, vars
<1>2. DOMAIN Followers = {"prefix", "header", "data"}
  BY DEF Followers
<1>3. c \in Streaming => asked[c]
  BY <1>1 DEF Streaming, Entries
<1>4. CASE Server
  <2>1. \/ \E d \in Conns : Accept(d)
        \/ LogCommand \/ Answer \/ InjectKey \/ Screenshot \/ SendData \/ ReadsShort
    BY <1>4
       DEF Server, Bind, Loop, NobodyToAccept, PollLock, RecvNothing, RecvEnd, Recv, LinesDone, WantLvgl,
           GetLvgl
  <2>2. clients_mutex \notin Loggers
    <3>1. ~(Bind \/ Loop \/ NobodyToAccept)
      BY <2>1 DEF Bind, Loop, NobodyToAccept
    <3>2. QED
      BY <1>1, <1>4, <3>1, ServerAlone
  <2>3. CASE SendData \/ ReadsShort
    <3>1. c = Fd /\ sent'[c].what \in Pieces /\ sent'[c].by = "server"
      BY <2>3 DEF SendData, ReadsShort, Send, Pieces
    <3>2. sent[c].what # "prefix"
      BY <1>1, <2>2 DEF Frames
    <3>3. sent[c].what \in {"header", "data"} => sent[c].by = "server"
      BY <1>1 DEF Frames
    <3>4. QED
      BY <1>2, <3>1, <3>2, <3>3 DEF Followers, Pieces
  <2>4. CASE ~(SendData \/ ReadsShort)
    <3>1. spc # "data"
      BY <2>1, <2>4 DEF Accept, LogCommand, Answer, InjectKey, Screenshot
    <3>2. ~FrameOpen(c)
      BY <1>1, <2>2, <3>1, NothingBegun
    <3>3. sent'[c].what \in {"prefix", "text"} => c \in Streaming
      BY <2>1, <2>4 DEF Accept, LogCommand, Answer, InjectKey, Screenshot, Send
    <3>4. QED
      BY <1>2, <1>3, <3>2, <3>3 DEF FrameOpen
  <2>5. QED
    BY <2>3, <2>4
<1>5. ASSUME NEW t \in Loggers, LogPrefix(t) \/ LogText(t)
      PROVE  /\ sent[c].what \in DOMAIN Followers =>
                  /\ sent'[c].what \in Followers[sent[c].what]
                  /\ sent'[c].by = sent[c].by
             /\ sent'[c].what \in {"prefix", "text"} => asked[c]
  <2>1. clients_mutex = t /\ spc # "data"
    BY <1>1, <1>5, LoggerHasMutex DEF LogPrefix, LogText
  <2>2. /\ c \in Streaming /\ sent'[c].by = t
        /\ LogText(t) => sent'[c].what = "text"
    BY <1>5 DEF LogPrefix, LogText, Send
  <2>3. CASE sent[c].what = "prefix"
    <3>1. sent[c].by = t /\ pc[t] = "text"
      BY <1>1, <2>1, <2>3 DEF Frames
    <3>2. LogText(t)
      BY <1>5, <3>1 DEF LogPrefix
    <3>3. QED
      BY <1>3, <2>2, <2>3, <3>1, <3>2 DEF Followers
  <2>4. CASE sent[c].what # "prefix"
    BY <1>1, <1>2, <1>3, <2>1, <2>2, <2>4 DEF Frames
  <2>5. QED
    BY <2>3, <2>4
<1>6. CASE Env \/ Main
  BY <1>6 DEF Env, Connect, Shut, Type, Main, InitEarly, InitRemote, Leave, DeinitStop, DeinitClose,
              DeinitDestroy
<1>7. ASSUME NEW t \in Loggers, GetLock(t) \/ RemoveLock(t) \/ LogBegin(t) \/ LogLock(t) PROVE FALSE
  BY <1>7 DEF GetLock, RemoveLock, LogBegin, LogLock
<1>8. QED
  BY <1>1, <1>4, <1>5, <1>6, <1>7 DEF Next, LogGoesOn

(***************************************************************************)
(* Theorems.                                                               *)
(***************************************************************************)

(* The inductive invariant of entries, mutex and output.                   *)
THEOREM ServerInvariant == Spec => []ServerInv
  BY ServerBegins, StepsKeepServer, PTL DEF Spec

(* No socket leaks and none is used after it was closed                    *)
(* (dash_remote.c:481-496, 517-524, 635-644).                              *)
THEOREM SocketsAreAccounted == Spec => []RemoteInv
<1>1. ServerInv => RemoteInv
  BY EntriesAreCounted DEF ServerInv, Types, RemoteInv
<1>2. QED
  BY <1>1, ServerInvariant, PTL

(* Nothing gets between a log line's prefix and its text, nor into a       *)
(* screenshot (dash_remote.c:184-197, 675-685).                            *)
THEOREM FramesStayIntact == Spec => FramesIntact
<1> DEFINE Fits == \A c \in Conns :
                     sent'[c] # sent[c] /\ sent[c].what \in DOMAIN Followers =>
                       /\ sent'[c].what \in Followers[sent[c].what]
                       /\ sent'[c].by = sent[c].by
<1>1. ServerInv /\ [Next]_vars => [Fits]_vars
  BY SendsFit
<1>2. QED
  BY <1>1, ServerInvariant, PTL DEF Spec, FramesIntact

(* The log streams to those who asked for it only (dash_remote.c:344-353,  *)
(* 484, 523).                                                              *)
THEOREM LogsStreamToSubscribers == Spec => StreamsToSubscribers
<1> DEFINE Fits == \A c \in Conns :
                     sent'[c] # sent[c] /\ sent'[c].what \in {"prefix", "text"} => asked[c]
<1>1. ServerInv /\ [Next]_vars => [Fits]_vars
  BY SendsFit
<1>2. QED
  BY <1>1, ServerInvariant, PTL DEF Spec, StreamsToSubscribers

================================================================================
