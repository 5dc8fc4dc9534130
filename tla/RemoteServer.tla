------------------------------ MODULE RemoteServer ------------------------------
(***************************************************************************)
(* The remote debug server, src/src/dash_remote.c, and the two mutexes it  *)
(* shares with the rest of the program (main.c).                           *)
(*                                                                         *)
(* The server thread serves its clients under clients_mutex and takes      *)
(* lvgl_mutex for the commands that touch the user interface.  The other   *)
(* threads hold lvgl_mutex while they work on the user interface and may   *)
(* log, in which case dash_remote_log takes clients_mutex.  The main       *)
(* thread, "ui", also starts and stops the server.                         *)
(*                                                                         *)
(* A line of the protocol travels as two pieces, so that TCP may deliver   *)
(* it in two; what is sent is one of the kinds of output below, of which   *)
(* only the last is remembered for each connection.                        *)
(***************************************************************************)
EXTENDS Integers, Sequences, SequencesExt, FiniteSetsExt

CONSTANTS
  Conns,       \* the connections that clients make
  MaxClients,  \* DASH_REMOTE_MAX_CLIENTS
  Workers,     \* the threads besides "ui" that hold lvgl_mutex and log
  Commands,    \* the commands that clients send
  MaxCmds,     \* bound on the commands sent, all connections together
  Chunks,      \* how many pieces a screenshot is sent in
  Early,       \* whether the debug flag starts the server before the display
  NoOne        \* INVALID_SOCK, and the owner of a mutex that is free

ASSUME SizesAssumption ==
  /\ MaxClients \in Nat \ {0} /\ MaxCmds \in Nat /\ Chunks \in Nat \ {0}
  /\ Early \in BOOLEAN
ASSUME NamesAssumption ==
  /\ NoOne \notin Conns \cup Workers \cup {"ui", "server", "null"}
  /\ Workers \cap {"ui", "server", "null"} = {}
  /\ Commands \subseteq {"key", "screenshot", "logon", "logoff", "ping", "quit"}

Ids     == 1..MaxClients
Loggers == Workers \cup {"ui"}
Threads == Loggers \cup {"server"}

VARIABLES
  clients,        \* clients[i]: its fd and whether log_streaming is on
  clients_mutex,  \* its owner, NoOne, or "null" outside init and deinit
  lvgl_mutex,     \* likewise
  server_running,
  spc,            \* where the server thread is
  index,          \* its local i, the client it polls
  lines,          \* the lines of its buf that remain to be processed
  left,           \* the pieces of a screenshot that remain to be sent
  pc,             \* pc[t]: where another thread is
  quit,           \* lv_get_quit() # LV_QUIT_NONE
  net,            \* net[c]: "off", "pending", "open", "refused", "shut", "gone"
  inbox,          \* inbox[c]: the pieces of lines the server has not received
  typed,          \* how many commands were sent
  sent,           \* history: the last output on c, and its sender
  asked           \* history: whether c asked for the log

serverVars == << spc, index, lines, left >>
netVars    == << net, inbox, typed >>
vars == << clients, clients_mutex, lvgl_mutex, server_running, serverVars, pc,
           quit, netVars, sent, asked >>

NoClient == [fd |-> NoOne, log |-> FALSE]

Init ==
  /\ clients = [i \in Ids |-> NoClient]
  /\ clients_mutex = "null" /\ lvgl_mutex = "null"
  /\ server_running = FALSE
  /\ spc = "none" /\ index = 1 /\ lines = << >> /\ left = 0
  /\ pc = [t \in Loggers |-> IF t = "ui" THEN "boot" ELSE "out"]
  /\ quit = FALSE
  /\ net = [c \in Conns |-> "off"]
  /\ inbox = [c \in Conns |-> << >>]
  /\ typed = 0
  /\ sent = [c \in Conns |-> [what |-> "nothing", by |-> NoOne]]
  /\ asked = [c \in Conns |-> FALSE]

(***************************************************************************)
(* Output.  The sockets do not block, and what finds no room is lost: the  *)
(* history has what was handed to the socket, not what arrived.            *)
(***************************************************************************)
Send(C, what, t) ==
  sent' = [c \in Conns |-> IF c \in C THEN [what |-> what, by |-> t] ELSE sent[c]]

(* Mutant: the log goes to every client.                                   *)
Streaming_All == {clients[i].fd : i \in Ids} \ {NoOne}

Streaming == {clients[i].fd : i \in {j \in Ids : clients[j].fd # NoOne /\ clients[j].log}}

(***************************************************************************)
(* The clients, over the network.                                          *)
(***************************************************************************)
Connect(c) ==
  /\ net[c] = "off" /\ spc \notin {"none", "bind", "exit"}
  /\ net' = [net EXCEPT ![c] = "pending"]
  /\ UNCHANGED << clients, clients_mutex, lvgl_mutex, server_running, serverVars,
                  pc, quit, inbox, typed, sent, asked >>

Type(c, k) ==
  /\ net[c] \in {"pending", "open"} /\ typed < MaxCmds
  /\ inbox' = [inbox EXCEPT ![c] = @ \o << [of |-> k, end |-> FALSE],
                                           [of |-> k, end |-> TRUE] >>]
  /\ typed' = typed + 1
  /\ UNCHANGED << clients, clients_mutex, lvgl_mutex, server_running, serverVars,
                  pc, quit, net, sent, asked >>

Shut(c) ==
  /\ net[c] = "open"
  /\ net' = [net EXCEPT ![c] = "shut"]
  /\ UNCHANGED << clients, clients_mutex, lvgl_mutex, server_running, serverVars,
                  pc, quit, inbox, typed, sent, asked >>

(***************************************************************************)
(* The server thread: startup_thread_fn, then server_thread_fn.            *)
(***************************************************************************)

(* A bind that fails is tried again half a second later, sixty times.      *)
Bind ==
  /\ spc = "bind"
  /\ \/ spc' = "loop" /\ server_running' = TRUE
     \/ spc' = "exit" /\ UNCHANGED server_running
  /\ UNCHANGED << clients, clients_mutex, lvgl_mutex, index, lines, left, pc, quit,
                  netVars, sent, asked >>

Loop ==
  /\ spc = "loop"
  /\ spc' = IF server_running THEN "accept" ELSE "exit"
  /\ UNCHANGED << clients, clients_mutex, lvgl_mutex, server_running, index, lines,
                  left, pc, quit, netVars, sent, asked >>

FreeIds == {i \in Ids : clients[i].fd = NoOne}

(* The first free entry; without one, the connection is closed.            *)
Accept(c) ==
  /\ spc = "accept" /\ clients_mutex = NoOne /\ net[c] = "pending"
  /\ IF FreeIds = {}
     THEN /\ net' = [net EXCEPT ![c] = "refused"]
          /\ UNCHANGED clients
     ELSE /\ net' = [net EXCEPT ![c] = "open"]
          /\ clients' = [clients EXCEPT ![Min(FreeIds)] = [fd |-> c, log |-> FALSE]]
  /\ Send({c}, "reply", "server")
  /\ spc' = "poll"
  /\ UNCHANGED << clients_mutex, lvgl_mutex, server_running, index, lines, left, pc,
                  quit, inbox, typed, asked >>

NobodyToAccept ==
  /\ spc = "accept" /\ \A c \in Conns : net[c] # "pending"
  /\ spc' = "poll"
  /\ UNCHANGED << clients, clients_mutex, lvgl_mutex, server_running, index, lines,
                  left, pc, quit, netVars, sent, asked >>

PollLock ==
  /\ spc = "poll" /\ clients_mutex = NoOne
  /\ clients_mutex' = "server"
  /\ spc'   = "recv"
  /\ index' = 1
  /\ UNCHANGED << clients, lvgl_mutex, server_running, lines, left, pc, quit,
                  netVars, sent, asked >>

Fd == clients[index].fd

(* The next client, or, after the last one, the end of the round.          *)
NextClient ==
  IF index < MaxClients
  THEN index' = index + 1 /\ spc' = "recv" /\ UNCHANGED clients_mutex
  ELSE clients_mutex' = NoOne /\ spc' = "loop" /\ UNCHANGED index

RecvNothing ==
  /\ spc = "recv"
  /\ Fd # NoOne => inbox[Fd] = << >> /\ net[Fd] = "open"
  /\ NextClient
  /\ UNCHANGED << clients, lvgl_mutex, server_running, lines, left, pc, quit,
                  netVars, sent, asked >>

(* Mutant: the socket is closed, but its entry is not freed.               *)
RecvEnd_KeepsEntry ==
  /\ spc = "recv" /\ Fd # NoOne /\ inbox[Fd] = << >> /\ net[Fd] = "shut"
  /\ net' = [net EXCEPT ![Fd] = "gone"]
  /\ NextClient
  /\ UNCHANGED << clients, lvgl_mutex, server_running, lines, left, pc, quit, inbox,
                  typed, sent, asked >>

RecvEnd ==
  /\ spc = "recv" /\ Fd # NoOne /\ inbox[Fd] = << >> /\ net[Fd] = "shut"
  /\ net'     = [net EXCEPT ![Fd] = "gone"]
  /\ clients' = [clients EXCEPT ![index] = NoClient]
  /\ NextClient
  /\ UNCHANGED << lvgl_mutex, server_running, lines, left, pc, quit, inbox, typed,
                  sent, asked >>

(* strtok makes a line of every piece of the buffer between newlines, the  *)
(* first and the last piece included.                                      *)
LinesOf(buf) ==
  LET ends == SetToSortSeq({i \in DOMAIN buf : buf[i].end \/ i = Len(buf)}, <)
  IN [j \in DOMAIN ends |->
        IF buf[ends[j]].end /\ ends[j] > 1 THEN buf[ends[j]].of ELSE "part"]

Recv ==
  /\ spc = "recv" /\ Fd # NoOne
  /\ \E n \in 1..Len(inbox[Fd]) :
       /\ lines' = LinesOf(SubSeq(inbox[Fd], 1, n))
       /\ inbox' = [inbox EXCEPT ![Fd] = SubSeq(@, n + 1, Len(@))]
  /\ spc' = "cmd"
  /\ UNCHANGED << clients, clients_mutex, lvgl_mutex, server_running, index, left,
                  pc, quit, net, typed, sent, asked >>

LinesDone ==
  /\ spc = "cmd" /\ lines = << >>
  /\ NextClient
  /\ UNCHANGED << clients, lvgl_mutex, server_running, lines, left, pc, quit,
                  netVars, sent, asked >>

(***************************************************************************)
(* process_command, under clients_mutex.  Every command except ping is     *)
(* logged first: the mutex is recursive.                                   *)
(***************************************************************************)
LogCommand ==
  /\ spc = "cmd" /\ lines # << >>
  /\ spc' = "run"
  /\ IF Head(lines) = "ping" THEN UNCHANGED sent ELSE Send(Streaming, "text", "server")
  /\ UNCHANGED << clients, clients_mutex, lvgl_mutex, server_running, index, lines,
                  left, pc, quit, netVars, asked >>

(* A command that is answered at once.                                     *)
Answer ==
  LET k == Head(lines) IN
  /\ spc = "run" /\ k \notin {"key", "screenshot"}
  /\ clients' = IF k \in {"logon", "logoff"}
                THEN [clients EXCEPT ![index].log = (k = "logon")] ELSE clients
  /\ asked'   = IF k \in {"logon", "logoff"}
                THEN [asked EXCEPT ![Fd] = (k = "logon")] ELSE asked
  /\ quit'    = (quit \/ k = "quit")
  /\ Send({Fd}, IF k = "part" THEN "unknown" ELSE "reply", "server")
  /\ lines'   = Tail(lines)
  /\ spc'     = "cmd"
  /\ UNCHANGED << clients_mutex, lvgl_mutex, server_running, index, left, pc, netVars >>

(* inject_key and handle_screenshot call lvgl_getlock, which asserts that  *)
(* SDL_LockMutex succeeds; it fails on a null mutex (before SDL 2.26).     *)
WantLvgl ==
  /\ spc = "run" /\ Head(lines) \in {"key", "screenshot"}
  /\ spc' = "lvgl"
  /\ UNCHANGED << clients, clients_mutex, lvgl_mutex, server_running, index, lines,
                  left, pc, quit, netVars, sent, asked >>

GetLvgl ==
  /\ spc = "lvgl"
  /\ \/ lvgl_mutex = NoOne /\ lvgl_mutex' = "server" /\ spc' = "inlvgl"
     \/ lvgl_mutex = "null" /\ spc' = "assert" /\ UNCHANGED lvgl_mutex
  /\ UNCHANGED << clients, clients_mutex, server_running, index, lines, left, pc,
                  quit, netVars, sent, asked >>

InjectKey ==
  /\ spc = "inlvgl" /\ Head(lines) = "key"
  /\ lvgl_mutex' = NoOne
  /\ Send({Fd}, "reply", "server")
  /\ lines' = Tail(lines)
  /\ spc'   = "cmd"
  /\ UNCHANGED << clients, clients_mutex, server_running, index, left, pc, quit,
                  netVars, asked >>

(* The frame is captured under lvgl_mutex and sent without it.             *)
Screenshot ==
  /\ spc = "inlvgl" /\ Head(lines) = "screenshot"
  /\ lvgl_mutex' = NoOne
  /\ \/ Send({Fd}, "header", "server") /\ left' = Chunks /\ spc' = "data"
        /\ UNCHANGED lines
     \/ Send({Fd}, "reply", "server") /\ lines' = Tail(lines) /\ spc' = "cmd"
        /\ UNCHANGED left
  /\ UNCHANGED << clients, clients_mutex, server_running, index, pc, quit, netVars,
                  asked >>

SendData ==
  /\ spc = "data"
  /\ Send({Fd}, IF left = 1 THEN "end" ELSE "data", "server")
  /\ left' = left - 1
  /\ IF left = 1 THEN lines' = Tail(lines) /\ spc' = "cmd" ELSE UNCHANGED << lines, spc >>
  /\ UNCHANGED << clients, clients_mutex, lvgl_mutex, server_running, index, pc, quit,
                  netVars, asked >>

(* The file cannot be read to the size that was announced: the rest is     *)
(* never sent.  The history marks where it is missing.                     *)
ReadsShort ==
  /\ spc = "data"
  /\ Send({Fd}, "short", "server")
  /\ left' = 0 /\ lines' = Tail(lines) /\ spc' = "cmd"
  /\ UNCHANGED << clients, clients_mutex, lvgl_mutex, server_running, index, pc, quit,
                  netVars, asked >>

(***************************************************************************)
(* The other threads: lvgl_getlock, lvgl_removelock and dash_printf, whose *)
(* dash_remote_log does nothing when clients_mutex is null.                *)
(***************************************************************************)
Up == pc["ui"] # "boot" /\ pc["ui"] # "off" /\ lvgl_mutex # "null"

GetLock(t) ==
  /\ Up /\ pc[t] = "out" /\ lvgl_mutex = NoOne
  /\ t = "ui" => ~quit
  /\ lvgl_mutex' = t
  /\ pc' = [pc EXCEPT ![t] = "in"]
  /\ UNCHANGED << clients, clients_mutex, server_running, serverVars, quit, netVars,
                  sent, asked >>

(* The user may choose to quit while the UI thread handles a key.          *)
RemoveLock(t) ==
  /\ pc[t] = "in"
  /\ lvgl_mutex' = NoOne
  /\ pc'   = [pc EXCEPT ![t] = "out"]
  /\ quit' \in IF t = "ui" THEN {quit, TRUE} ELSE {quit}
  /\ UNCHANGED << clients, clients_mutex, server_running, serverVars, netVars, sent,
                  asked >>

LogBegin(t) ==
  /\ Up /\ clients_mutex # "null"
  /\ pc[t] = "in" \/ (pc[t] = "out" /\ t # "ui")
  /\ pc' = [pc EXCEPT ![t] = "lock"]
  /\ UNCHANGED << clients, clients_mutex, lvgl_mutex, server_running, serverVars, quit,
                  netVars, sent, asked >>

(* Where dash_remote_log returns to.                                       *)
After(t) == IF lvgl_mutex = t THEN "in" ELSE IF t = "ui" THEN "deinit" ELSE "out"

(* Mutant: the log is sent without the mutex.                              *)
LogLock_Never(t) ==
  /\ Up /\ pc[t] = "lock"
  /\ pc' = [pc EXCEPT ![t] = "prefix"]
  /\ UNCHANGED << clients, clients_mutex, lvgl_mutex, server_running, serverVars, quit,
                  netVars, sent, asked >>

(* If the mutex went away in the meantime the lock fails: every fd is      *)
(* invalid by then, so nothing is sent.                                    *)
LogLock(t) ==
  /\ Up /\ pc[t] = "lock"
  /\ \/ clients_mutex = NoOne /\ clients_mutex' = t /\ pc' = [pc EXCEPT ![t] = "prefix"]
     \/ clients_mutex = "null" /\ pc' = [pc EXCEPT ![t] = After(t)]
        /\ UNCHANGED clients_mutex
  /\ UNCHANGED << clients, lvgl_mutex, server_running, serverVars, quit, netVars,
                  sent, asked >>

LogPrefix(t) ==
  /\ Up /\ pc[t] = "prefix"
  /\ Send(Streaming, "prefix", t)
  /\ pc' = [pc EXCEPT ![t] = "text"]
  /\ UNCHANGED << clients, clients_mutex, lvgl_mutex, server_running, serverVars, quit,
                  netVars, asked >>

LogText(t) ==
  /\ Up /\ pc[t] = "text"
  /\ Send(Streaming, "text", t)
  /\ clients_mutex' = IF clients_mutex = t THEN NoOne ELSE clients_mutex
  /\ pc' = [pc EXCEPT ![t] = After(t)]
  /\ UNCHANGED << clients, lvgl_mutex, server_running, serverVars, quit, netVars, asked >>

(***************************************************************************)
(* The main thread: start the server, leave the loop on quit, and stop it. *)
(***************************************************************************)

(* dash_remote_init_early, before the display and lvgl_mutex are there.    *)
InitEarly ==
  /\ pc["ui"] = "boot" /\ Early /\ spc = "none"
  /\ clients_mutex' = NoOne
  /\ spc' = "bind"
  /\ UNCHANGED << clients, lvgl_mutex, server_running, index, lines, left, pc, quit,
                  netVars, sent, asked >>

(* Otherwise dash_remote_init; if its bind fails there is no thread.       *)
InitRemote ==
  /\ pc["ui"] = "boot" /\ (Early => spc # "none")
  /\ lvgl_mutex' = NoOne
  /\ IF Early
     THEN UNCHANGED << clients_mutex, spc, server_running >>
     ELSE /\ clients_mutex' = NoOne
          /\ \/ spc' = "loop" /\ server_running' = TRUE
             \/ UNCHANGED << spc, server_running >>
  /\ pc' = [pc EXCEPT !["ui"] = "out"]
  /\ UNCHANGED << clients, index, lines, left, quit, netVars, sent, asked >>

Leave ==
  /\ pc["ui"] = "out" /\ quit
  /\ pc' = [pc EXCEPT !["ui"] = "lock"]
  /\ UNCHANGED << clients, clients_mutex, lvgl_mutex, server_running, serverVars, quit,
                  netVars, sent, asked >>

(* Mutant: the thread is waited for, but not told to stop.                 *)
DeinitStop_Untold ==
  /\ pc["ui"] = "deinit"
  /\ pc' = [pc EXCEPT !["ui"] = "join"]
  /\ UNCHANGED << clients, clients_mutex, lvgl_mutex, server_running, serverVars, quit,
                  netVars, sent, asked >>

DeinitStop ==
  /\ pc["ui"] = "deinit"
  /\ server_running' = FALSE
  /\ pc' = [pc EXCEPT !["ui"] = "join"]
  /\ UNCHANGED << clients, clients_mutex, lvgl_mutex, serverVars, quit, netVars,
                  sent, asked >>

DeinitClose ==
  /\ pc["ui"] = "join" /\ spc \in {"none", "exit"} /\ clients_mutex = NoOne
  /\ clients' = [i \in Ids |-> [clients[i] EXCEPT !.fd = NoOne]]
  /\ net' = [c \in Conns |-> IF net[c] \in {"open", "shut"} THEN "gone" ELSE net[c]]
  /\ pc' = [pc EXCEPT !["ui"] = "destroy"]
  /\ UNCHANGED << clients_mutex, lvgl_mutex, server_running, serverVars, quit, inbox,
                  typed, sent, asked >>

DeinitDestroy ==
  /\ pc["ui"] = "destroy"
  /\ clients_mutex' = "null"
  /\ pc' = [pc EXCEPT !["ui"] = "off"]
  /\ UNCHANGED << clients, lvgl_mutex, server_running, serverVars, quit, netVars,
                  sent, asked >>

(***************************************************************************)
(* The specification.                                                      *)
(***************************************************************************)
Env == \E c \in Conns :
         Connect(c) \/ (\E k \in Commands : Type(c, k)) \/ Shut(c)

Server ==
  \/ Bind \/ Loop \/ (\E c \in Conns : Accept(c)) \/ NobodyToAccept
  \/ PollLock \/ RecvNothing \/ RecvEnd \/ Recv \/ LinesDone
  \/ LogCommand \/ Answer \/ WantLvgl \/ GetLvgl \/ InjectKey \/ Screenshot \/ SendData
  \/ ReadsShort

Main == InitEarly \/ InitRemote \/ Leave \/ DeinitStop \/ DeinitClose \/ DeinitDestroy

LogGoesOn(t) == LogLock(t) \/ LogPrefix(t) \/ LogText(t)

(* The process ends with its main thread, or by an assertion.              *)
Next ==
  /\ pc["ui"] # "off" /\ spc # "assert"
  /\ \/ Env \/ Server \/ Main
     \/ \E t \in Loggers : GetLock(t) \/ RemoveLock(t) \/ LogBegin(t) \/ LogGoesOn(t)

Spec == Init /\ [][Next]_vars

Running(A) == pc["ui"] # "off" /\ spc # "assert" /\ A

(* Every thread is scheduled, and one that waits for a mutex others take   *)
(* and release again gets it in the end; critical sections end.            *)
FairSpec ==
  /\ Spec
  /\ SF_vars(Running(Server)) /\ SF_vars(Running(Main))
  /\ \A t \in Loggers :
       SF_vars(Running(RemoveLock(t))) /\ SF_vars(Running(LogGoesOn(t)))

(***************************************************************************)
(* Properties.                                                             *)
(***************************************************************************)

(* Every variable holds a value of its type.                               *)
TypeOK ==
  /\ clients \in [Ids -> [fd : Conns \cup {NoOne}, log : BOOLEAN]]
  /\ clients_mutex \in Threads \cup {NoOne, "null"}
  /\ lvgl_mutex \in Threads \cup {NoOne, "null"}
  /\ server_running \in BOOLEAN /\ quit \in BOOLEAN
  /\ index \in Ids /\ left \in 0..Chunks
  /\ typed \in 0..MaxCmds /\ \A c \in Conns : Len(inbox[c]) <= 2 * MaxCmds

(* What belongs together is sent together: nothing, whichever thread sends *)
(* it, gets between "[LOG] " and its text, nor between the pieces of a     *)
(* screenshot, up to its end or to where its file could not be read any    *)
(* further (dash_remote.c:184-197, 675-685).                               *)
Pieces == {"data", "end", "short"}
Followers == [prefix |-> {"text"}, header |-> Pieces, data |-> Pieces]

FramesIntact ==
  [][\A c \in Conns :
       (sent'[c] # sent[c] /\ sent[c].what \in DOMAIN Followers) =>
          /\ sent'[c].what \in Followers[sent[c].what]
          /\ sent'[c].by = sent[c].by]_vars

(* A client sees the log only from its "log on" to its "log off": an entry *)
(* taken over from a client that left does not stream to the next one      *)
(* (dash_remote.c:344-353, 484, 523).                                      *)
StreamsToSubscribers ==
  [][\A c \in Conns :
       (sent'[c] # sent[c] /\ sent'[c].what \in {"prefix", "text"}) => asked[c]]_vars

(* An accepted connection has one entry until the server closes it, and an *)
(* entry's descriptor is not closed: no socket leaks, none is used after   *)
(* it was closed (dash_remote.c:481-496, 517-524, 635-644).                *)
SocketsAccounted ==
  \A c \in Conns :
    Cardinality({i \in Ids : clients[i].fd = c})
      = (IF net[c] \in {"open", "shut"} THEN 1 ELSE 0)

(* The values, and what an entry is.                                       *)
RemoteInv == TypeOK /\ SocketsAccounted

(* Once a quit is asked for, the program ends: dash_remote_deinit gets its *)
(* thread and its mutex back (main.c:276-315, dash_remote.c:626-654).  The *)
(* one exception is a server that waits for the LVGL lock and never gets   *)
(* it, which the main loop takes again as soon as it has released it.      *)
QuitCompletes ==
  \/ quit ~> pc["ui"] = "off" \/ spc = "assert"
  \/ <>[](spc = "lvgl")

================================================================================
