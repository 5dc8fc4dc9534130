------------------------------- MODULE BackupWire -------------------------------
(***************************************************************************)
(* The connections between the console's backup client (dash_backup.c) and *)
(* the backup server (tools/backup_server.py), and the saves they are      *)
(* about.                                                                  *)
(*                                                                         *)
(* A save file is a sequence of chunks, each written by some version of    *)
(* the game's progress; a version writes the whole file anew, with a new   *)
(* mtime.  A connection is a pair of first-in first-out channels that may  *)
(* break at any time, losing any part of what is under way.                *)
(***************************************************************************)
EXTENDS Integers, Sequences, SequencesExt, FiniteSetsExt

CONSTANTS
  Files,       \* the paths of the save files
  Junk,        \* what an uninitialized entry of need_list reads as
  Chunks,      \* the length of every save file
  MaxVersion,  \* bound on the versions of a save
  MaxConns     \* bound on the connections

ASSUME WireAssumption ==
  /\ IsFiniteSet(Files) /\ Junk \notin Files
  /\ Chunks \in Nat \ {0} /\ MaxVersion \in Nat \ {0} /\ MaxConns \in Nat

Versions == 1..MaxVersion
Conns    == 1..MaxConns

(* The content of a save as its version v wrote it.                        *)
Whole(v) == [i \in 1..Chunks |-> v]

VARIABLES
  conn,  \* how many connections were made: the last one is the client's
  link,  \* link[k]: "unused", "open", "closed" by the client, or "lost"
  c2s,   \* c2s[k]: the messages under way to the server
  s2c    \* s2c[k]: the messages under way to the client

wireVars == << conn, link, c2s, s2c >>

WireInit ==
  /\ conn = 0
  /\ link = [k \in Conns |-> "unused"]
  /\ c2s  = [k \in Conns |-> << >>]
  /\ s2c  = [k \in Conns |-> << >>]

(* A connection breaks: a part of what is under way still arrives.         *)
Lose(k) ==
  /\ link[k] \in {"open", "closed"}
  /\ link' = [link EXCEPT ![k] = "lost"]
  /\ \E n \in 0..Len(c2s[k]) : c2s' = [c2s EXCEPT ![k] = SubSeq(@, 1, n)]
  /\ s2c' = [s2c EXCEPT ![k] = << >>]
  /\ UNCHANGED conn

================================================================================
