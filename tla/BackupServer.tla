------------------------------ MODULE BackupServer ------------------------------
(***************************************************************************)
(* The backup server, src/tools/backup_server.py: one thread per           *)
(* connection, all of them working on one temp directory, one session file *)
(* (it is named for the console's address) and the latest snapshot.        *)
(***************************************************************************)
EXTENDS BackupWire

CONSTANTS
  Spaced,   \* the files whose path has a space in it
  Overlap   \* whether a connection may begin while an older one is served

ASSUME ServerAssumption == Spaced \subseteq Files /\ Overlap \in BOOLEAN

VARIABLES
  latest,  \* the newest snapshot: for each path its data and mtime
  temp,    \* temp/: likewise
  saved,   \* whether sessions/<session_id>.json exists
  hpc,     \* hpc[k]: where the thread of connection k is
  mtimes,  \* mtimes[k]: its manifest_mtimes, 0 for a path it does not know
  recv     \* recv[k]: the file it receives: name, bytes to come, position

serverVars == << latest, temp, saved, hpc, mtimes, recv >>

(* A missing file has the mtime -1; a file without its console's mtime has *)
(* the time it was received, 0, which is no version's.                     *)
Missing == [data |-> << >>, mtime |-> -1]
There(e) == e.mtime # -1

NoMtimes == [f \in Files |-> 0]

ServerInit ==
  /\ latest = [f \in Files |-> Missing]
  /\ temp   = [f \in Files |-> Missing]
  /\ saved  = FALSE
  /\ hpc    = [k \in Conns |-> "none"]
  /\ mtimes = [k \in Conns |-> NoMtimes]
  /\ recv   = [k \in Conns |-> [file |-> Junk, left |-> 0, pos |-> 0]]

Gets(k, t) == c2s[k] # << >> /\ Head(c2s[k]).t = t
Taken(k)   == [c2s EXCEPT ![k] = Tail(@)]
Reply(k, m) == [s2c EXCEPT ![k] = IF link[k] = "open" THEN Append(@, m) ELSE @]

Serve(k) ==
  /\ hpc[k] = "none" /\ link[k] # "unused"
  /\ Overlap \/ \A j \in 1..(k - 1) : hpc[j] \in {"gone", "crashed"}
  /\ hpc' = [hpc EXCEPT ![k] = "first"]
  /\ UNCHANGED << wireVars, latest, temp, saved, mtimes, recv >>

(***************************************************************************)
(* _handle_resume.  The line is split at its spaces: a path that has one   *)
(* leaves no number as the offset, and the exception ends the thread.      *)
(***************************************************************************)
ResumeFails(k) ==
  /\ hpc[k] = "first" /\ Gets(k, "RESUME")
  /\ Head(c2s[k]).path \in Spaced
  /\ hpc'  = [hpc EXCEPT ![k] = "crashed"]
  /\ link' = [link EXCEPT ![k] = "lost"]
  /\ c2s'  = [c2s EXCEPT ![k] = << >>]
  /\ UNCHANGED << conn, s2c, latest, temp, saved, mtimes, recv >>

Resume(k) ==
  LET p == Head(c2s[k]).path IN
  /\ hpc[k] = "first" /\ Gets(k, "RESUME") /\ p \notin Spaced
  /\ c2s' = Taken(k)
  /\ IF saved
     THEN /\ s2c' = Reply(k, [t |-> "GO",
                              off |-> IF p \in Files THEN Len(temp[p].data) ELSE 0])
          /\ hpc' = [hpc EXCEPT ![k] = "files"]
     ELSE /\ s2c' = Reply(k, [t |-> "NEW"])
          /\ hpc' = [hpc EXCEPT ![k] = "renew"]
  /\ UNCHANGED << conn, link, latest, temp, saved, mtimes, recv >>

(***************************************************************************)
(* _handle_manifest: what differs from the latest snapshot is needed,      *)
(* newest first.                                                           *)
(***************************************************************************)
Differs(f, v) ==
  \/ ~There(latest[f])
  \/ Len(latest[f].data) # Chunks
  \/ latest[f].mtime # v

Manifest(k) ==
  LET m    == Head(c2s[k]).entries
      need == {f \in Files : m[f] > 0 /\ Differs(f, m[f])}
  IN
  /\ hpc[k] \in {"first", "renew"} /\ Gets(k, "MANIFEST")
  /\ c2s' = Taken(k)
  /\ \E s \in SetToSeqs(need) :
       /\ \A i, j \in DOMAIN s : i < j => m[s[i]] >= m[s[j]]
       /\ s2c' = Reply(k, [t |-> "NEED", files |-> s])
  /\ saved'  = TRUE
  /\ mtimes' = [mtimes EXCEPT ![k] = m]
  /\ hpc'    = [hpc EXCEPT ![k] = "files"]
  /\ UNCHANGED << conn, link, latest, temp, recv >>

(* After NEW, anything but a manifest is dropped.                          *)
NoManifest(k) ==
  /\ hpc[k] = "renew" /\ c2s[k] # << >> /\ ~Gets(k, "MANIFEST")
  /\ c2s' = Taken(k)
  /\ hpc' = [hpc EXCEPT ![k] = "files"]
  /\ UNCHANGED << conn, link, s2c, latest, temp, saved, mtimes, recv >>

(***************************************************************************)
(* _receive_file.                                                          *)
(***************************************************************************)

(* When a file is complete it gets its mtime, if this connection's         *)
(* manifest told it; otherwise it keeps the one it has.                    *)
Stamped(k, f, e) ==
  IF mtimes[k][f] > 0 THEN [e EXCEPT !.mtime = mtimes[k][f]] ELSE e

(* Mutant: a file is opened anew although it is resumed.                   *)
FileHeader_Truncates(k) ==
  LET m == Head(c2s[k])
      e == [data |-> << >>, mtime |-> 0]
  IN
  /\ hpc[k] = "files" /\ Gets(k, "FILE")
  /\ c2s'  = Taken(k)
  /\ temp' = [temp EXCEPT ![m.path] = IF m.size = 0 THEN Stamped(k, m.path, e) ELSE e]
  /\ recv' = [recv EXCEPT ![k] = [file |-> m.path, left |-> m.size, pos |-> m.off]]
  /\ hpc'  = [hpc EXCEPT ![k] = IF m.size > 0 THEN "data" ELSE "files"]
  /\ UNCHANGED << conn, link, s2c, latest, saved, mtimes >>

FileHeader(k) ==
  LET m == Head(c2s[k])
      e == IF m.off > 0 /\ There(temp[m.path])
           THEN temp[m.path] ELSE [data |-> << >>, mtime |-> 0]
  IN
  /\ hpc[k] = "files" /\ Gets(k, "FILE")
  /\ c2s'  = Taken(k)
  /\ temp' = [temp EXCEPT ![m.path] = IF m.size = 0 THEN Stamped(k, m.path, e) ELSE e]
  /\ recv' = [recv EXCEPT ![k] = [file |-> m.path, left |-> m.size, pos |-> m.off]]
  /\ hpc'  = [hpc EXCEPT ![k] = IF m.size > 0 THEN "data" ELSE "files"]
  /\ UNCHANGED << conn, link, s2c, latest, saved, mtimes >>

(* Writing beyond the end leaves a hole of zeros.                          *)
Written(data, pos, v) ==
  [i \in 1..Max({Len(data), pos + 1}) |->
     IF i = pos + 1 THEN v ELSE IF i \in DOMAIN data THEN data[i] ELSE 0]

FileData(k) ==
  LET r == recv[k]
      e == [data |-> Written(temp[r.file].data, r.pos, Head(c2s[k]).v), mtime |-> 0]
  IN
  /\ hpc[k] = "data" /\ Gets(k, "data")
  /\ c2s'  = Taken(k)
  /\ temp' = [temp EXCEPT ![r.file] = IF r.left = 1 THEN Stamped(k, r.file, e) ELSE e]
  /\ recv' = [recv EXCEPT ![k].left = @ - 1, ![k].pos = @ + 1]
  /\ hpc'  = [hpc EXCEPT ![k] = IF r.left = 1 THEN "files" ELSE "data"]
  /\ UNCHANGED << conn, link, s2c, latest, saved, mtimes >>

(***************************************************************************)
(* _promote_snapshot: temp over a copy of the latest snapshot.             *)
(***************************************************************************)
(* Mutant: the snapshot is made of temp alone.                             *)
Done_ForgetsOld(k) ==
  /\ hpc[k] = "files" /\ Gets(k, "DONE")
  /\ latest' = temp
  /\ temp'   = [f \in Files |-> Missing]
  /\ saved'  = FALSE
  /\ s2c'    = Reply(k, [t |-> "OK"])
  /\ c2s'    = Taken(k)
  /\ hpc'    = [hpc EXCEPT ![k] = "gone"]
  /\ UNCHANGED << conn, link, mtimes, recv >>

Done(k) ==
  /\ hpc[k] = "files" /\ Gets(k, "DONE")
  /\ latest' = [f \in Files |-> IF There(temp[f]) THEN temp[f] ELSE latest[f]]
  /\ temp'   = [f \in Files |-> Missing]
  /\ saved'  = FALSE
  /\ s2c'    = Reply(k, [t |-> "OK"])
  /\ c2s'    = Taken(k)
  /\ hpc'    = [hpc EXCEPT ![k] = "gone"]
  /\ UNCHANGED << conn, link, mtimes, recv >>

(* As the first line of a connection, an abort is an unknown command.      *)
AbortLine(k) ==
  /\ hpc[k] \in {"first", "files"} /\ Gets(k, "ABORT")
  /\ saved' = (saved \/ hpc[k] = "files")
  /\ c2s'   = Taken(k)
  /\ hpc'   = [hpc EXCEPT ![k] = "gone"]
  /\ UNCHANGED << conn, link, s2c, latest, temp, mtimes, recv >>

(* The end of the connection; in a file, the session is saved.             *)
Eof(k) ==
  /\ hpc[k] \in {"first", "renew", "files", "data"}
  /\ c2s[k] = << >> /\ link[k] # "open"
  /\ saved' = (saved \/ hpc[k] = "data")
  /\ hpc'   = [hpc EXCEPT ![k] = "gone"]
  /\ UNCHANGED << wireVars, latest, temp, mtimes, recv >>

ServerStep ==
  \E k \in Conns :
    \/ Serve(k) \/ ResumeFails(k) \/ Resume(k) \/ Manifest(k) \/ NoManifest(k)
    \/ FileHeader(k) \/ FileData(k) \/ Done(k) \/ AbortLine(k) \/ Eof(k)

================================================================================
