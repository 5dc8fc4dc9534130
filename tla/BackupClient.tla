------------------------------ MODULE BackupClient ------------------------------
(***************************************************************************)
(* The backup client, src/src/dash_backup.c: the scan thread, the transfer *)
(* thread, and what they keep on the console's disk between two boots.     *)
(*                                                                         *)
(* At most one transfer thread runs.  The saves change only while a game   *)
(* runs, that is while the dashboard does not.                             *)
(***************************************************************************)
EXTENDS BackupWire

CONSTANTS
  Played,    \* the saves that games change and delete
  MayAbort,  \* whether the dashboard quits or launches during a backup
  MayCrash   \* whether the console is switched off

ASSUME ClientAssumption ==
  Played \subseteq Files /\ MayAbort \in BOOLEAN /\ MayCrash \in BOOLEAN

VARIABLES
  disk,      \* disk[f]: the version of the save, 0 when there is none
  session,   \* DASH_BACKUP_SESSION_PATH: the need list that is left
  cache,     \* DASH_BACKUP_MANIFEST_CACHE_PATH
  on,        \* whether the dashboard runs
  scan,      \* the scan thread: "todo", "save" or "done"
  manifest,  \* manifest[f]: the version listed, 0 when the file is not
  ready,     \* manifest_ready
  bpc,       \* where the transfer thread is, "off" when there is none
  state,     \* what the user sees: the backup_state_t
  synced,    \* last_backup_synced
  aborting,  \* abort_requested
  needs,     \* need_list
  part,      \* partial_path and partial_offset
  idx,       \* the local i: needs[idx] is next or being sent
  pos        \* in send_file, how far; and the offset it started at

diskVars   == << disk, session, cache >>
threadVars == << bpc, state, synced, aborting, needs, part, idx, pos >>
clientVars == << disk, session, cache, on, scan, manifest, ready, bpc, state, synced,
                 aborting, needs, part, idx, pos >>

NoSession == [path |-> Junk, off |-> 0, needs |-> << >>]
NoPart    == [path |-> Junk, off |-> 0]
NoSaves   == [f \in Files |-> 0]
Busy      == {"CONNECTING", "SCANNING", "TRANSFERRING"}

ClientInit ==
  /\ disk \in [Files -> Versions] /\ \A f \in Played : disk[f] = 1
  /\ session = NoSession /\ cache = NoSaves
  /\ on = FALSE
  /\ scan = "todo" /\ manifest = NoSaves /\ ready = FALSE
  /\ bpc = "off" /\ state = "IDLE" /\ synced = FALSE /\ aborting = FALSE
  /\ needs = << >> /\ part = NoPart /\ idx = 1 /\ pos = [at |-> 0, from |-> 0]

(***************************************************************************)
(* The console.                                                            *)
(***************************************************************************)

(* dash_backup_init: a cached manifest that is not empty is ready at once. *)
Boot ==
  /\ ~on
  /\ on' = TRUE
  /\ manifest' = cache /\ ready' = (cache # NoSaves)
  /\ UNCHANGED << diskVars, scan, threadVars, wireVars >>

(* The dashboard ends, whatever its threads do: its memory is gone, its    *)
(* connection breaks.                                                      *)
SwitchOff ==
  /\ on /\ (MayCrash \/ aborting)
  /\ on' = FALSE
  /\ scan' = "todo" /\ manifest' = NoSaves /\ ready' = FALSE
  /\ bpc' = "off" /\ state' = "IDLE" /\ synced' = FALSE /\ aborting' = FALSE
  /\ needs' = << >> /\ part' = NoPart /\ idx' = 1 /\ pos' = [at |-> 0, from |-> 0]
  /\ IF conn > 0 /\ link[conn] = "open" THEN Lose(conn) ELSE UNCHANGED wireVars
  /\ UNCHANGED diskVars

Play(f) ==
  /\ ~on /\ f \in Played /\ disk[f] > 0
  /\ \E v \in {disk[f] + 1, 0} \ {MaxVersion + 1} : disk' = [disk EXCEPT ![f] = v]
  /\ UNCHANGED << session, cache, on, scan, manifest, ready, threadVars, wireVars >>

(***************************************************************************)
(* The scan thread; the scan holds manifest_mutex throughout.              *)
(***************************************************************************)
ScanSaves ==
  /\ on /\ scan = "todo"
  /\ manifest' = disk
  /\ scan' = "save"
  /\ UNCHANGED << diskVars, on, ready, threadVars, wireVars >>

ScanDone ==
  /\ on /\ scan = "save"
  /\ cache' = manifest
  /\ ready' = TRUE
  /\ scan'  = "done"
  /\ UNCHANGED << disk, session, on, manifest, threadVars, wireVars >>

(***************************************************************************)
(* dash_backup_start, and dash_backup_abort: main() calls it when the main *)
(* loop has ended, so nothing starts a backup after it.                    *)
(***************************************************************************)
Start ==
  /\ on /\ ~aborting /\ bpc = "off" /\ state \notin Busy /\ conn < MaxConns
  /\ aborting' = FALSE
  /\ bpc' = "connect" /\ state' = "CONNECTING"
  /\ UNCHANGED << diskVars, on, scan, manifest, ready, synced, needs, part, idx, pos,
                  wireVars >>

Abort ==
  /\ on /\ MayAbort /\ ~aborting
  /\ aborting' = TRUE
  /\ UNCHANGED << diskVars, on, scan, manifest, ready, bpc, state, synced, needs, part,
                  idx, pos, wireVars >>

(***************************************************************************)
(* backup_thread_fn: the helpers.                                          *)
(***************************************************************************)
Linked  == link[conn] = "open"
Says(m) == [c2s EXCEPT ![conn] = IF Linked THEN Append(@, m) ELSE @]
Hears(t) == s2c[conn] # << >> /\ Head(s2c[conn]).t = t
Heard   == [s2c EXCEPT ![conn] = Tail(@)]
Closed  == [link EXCEPT ![conn] = IF Linked THEN "closed" ELSE @]

SavedFrom(i, off) ==
  [path |-> needs[i], off |-> off, needs |-> SubSeq(needs, i, Len(needs))]

(* The thread's last step, closing its connection.                         *)
End(s) == bpc' = "off" /\ state' = s /\ link' = Closed

Fail ==
  /\ End("FAILED")
  /\ UNCHANGED << conn, c2s, s2c, diskVars, on, scan, manifest, ready, synced, aborting,
                  needs, part, idx, pos >>

(* The label abort: n files are done, and what is left is remembered.      *)
EndAborted(n) ==
  /\ c2s' = Says([t |-> "ABORT"])
  /\ session' = IF n < Len(needs) THEN SavedFrom(n + 1, 0) ELSE session
  /\ End("IDLE")
  /\ UNCHANGED << conn, s2c, disk, cache, on, scan, manifest, ready, synced, aborting,
                  needs, part, idx, pos >>

ClearSession == session' = NoSession /\ part' = NoPart /\ needs' = << >>

Here(p) == on /\ bpc = p

(***************************************************************************)
(* backup_thread_fn: the negotiation.                                      *)
(***************************************************************************)
Unreachable ==
  /\ Here("connect")
  /\ bpc' = "off" /\ state' = "FAILED"
  /\ UNCHANGED << diskVars, on, scan, manifest, ready, synced, aborting, needs, part, idx,
                  pos, wireVars >>

Connect ==
  /\ Here("connect") /\ ~aborting
  /\ conn' = conn + 1
  /\ link' = [link EXCEPT ![conn + 1] = "open"]
  /\ IF session = NoSession
     THEN /\ bpc' = "manifest" /\ state' = "SCANNING"
          /\ UNCHANGED << needs, part, c2s >>
     ELSE /\ bpc' = "go" /\ needs' = session.needs
          /\ part' = [path |-> session.path, off |-> session.off]
          /\ c2s' = [c2s EXCEPT ![conn + 1] = << [t |-> "RESUME", path |-> session.path] >>]
          /\ UNCHANGED state
  /\ UNCHANGED << s2c, diskVars, on, scan, manifest, ready, synced, aborting, idx, pos >>

RecvGo ==
  /\ Here("go")
  /\ \/ /\ Hears("GO")
        /\ part' = [part EXCEPT !.off = Head(s2c[conn]).off]
        /\ bpc' = "transfer" /\ state' = "TRANSFERRING" /\ idx' = 1
        /\ UNCHANGED << session, needs >>
     \/ /\ Hears("NEW")
        /\ ClearSession
        /\ bpc' = "manifest" /\ state' = "SCANNING"
        /\ UNCHANGED idx
  /\ s2c' = Heard
  /\ UNCHANGED << conn, link, c2s, disk, cache, on, scan, manifest, ready, synced, aborting,
                  pos >>

SendManifest ==
  /\ Here("manifest") /\ ~aborting /\ ready
  /\ c2s' = Says([t |-> "MANIFEST", entries |-> manifest])
  /\ bpc' = "need"
  /\ UNCHANGED << conn, link, s2c, diskVars, on, scan, manifest, ready, state, synced,
                  aborting, needs, part, idx, pos >>

RecvNothingNeeded ==
  /\ Here("need") /\ Hears("NEED") /\ Head(s2c[conn]).files = << >>
  /\ c2s' = Says([t |-> "DONE"])
  /\ s2c' = Heard
  /\ synced' = TRUE
  /\ End("DONE") /\ ClearSession
  /\ UNCHANGED << conn, disk, cache, on, scan, manifest, ready, aborting, idx, pos >>

(* Receiving the list stops at an abort: the entries behind it are what    *)
(* malloc returned.                                                        *)
RecvNeed ==
  /\ Here("need") /\ Hears("NEED") /\ Head(s2c[conn]).files # << >>
  /\ LET s == Head(s2c[conn]).files IN
       IF aborting
       THEN \E n \in 0..Len(s) :
              needs' = [i \in DOMAIN s |-> IF i <= n THEN s[i] ELSE Junk]
       ELSE needs' = s
  /\ s2c' = Heard
  /\ part' = NoPart
  /\ bpc' = IF aborting THEN "stop" ELSE "transfer"
  /\ state' = IF aborting THEN state ELSE "TRANSFERRING"
  /\ idx' = 1
  /\ UNCHANGED << conn, link, c2s, diskVars, on, scan, manifest, ready, synced, aborting,
                  pos >>

(* Mutant: a need list that does not come is waited for.                   *)
RecvFails_Waits ==
  /\ on /\ bpc = "go" /\ ~Linked /\ s2c[conn] = << >>
  /\ Fail

(* recv_line fails when the connection is lost.                            *)
RecvFails ==
  /\ on /\ bpc \in {"go", "need"} /\ ~Linked /\ s2c[conn] = << >>
  /\ Fail

(***************************************************************************)
(* backup_thread_fn: the transfer.                                         *)
(***************************************************************************)
(* Mutant: the partial file is remembered on.                              *)
NextFile_KeepsPart == idx' = idx + 1 /\ bpc' = "transfer" /\ UNCHANGED part

NextFile == idx' = idx + 1 /\ part' = NoPart /\ bpc' = "transfer"

(* send_file for a path that cannot be resolved, or a file that cannot be  *)
(* opened.                                                                 *)
SkipFile ==
  /\ Here("transfer") /\ ~aborting /\ idx <= Len(needs)
  /\ \/ needs[idx] = Junk /\ UNCHANGED c2s
     \/ /\ needs[idx] # Junk /\ disk[needs[idx]] = 0
        /\ c2s' = Says([t |-> "FILE", path |-> needs[idx], size |-> 0, off |-> 0])
  /\ NextFile
  /\ UNCHANGED << conn, link, s2c, diskVars, on, scan, manifest, ready, state, synced,
                  aborting, needs, pos >>

OpenFile ==
  LET f   == needs[idx]
      off == IF part.path = f /\ part.off <= Chunks THEN part.off ELSE 0
  IN
  /\ Here("transfer") /\ ~aborting /\ idx <= Len(needs)
  /\ f # Junk /\ disk[f] > 0
  /\ c2s' = Says([t |-> "FILE", path |-> f, size |-> Chunks - off, off |-> off])
  /\ pos' = [at |-> off, from |-> off]
  /\ bpc' = "send"
  /\ UNCHANGED << conn, link, s2c, diskVars, on, scan, manifest, ready, state, synced,
                  aborting, needs, part, idx >>

SendChunk ==
  /\ Here("send") /\ ~aborting /\ pos.at < Chunks /\ Linked
  /\ c2s' = Says([t |-> "data", v |-> disk[needs[idx]]])
  /\ pos' = [pos EXCEPT !.at = @ + 1]
  /\ UNCHANGED << conn, link, s2c, diskVars, on, scan, manifest, ready, bpc, state, synced,
                  aborting, needs, part, idx >>

FileSent ==
  /\ Here("send") /\ ~aborting /\ pos.at = Chunks
  /\ NextFile
  /\ UNCHANGED << wireVars, diskVars, on, scan, manifest, ready, state, synced, aborting,
                  needs, pos >>

(* send_file returns false, for a lost connection or an abort: the session *)
(* is saved with the offset the file was started at.                       *)
SendFails ==
  /\ Here("send") /\ (aborting \/ (pos.at < Chunks /\ ~Linked))
  /\ session' = SavedFrom(idx, pos.from)
  /\ End("FAILED")
  /\ UNCHANGED << conn, c2s, s2c, disk, cache, on, scan, manifest, ready, synced, aborting,
                  needs, part, idx, pos >>

SendDone ==
  /\ Here("transfer") /\ ~aborting /\ idx > Len(needs)
  /\ c2s' = Says([t |-> "DONE"])
  /\ synced' = TRUE
  /\ bpc' = "ok"
  /\ UNCHANGED << conn, link, s2c, diskVars, on, scan, manifest, ready, state, aborting,
                  needs, part, idx, pos >>

(* With or without the server's answer the backup is done.                 *)
RecvOk ==
  /\ Here("ok") /\ (Hears("OK") \/ ~Linked)
  /\ End("DONE") /\ ClearSession
  /\ s2c' = [s2c EXCEPT ![conn] = << >>]
  /\ UNCHANGED << conn, c2s, disk, cache, on, scan, manifest, ready, synced, aborting, idx,
                  pos >>

(* The abort is noticed: before the manifest, after it, after the list, or *)
(* between two files.                                                      *)
AbortNoticed ==
  /\ on /\ aborting
  /\ \/ bpc \in {"manifest", "stop"} /\ EndAborted(0)
     \/ bpc = "transfer" /\ EndAborted(idx - 1)

(* An abort in the middle of the manifest: the server gets some of it.     *)
ManifestAborted ==
  /\ Here("manifest") /\ aborting /\ ready
  /\ \E S \in SUBSET Files :
       c2s' = Says([t |-> "MANIFEST",
                    entries |-> [f \in Files |-> IF f \in S THEN manifest[f] ELSE 0]])
  /\ bpc' = "stop"
  /\ UNCHANGED << conn, link, s2c, diskVars, on, scan, manifest, ready, state, synced,
                  aborting, needs, part, idx, pos >>

Negotiate ==
  Unreachable \/ Connect \/ RecvGo \/ SendManifest \/ RecvNothingNeeded \/ RecvNeed
    \/ RecvFails

Transfer ==
  SkipFile \/ OpenFile \/ SendChunk \/ FileSent \/ SendFails \/ SendDone \/ RecvOk
    \/ AbortNoticed \/ ManifestAborted

ScanStep   == ScanSaves \/ ScanDone
ThreadStep == Negotiate \/ Transfer
ClientStep ==
  Boot \/ SwitchOff \/ (\E f \in Files : Play(f)) \/ Start \/ Abort \/ ScanStep \/ ThreadStep

================================================================================
