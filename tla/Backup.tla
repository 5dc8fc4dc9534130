--------------------------------- MODULE Backup ---------------------------------
(***************************************************************************)
(* The save backup: the console (BackupClient) and the server              *)
(* (BackupServer) over connections that break (BackupWire).                *)
(***************************************************************************)
EXTENDS BackupClient, BackupServer

allVars == << wireVars, clientVars, serverVars >>

BackupInit == WireInit /\ ClientInit /\ ServerInit

Client  == ClientStep /\ UNCHANGED serverVars
Threads == (ScanStep \/ ThreadStep) /\ UNCHANGED serverVars
Server  == ServerStep /\ UNCHANGED clientVars
Network == (\E k \in Conns : Lose(k)) /\ UNCHANGED << clientVars, serverVars >>

BackupNext == Client \/ Server \/ Network

BackupSpec == BackupInit /\ [][BackupNext]_allVars

(* The threads of both sides are scheduled.                                *)
BackupFairSpec == BackupSpec /\ WF_allVars(Threads) /\ WF_allVars(Server)

(***************************************************************************)
(* Properties.                                                             *)
(***************************************************************************)

(* Every variable holds a value of its type.                               *)
BackupTypeOK ==
  /\ disk \in [Files -> 0..MaxVersion] /\ cache \in [Files -> 0..MaxVersion]
  /\ manifest \in [Files -> 0..MaxVersion]
  /\ idx \in 1..(Cardinality(Files) + 1) /\ pos.at \in 0..Chunks
  /\ Len(needs) <= Cardinality(Files) /\ Len(session.needs) <= Cardinality(Files)
  /\ state \in Busy \cup {"IDLE", "DONE", "FAILED"}
  /\ \A f \in Files :
       latest[f].mtime \in -1..MaxVersion /\ temp[f].mtime \in -1..MaxVersion

Promotes(k) == hpc[k] = "files" /\ hpc'[k] = "gone" /\ Gets(k, "DONE")

(* A backup that began with a manifest and came to its end leaves every    *)
(* save the manifest listed as it is, whole, in the snapshot: neither what *)
(* is left in temp by earlier connections nor what the last snapshot says  *)
(* makes it miss one (backup_server.py:137-200, 373-423).  It takes the    *)
(* saves to stay as they are, and the connections not to overlap.          *)
FreshBackupIsComplete ==
  [][\A k \in Conns :
       Promotes(k) =>
         \A f \in Files :
           mtimes[k][f] = disk[f] /\ disk[f] > 0 =>
             latest'[f].data = Whole(disk[f])]_allVars

(* The server's offset never leaves a hole: a resumed file is continued    *)
(* where the server's copy ends (backup_server.py:125-135, 235-238).       *)
ResumesWithoutHole ==
  \A k \in Conns :
    hpc[k] = "data" /\ There(temp[recv[k].file]) =>
      recv[k].pos <= Len(temp[recv[k].file].data)

(* The values, and what a transfer may rely on at either side.             *)
BackupInv == BackupTypeOK /\ ResumesWithoutHole

(* "partial file always resumes first" (dash_backup.c:8): the transfer     *)
(* forgets the partial file after the first it sends, so through aborts,   *)
(* crashes and boots the one remembered must be the first needed.          *)
PartialResumesFirst ==
  on /\ bpc = "transfer" /\ part.path # Junk =>
    idx = 1 /\ needs # << >> /\ part.path = Head(needs)

(* A backup ends: done, idle or failed, with no reply waited for in vain   *)
(* (dash_backup.c:432-586).                                                *)
BackupEnds == state \in Busy ~> state \notin Busy \/ ~on

================================================================================
