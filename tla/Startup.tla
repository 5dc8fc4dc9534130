-------------------------------- MODULE Startup --------------------------------
(***************************************************************************)
(* Start-up and the settings: main.c and dash_main.c from power on to the  *)
(* interface, the settings' table (src/src/dash_database.c), their blob    *)
(* and its older versions (dash_settings.c), and the panel and the remote  *)
(* commands that change them (dash_settings_new.c, dash_remote.c).         *)
(*                                                                         *)
(* A blob holds groups of fields, one group for each version that added    *)
(* fields: base (v2), look (v3), server (v4) and net (v5).  SQLite commits *)
(* each statement, and power may be cut between any two.  dash_create runs *)
(* on the main thread, or on the rebuild thread under the LVGL lock, while *)
(* the progress thread writes to a label that dash_create's caller deletes. *)
(* The steps of the interface run under the same lock.                     *)
(***************************************************************************)
EXTENDS Naturals, Sequences

CONSTANTS
  Bases,       \* values of the fields of version 2
  DefaultBase, \* what dash_init sets them to
  Servers,     \* backup servers
  NoServer     \* the empty string

ASSUME StartupAssumption == DefaultBase \in Bases /\ NoServer \notin Servers

(* The look as dash_init sets it, as a migration does (the two differ in   *)
(* show_fps_overlay), or as the user likes it.                             *)
Looks    == {"init", "migrated", "own"}

(* All zero (memset, or a snapshot never taken), v5's default, or static.  *)
Nets     == {"zero", "dhcp", "static"}

Settings == [ base : Bases, look : Looks, server : Servers \cup {NoServer}, net : Nets ]
Blob     == [ version : 2..5, data : Settings ]
NoBlob   == [ version |-> 0 ]

VARIABLES
  table,    \* the settings' table: "absent", with "other" columns, or "ok"
  rows,     \* its rows, in the order SELECT finds them
  titles,   \* whether xbox_titles has rows
  config,   \* the server that the [backup] section of the TOML file names
  flag,     \* whether the file DASH_REBUILD_DB_FLAG exists
  pc,       \* how far the start has come; "up" is the running interface
  after,    \* where the settings' INSERT returns to: "override" or "up"
  settings, \* dash_settings
  fill,     \* need_game_rebuild
  complete, \* the progress thread's *complete, or "freed"
  progress, \* the progress thread: "none", about to "start", "look" or "write",
            \* or "lost" with a pointer that it read from freed memory
  label,    \* whether its label exists
  panel,    \* the settings panel: "closed", in "network" or "elsewhere"
  snapshot, \* net_snapshot
  applied,  \* net_applied
  saved,    \* history: the last blob that was written whole
  torn,     \* history: power was cut, or the program died, between the two statements
  unsaved,  \* history: a remote command changed what no apply has saved
  kept      \* history: the network settings as read at the start or applied

disk    == << table, rows, titles, config, flag >>
boot    == << fill, complete, progress, label >>
ui      == << panel, snapshot, applied >>
history == << saved, torn, unsaved, kept >>
vars    == << disk, pc, after, settings, boot, ui, history >>

Overridden(s) == [ s EXCEPT !.server = IF config = NoServer THEN @ ELSE config ]

(* dash_init, check_path_toml.                                             *)
Defaults == [ base |-> DefaultBase, look |-> "init", server |-> config, net |-> "zero" ]

(* No program, no settings.                                                *)
Blank == [ base |-> DefaultBase, look |-> "init", server |-> NoServer, net |-> "zero" ]

(* What dash_settings_read_callback makes of a blob, by its version.       *)
Migrated(b) ==
  [ base   |-> b.data.base,
    look   |-> IF b.version >= 3 THEN b.data.look   ELSE "migrated",
    server |-> IF b.version >= 4 THEN b.data.server ELSE NoServer,
    net    |-> IF b.version >= 5 THEN b.data.net    ELSE "dhcp" ]

(* SELECT ... LIMIT 1.                                                     *)
SettingsRead == IF rows = << >> THEN Defaults ELSE Migrated(rows[1])

Off ==
  /\ pc' = "off" /\ after' = "up" /\ settings' = Blank
  /\ fill' = FALSE /\ complete' = "freed" /\ progress' = "none" /\ label' = FALSE
  /\ panel' = "closed" /\ snapshot' = "zero" /\ applied' = FALSE
  /\ unsaved' = FALSE /\ kept' = "zero"

(* A console that has run an older version, or none, or whose table is not *)
(* the settings'.                                                          *)
Init ==
  /\ \/ table \in {"absent", "other"} /\ rows = << >> /\ saved = NoBlob
     \/ table = "ok" /\ \E b \in Blob : rows = << b >> /\ saved = b
  /\ titles \in BOOLEAN /\ config \in Servers \cup {NoServer} /\ flag \in BOOLEAN
  /\ pc = "off" /\ after = "up" /\ settings = Blank
  /\ fill = FALSE /\ complete = "freed" /\ progress = "none" /\ label = FALSE
  /\ panel = "closed" /\ snapshot = "zero" /\ applied = FALSE
  /\ torn = FALSE /\ unsaved = FALSE /\ kept = "zero"

(***************************************************************************)
(* main and dash_init.                                                     *)
(***************************************************************************)

SwitchOn ==
  /\ pc = "off"
  /\ pc' = IF flag THEN "remove" ELSE "check"
  /\ flag' = FALSE
  /\ settings' = Defaults
  /\ UNCHANGED << table, rows, titles, config, after, boot, ui, history >>

(* The flag is removed first, then the database.                           *)
RemoveDb ==
  /\ pc = "remove"
  /\ table' = "absent" /\ rows' = << >> /\ titles' = FALSE /\ saved' = NoBlob
  /\ pc' = "check"
  /\ UNCHANGED << config, flag, after, settings, boot, ui, torn, unsaved, kept >>

(* dash_init goes on by itself or leaves the rest to two threads.          *)
Proceed(rebuild) ==
  /\ pc' = IF rebuild THEN "rebuild" ELSE "create"
  /\ fill' = rebuild
  /\ complete' = IF rebuild THEN "no" ELSE complete
  /\ progress' = IF rebuild THEN "start" ELSE progress
  /\ label' = rebuild

(* db_init: a settings' table with other columns is dropped.               *)
CheckTables ==
  /\ pc = "check"
  /\ IF table = "ok"
     THEN /\ Proceed(~titles)
          /\ UNCHANGED << table, rows, saved >>
     ELSE /\ table' = "absent" /\ rows' = << >> /\ saved' = NoBlob
          /\ pc' = "table" /\ fill' = ~titles
          /\ UNCHANGED << complete, progress, label >>
  /\ UNCHANGED << titles, config, flag, after, settings, ui, torn, unsaved, kept >>

CreateTable ==
  /\ pc = "table"
  /\ table' = "ok"
  /\ Proceed(fill)
  /\ UNCHANGED << rows, titles, config, flag, after, settings, ui, history >>

(***************************************************************************)
(* db_rebuild_thread_f and db_rebuild_progress_thread_f.                   *)
(***************************************************************************)

(* Whoever saves, or runs dash_create, has the LVGL lock.                  *)
LockFree == pc \notin {"create", "delete", "insert", "override"}

RebuildInserts ==
  /\ pc = "rebuild"
  /\ titles' = TRUE
  /\ UNCHANGED << table, rows, config, flag, pc, after, settings, boot, ui, history >>

(* Mutant: the progress thread is not told.                                *)
RebuildDone_Silent ==
  /\ pc = "rebuild"
  /\ pc' = "rebuilt"
  /\ UNCHANGED << disk, after, settings, boot, ui, history >>

(* Mutant: the rebuild thread frees what it was given.                     *)
RebuildDone_Frees ==
  /\ pc = "rebuild"
  /\ complete' = "freed" /\ pc' = "rebuilt"
  /\ UNCHANGED << disk, after, settings, fill, progress, label, ui, history >>

RebuildDone ==
  /\ pc = "rebuild"
  /\ complete' = "yes" /\ pc' = "rebuilt"
  /\ UNCHANGED << disk, after, settings, fill, progress, label, ui, history >>

(* lv_obj_clean of the screen, under the lock that dash_create needs.      *)
CleanScreen ==
  /\ pc = "rebuilt"
  /\ label' = FALSE /\ pc' = "create"
  /\ UNCHANGED << disk, after, settings, fill, complete, progress, ui, history >>

(* The flag's address is label->user_data.  When the label has gone, that  *)
(* is read from freed memory: the program dies, or the address is still    *)
(* there, or another one is, whose contents never stop the thread.         *)
ProgressStarts ==
  /\ progress = "start"
  /\ \/ /\ progress' \in IF label THEN {"look"} ELSE {"look", "lost"}
        /\ UNCHANGED << disk, pc, after, settings, fill, complete, label, ui, history >>
     \/ ~label /\ Off /\ torn' = (torn \/ pc = "insert") /\ UNCHANGED << disk, saved >>

ProgressLooks ==
  /\ progress = "look"
  /\ IF complete = "yes"
     THEN complete' = "freed" /\ progress' = "none"
     ELSE progress' = "write" /\ UNCHANGED complete
  /\ UNCHANGED << disk, pc, after, settings, fill, label, ui, history >>

(* The label may be gone by now: the write then changes freed memory, of   *)
(* which the program dies, or not.                                         *)
ProgressWrites ==
  /\ progress \in {"write", "lost"} /\ LockFree
  /\ \/ /\ progress' = IF progress = "write" THEN "look" ELSE "lost"
        /\ UNCHANGED << disk, pc, after, settings, fill, complete, label, ui, history >>
     \/ ~label /\ Off /\ UNCHANGED << disk, saved, torn >>

(***************************************************************************)
(* dash_create and dash_settings_apply.                                    *)
(***************************************************************************)

(* dash_settings_read.  An older blob is replaced at once.                 *)
ReadSettings ==
  /\ pc = "create"
  /\ settings' = SettingsRead
  /\ pc' = IF rows # << >> /\ rows[1].version < 5 THEN "delete" ELSE "override"
  /\ after' = "override"
  /\ UNCHANGED << disk, boot, ui, history >>

(* Mutant: the old row stays.                                              *)
Delete_Keeps ==
  /\ pc = "delete"
  /\ pc' = "insert"
  /\ UNCHANGED << disk, after, settings, boot, ui, history >>

Delete ==
  /\ pc = "delete"
  /\ rows' = << >> /\ pc' = "insert"
  /\ UNCHANGED << table, titles, config, flag, after, settings, boot, ui, history >>

Insert ==
  /\ pc = "insert"
  /\ saved' = [ version |-> 5, data |-> settings ]
  /\ rows' = Append(rows, saved')
  /\ pc' = after /\ after' = "up"
  /\ torn' = FALSE /\ unsaved' = FALSE
  /\ UNCHANGED << table, titles, config, flag, settings, boot, ui, kept >>

(* Mutant: the blob is trusted to name the configured server.              *)
Override_Trusts ==
  /\ pc = "override"
  /\ kept' = settings.net
  /\ pc' = "up" /\ after' = "up"
  /\ UNCHANGED << disk, settings, boot, ui, saved, torn, unsaved >>

(* The configured server again, then the interface.                        *)
Override ==
  /\ pc = "override"
  /\ settings' = Overridden(settings)
  /\ kept' = settings.net
  /\ pc' = "up" /\ after' = "up"
  /\ UNCHANGED << disk, boot, ui, saved, torn, unsaved >>

(***************************************************************************)
(* The panel, the menu, and the remote commands, of which those that come  *)
(* before the interface is up are left out.                                *)
(***************************************************************************)

Apply == pc' = "delete" /\ after' = "up"

OpenPanel ==
  /\ pc = "up" /\ panel = "closed"
  /\ panel' = "elsewhere"
  /\ UNCHANGED << disk, pc, after, settings, boot, snapshot, applied, history >>

(* build_network runs whenever the section is shown: net_save_snapshot.    *)
EnterNetwork ==
  /\ pc = "up" /\ panel = "elsewhere"
  /\ panel' = "network"
  /\ snapshot' = settings.net /\ applied' = FALSE
  /\ UNCHANGED << disk, pc, after, settings, boot, history >>

LeaveNetwork ==
  /\ pc = "up" /\ panel = "network"
  /\ panel' = "elsewhere"
  /\ UNCHANGED << disk, pc, after, settings, boot, snapshot, applied, history >>

Edit ==
  /\ pc = "up"
  /\ \/ panel = "elsewhere" /\ \E v \in Bases : settings' = [ settings EXCEPT !.base = v ]
     \/ panel # "closed" /\ settings' = [ settings EXCEPT !.look = "own" ]
     \/ panel = "network" /\ \E v \in Nets : settings' = [ settings EXCEPT !.net = v ]
  /\ UNCHANGED << disk, pc, after, boot, ui, history >>

(* on_apply_network.                                                       *)
ApplyNetwork ==
  /\ pc = "up" /\ panel = "network"
  /\ applied' = TRUE /\ kept' = settings.net
  /\ Apply
  /\ UNCHANGED << disk, settings, boot, panel, snapshot, saved, torn, unsaved >>

(* settings_on_close: net_restore_snapshot, then dash_settings_apply.      *)
ClosePanel ==
  /\ pc = "up" /\ panel # "closed"
  /\ panel' = "closed"
  /\ settings' = [ settings EXCEPT !.net = IF applied THEN @ ELSE snapshot ]
  /\ Apply
  /\ UNCHANGED << disk, boot, snapshot, applied, history >>

(* dash_clear_recent sets earliest_recent_date.                            *)
ClearRecent ==
  /\ pc = "up" /\ panel = "closed"
  /\ \E v \in Bases : settings' = [ settings EXCEPT !.base = v ]
  /\ Apply
  /\ UNCHANGED << disk, boot, ui, history >>

(* "vsync on" and "vsync off", on the server's thread, without a lock;     *)
(* disable_vsync is counted as a part of the look.                         *)
RemoteVsync ==
  /\ pc \in {"up", "delete", "insert"} /\ after = "up"
  /\ settings' = [ settings EXCEPT !.look = "own" ]
  /\ unsaved' = TRUE
  /\ UNCHANGED << disk, pc, after, boot, ui, saved, torn, kept >>

(* "Mark Database Reset at Reboot", and "reload rebuild-db", which ends.   *)
ForgetTitles ==
  /\ pc = "up"
  /\ \/ titles' = FALSE /\ UNCHANGED << table, rows, config, flag, pc, after, settings, boot, ui, history >>
     \/ flag' = TRUE /\ Off /\ UNCHANGED << table, rows, titles, config, saved, torn >>

(***************************************************************************)
(* The world.                                                              *)
(***************************************************************************)

PowerCut ==
  /\ pc # "off" /\ Off
  /\ torn' = (torn \/ pc = "insert")
  /\ UNCHANGED << disk, saved >>

(* The TOML file is read only at the start.                                *)
Configure ==
  /\ pc = "off"
  /\ config' \in Servers \cup {NoServer}
  /\ UNCHANGED << table, rows, titles, flag, pc, after, settings, boot, ui, history >>

Progress == ProgressStarts \/ ProgressLooks \/ ProgressWrites
Program  ==
  \/ RemoveDb \/ CheckTables \/ CreateTable \/ RebuildDone \/ CleanScreen
  \/ ReadSettings \/ Delete \/ Insert \/ Override
User     ==
  \/ OpenPanel \/ EnterNetwork \/ LeaveNetwork \/ Edit \/ ApplyNetwork \/ ClosePanel
  \/ ClearRecent \/ RemoteVsync \/ ForgetTitles

Next == SwitchOn \/ Program \/ RebuildInserts \/ Progress \/ User \/ PowerCut \/ Configure

(* The threads run, and SDL's mutex lets each of them have the lock.       *)
Fairness ==
  /\ WF_vars(Program) /\ WF_vars(ProgressStarts) /\ WF_vars(ProgressLooks)
  /\ SF_vars(ProgressWrites)

Spec == Init /\ [][Next]_vars /\ Fairness

(***************************************************************************)
(* Properties.                                                             *)
(***************************************************************************)

FlagsOK ==
  /\ titles \in BOOLEAN /\ flag \in BOOLEAN /\ fill \in BOOLEAN /\ label \in BOOLEAN
  /\ applied \in BOOLEAN /\ torn \in BOOLEAN /\ unsaved \in BOOLEAN

(* Every variable has its type, and *complete is freed exactly when there  *)
(* is no progress thread to read it.                                       *)
StartTypeOK ==
  /\ FlagsOK
  /\ table \in {"absent", "other", "ok"} /\ rows \in Seq(Blob)
  /\ config \in Servers \cup {NoServer}
  /\ pc \in {"off", "remove", "check", "table", "rebuild", "rebuilt",
             "create", "delete", "insert", "override", "up"}
  /\ after \in {"override", "up"}
  /\ settings \in Settings
  /\ complete \in {"no", "yes", "freed"} /\ progress \in {"none", "start", "look", "write", "lost"}
  /\ panel \in {"closed", "network", "elsewhere"}
  /\ snapshot \in Nets /\ kept \in Nets
  /\ saved \in Blob \cup {NoBlob}
  /\ complete = "freed" <=> progress = "none"
  /\ pc = "rebuild" => complete = "no"

(* However often the settings are changed, saved, migrated or cut off, the *)
(* table has the last blob that was written whole and no other: only an    *)
(* end between dash_settings_apply's DELETE and INSERT (dash_settings.c:174) *)
(* loses it, and then nothing older comes back.                            *)
SettingsAreKept ==
  table = "ok" =>
    \/ rows = << saved >>
    \/ rows = << >> /\ (saved = NoBlob \/ torn \/ pc = "insert")

(* What the dashboard runs with is what it would read after a restart, as  *)
(* long as no panel is open and no remote command has changed it behind    *)
(* the table's back: also after a migration, whose blob is written before  *)
(* the configured server is put in again (dash_main.c:719).                *)
MemoryIsSaved ==
  pc = "up" /\ panel = "closed" /\ ~unsaved =>
    settings = Overridden(IF rows = << >> THEN Defaults ELSE Migrated(rows[1]))

(* What makes the two properties above inductive: where the table is known *)
(* to be there, what is in memory between the read of the settings and     *)
(* their being saved, and that the configured server is in it afterwards.  *)
StartInv ==
  /\ SettingsAreKept
  /\ MemoryIsSaved
  /\ table # "ok" => rows = << >> /\ saved = NoBlob
  /\ pc \notin {"off", "remove", "check", "table"} => table = "ok"
  /\ pc \in {"remove", "check", "table", "rebuild", "rebuilt", "create"} => settings = Defaults
  /\ pc \notin {"delete", "insert", "override"} => after = "up"
  /\ pc = "insert" => rows = << >>
  /\ pc = "override" => settings = IF rows = << >> THEN Defaults ELSE Migrated(rows[1])
  /\ pc \in {"up", "delete", "insert"} /\ after = "up" => settings = Overridden(settings)

(* Every start ends in the interface with the progress thread gone, unless *)
(* the console is off again (or a late use of the label has ended it), or  *)
(* that thread came to look for its flag only when the label had gone      *)
(* (dash_main.c:173).                                                      *)
BootEnds ==
  pc = "check" ~> (pc = "up" /\ progress \in {"none", "lost"}) \/ pc = "off"

(* "Restore unapplied network changes before saving",                      *)
(* dash_settings_new.c:796: closing the panel leaves the network settings  *)
(* that were read or applied.                                              *)
UnappliedNetIsDropped == [][ClosePanel => settings'.net = kept]_vars
================================================================================
