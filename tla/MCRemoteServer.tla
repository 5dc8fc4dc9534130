---------------------------- MODULE MCRemoteServer ----------------------------
(* Model checking RemoteServer: more connections than entries, so that an  *)
(* entry is used again, and one other thread besides the main one.         *)
EXTENDS RemoteServer

CONSTANTS c1, c2

OneConn  == {c1}
TwoConns == {c1, c2}
OneWorker == {"scan"}

AllButQuit  == {"logon", "logoff", "screenshot", "key"}
KeyAndQuit  == {"logon", "key", "quit"}
================================================================================
